---------------------------- MODULE AgentSession ----------------------------
(***************************************************************************)
(* The life of the agents pfnc deploys on a remote host: a connect job     *)
(* puts a new connection into the registry and drops the one it replaces;  *)
(* whoever asks a connection for its fast transport first (the UI thread   *)
(* for its glyph, a warm-up, a copy) uploads the agent, starts it and      *)
(* shakes hands with it while all others wait for the OnceLock; and the    *)
(* last one to let go of a connection kills its agent.                     *)
(*                                                                         *)
(* All connections are to one host.  Another pfnc may deploy its agent to  *)
(* the same file.  What goes over the streams of a call is QuicTransfer's. *)
(***************************************************************************)
EXTENDS Naturals

CONSTANTS
    Warms,       \* the threads of warm-up jobs
    MaxConns,    \* bound: connections made
    MaxProcs,    \* bound: agents started
    EnableQuic,  \* config.general.enable_quic_fast_path
    SshFaults,   \* may a call over SSH fail?
    HostFaults   \* may an agent die, its connection break, the terminal go?

ASSUME BoundsAssumption == {MaxConns, MaxProcs} \subseteq Nat \ {0}
ASSUME WarmsAssumption == {"ui", "job", "registry", "other", "nobody"} \cap Warms = {}
ASSUME SwitchesAssumption == {EnableQuic, SshFaults, HostFaults} \subseteq BOOLEAN

VARIABLES
    app,         \* "on" or "exited"
    th,          \* what each thread is doing, and with which connection
    dep,         \* how far the deployment in its hands is, and the agent started
    conns,       \* connections made so far
    registered,  \* the one in VfsRegistry::remotes
    held,        \* who holds an Arc of each connection
    cell,        \* SftpFs::quic_agent_cache
    handle,      \*   and the agent in it
    procs,       \* the agents on the host
    started,     \* how many there have been
    cut,         \* agents whose QUIC connection has died
    image,       \* /tmp/pfnc-agent: is it whole, and who truncated it last
    other,       \* the other pfnc: "idle", "writing", "up"
    via,         \* the agent the running copy goes through
    \* History.
    crashed,     \* agents that ended by themselves
    lost         \* agents nobody could be expected to kill

remote == <<procs, started, crashed, lost>>
file == <<image, other>>
link == <<cut, via>>
connections == <<conns, registered, held>>
vars == <<app, th, dep, conns, registered, held, cell, handle, procs, started, cut,
          image, other, via, crashed, lost>>

-----------------------------------------------------------------------------
Conns == 1..MaxConns
Procs == 1..MaxProcs
None == 0     \* no connection, no agent
Threads == {"ui", "job"} \cup Warms
Holders == {"registry"} \cup Threads

\* Where a thread is: resolving a location, probing for the fast transport, or
\* in its own part; its connection; for the UI thread, the event it handles.
At(where, c, event) == [at |-> where, conn |-> c, event |-> event]
Free == At("free", None, "none")
Idle == [step |-> "none", proc |-> None]

Init ==
    /\ app = "on" /\ th = [t \in Threads |-> Free] /\ dep = [t \in Threads |-> Idle]
    /\ conns = 0 /\ registered = None /\ held = [c \in Conns |-> {}]
    /\ cell = [c \in Conns |-> "empty"] /\ handle = [c \in Conns |-> None]
    /\ procs = [p \in Procs |-> "none"] /\ started = 0 /\ cut = {}
    /\ image = [whole |-> FALSE, by |-> "nobody"] /\ other = "idle" /\ via = None
    /\ crashed = {} /\ lost = {}

\* The kernel refuses to write a program that runs, and to run one that is
\* being written (ETXTBSY).
ImageRuns == other = "up" \/ \E p \in Procs : procs[p] = "up"
OtherWriters(t) == other = "writing" \/ \E u \in Threads \ {t} : dep[u].step = "write"

\* kill_remote_process; what it returns is ignored.
Kill(p) ==
    \/ /\ procs' = IF p # None /\ procs[p] = "up" THEN [procs EXCEPT ![p] = "gone"] ELSE procs
       /\ UNCHANGED lost
    \/ SshFaults /\ p # None /\ procs[p] = "up" /\ lost' = lost \cup {p} /\ UNCHANGED procs

\* Mutant: whoever lets go of a connection kills its agent.
Release_KillsAlways(t, c) ==
    held' = [held EXCEPT ![c] = @ \ {t}] /\ Kill(handle[c])

\* A thread lets go of connection c; Drop for SftpFs runs with the last Arc.
Release(t, c) ==
    /\ held' = [held EXCEPT ![c] = @ \ {t}]
    /\ IF held[c] = {t} THEN Kill(handle[c]) ELSE UNCHANGED <<procs, lost>>

Run(t, where) == th' = [th EXCEPT ![t].at = where]

-----------------------------------------------------------------------------
(* SftpFs::fast_transport.                                                 *)

\* quic_agent_cache.get_or_init: one thread deploys, the others wait.
BeginDeploy(t) ==
    /\ th[t].at = "probe" /\ cell[th[t].conn] = "empty"
    /\ cell' = [cell EXCEPT ![th[t].conn] = "busy"]
    /\ dep' = [dep EXCEPT ![t].step = "probe"]
    /\ UNCHANGED <<app, th, connections, handle, remote, file, link>>

\* Mutant: a failure is not cached.
GiveUp_Uncached(t) ==
    /\ dep' = [dep EXCEPT ![t] = Idle]
    /\ cell' = [cell EXCEPT ![th[t].conn] = "empty"]
    /\ UNCHANGED handle

\* deploy_and_connect_quic_agent returns None, and that is what is cached.
GiveUp(t) ==
    /\ dep' = [dep EXCEPT ![t] = Idle]
    /\ cell' = [cell EXCEPT ![th[t].conn] = "none"]
    /\ UNCHANGED handle
Advance(t, step) == dep' = [dep EXCEPT ![t].step = step] /\ UNCHANGED <<cell, handle>>

\* The remote system is Linux and there is a binary to upload, or not.
CheckHost(t) ==
    /\ dep[t].step = "probe"
    /\ GiveUp(t) \/ Advance(t, "open")
    /\ UNCHANGED <<app, th, connections, remote, file, link>>

\* The upload truncates the file; that fails while any agent runs from it.
OpenImage(t) ==
    /\ dep[t].step = "open"
    /\ \/ /\ ~ImageRuns
          /\ Advance(t, "write") /\ image' = [whole |-> FALSE, by |-> t]
       \/ /\ SshFaults \/ ImageRuns
          /\ GiveUp(t) /\ UNCHANGED image
    /\ UNCHANGED <<app, th, connections, remote, other, link>>

\* All writers write the same bytes, so the last to truncate makes it whole.
WriteImage(t) ==
    /\ dep[t].step = "write"
    /\ \/ /\ Advance(t, "exec")
          /\ image' = IF image.by = t THEN [image EXCEPT !.whole = TRUE] ELSE image
       \/ SshFaults /\ GiveUp(t) /\ UNCHANGED image
    /\ UNCHANGED <<app, th, connections, remote, other, link>>

\* channel.exec starts a shell; whether it can start the agent shows in the output.
ExecAgent(t) ==
    /\ dep[t].step = "exec"
    /\ IF image.whole /\ ~OtherWriters(t)
       THEN /\ started < MaxProcs
            /\ started' = started + 1
            /\ procs' = [procs EXCEPT ![started + 1] = "up"]
            /\ dep' = [dep EXCEPT ![t] = [step |-> "lines", proc |-> started + 1]]
       ELSE /\ dep' = [dep EXCEPT ![t].step = "lines"]
            /\ UNCHANGED <<procs, started>>
    /\ UNCHANGED <<app, th, connections, cell, handle, crashed, lost, file, link>>

\* parse_startup_lines.  An error drops the channel and kills nothing.
ReadStartup(t) ==
    /\ dep[t].step = "lines"
    /\ LET p == dep[t].proc IN
       \/ p # None /\ Advance(t, "hello") /\ UNCHANGED lost
       \/ /\ p # None => SshFaults \/ procs[p] # "up"
          /\ GiveUp(t)
          /\ lost' = IF p # None THEN lost \cup {p} ELSE lost
    /\ UNCHANGED <<app, th, connections, procs, started, crashed, file, link>>

\* connect_quic_agent, within HANDSHAKE_TIMEOUT.
Handshake(t) ==
    /\ dep[t].step = "hello"
    /\ \/ /\ procs[dep[t].proc] = "up"
          /\ dep' = [dep EXCEPT ![t] = Idle]
          /\ cell' = [cell EXCEPT ![th[t].conn] = "agent"]
          /\ handle' = [handle EXCEPT ![th[t].conn] = dep[t].proc]
       \/ Advance(t, "kill")
    /\ UNCHANGED <<app, th, connections, remote, file, link>>

\* Mutant: the agent that could not be reached is left running.
KillUnreached_Leaves(t) ==
    /\ dep[t].step = "kill" /\ GiveUp(t)
    /\ UNCHANGED <<app, th, connections, remote, file, link>>
KillUnreached(t) ==
    /\ dep[t].step = "kill" /\ GiveUp(t) /\ Kill(dep[t].proc)
    /\ UNCHANGED <<app, th, connections, started, crashed, file, link>>

Deploy(t) ==
    BeginDeploy(t) \/ CheckHost(t) \/ OpenImage(t) \/ WriteImage(t) \/ ExecAgent(t)
        \/ ReadStartup(t) \/ Handshake(t) \/ KillUnreached(t)

\* get_or_init has returned.
Probed(t) == th[t].at = "probe" /\ cell[th[t].conn] \in {"none", "agent"}

-----------------------------------------------------------------------------
(* The registry, and the modal jobs.                                       *)

\* remotes.lock() is held while a replaced connection is dropped.
Locked == th["job"].at = "drop"

\* VfsRegistry::resolve, by the UI thread or by a warm-up.
Resolve(t) ==
    /\ t # "job" /\ th[t].at = "resolve" /\ ~Locked
    /\ th' = [th EXCEPT ![t].at = "probe", ![t].conn = registered]
    /\ held' = [held EXCEPT ![registered] = @ \cup {t}]
    /\ UNCHANGED <<app, dep, conns, registered, cell, handle, remote, file, link>>

\* SftpFs::connect has opened a new connection, or has failed.
Dial ==
    /\ th["job"].at = "dial"
    /\ \/ conns' = conns + 1 /\ th' = [th EXCEPT !["job"] = At("insert", conns + 1, "connect")]
          /\ held' = [held EXCEPT ![conns + 1] = {"job"}]
       \/ Run("job", "failed") /\ UNCHANGED <<conns, held>>
    /\ UNCHANGED <<app, dep, registered, cell, handle, remote, file, link>>

\* remotes.insert; the connection it returns is dropped in the same statement.
Insert ==
    /\ th["job"].at = "insert"
    /\ registered' = th["job"].conn
    /\ LET new == th["job"].conn
           last == registered # None /\ held[registered] = {"registry"}
       IN /\ held' = [c \in Conns |-> IF c = new THEN {"registry"} ELSE held[c] \ {"registry"}]
          /\ th' = [th EXCEPT !["job"] = At(IF last THEN "drop" ELSE "connected",
                                            IF last THEN registered ELSE None, "connect")]
    /\ UNCHANGED <<app, dep, conns, cell, handle, remote, file, link>>

\* Mutant: the connection that was replaced is kept.
DropReplaced_Leaks ==
    /\ Locked /\ th' = [th EXCEPT !["job"] = At("connected", None, "connect")]
    /\ UNCHANGED <<app, dep, connections, cell, handle, remote, file, link>>
DropReplaced ==
    /\ Locked /\ Kill(handle[th["job"].conn])
    /\ th' = [th EXCEPT !["job"] = At("connected", None, "connect")]
    /\ UNCHANGED <<app, dep, connections, cell, handle, started, crashed, file, link>>

\* negotiate_transport in a copy between the host and this machine.
Negotiate ==
    /\ th["job"].event = "copy" /\ Probed("job")
    /\ via' = IF cell[th["job"].conn] = "agent" THEN handle[th["job"].conn] ELSE None
    /\ Run("job", "transfer")
    /\ UNCHANGED <<app, dep, connections, cell, handle, remote, file, cut>>

\* The transfers end: through an agent they fail if its connection is dead.
\* There is no way back to SFTP by then.
Transfer ==
    /\ th["job"].at = "transfer"
    /\ via' = None /\ Run("job", "ended")
    /\ Release("job", th["job"].conn)
    /\ UNCHANGED <<app, dep, conns, registered, cell, handle, started, crashed, file, cut>>

WarmDone(w) ==
    /\ w \in Warms /\ Probed(w)
    /\ Run(w, "ended") /\ Release(w, th[w].conn)
    /\ UNCHANGED <<app, dep, conns, registered, cell, handle, started, crashed, file, link>>

-----------------------------------------------------------------------------
(* The UI thread.                                                          *)

Ready == app = "on" /\ th["ui"] = Free
Browsing == Ready /\ th["job"] = Free
FreeWarms == {w \in Warms : th[w] = Free}

StartConnect ==
    /\ Browsing /\ conns < MaxConns /\ FreeWarms # {}
    /\ th' = [th EXCEPT !["job"] = At("dial", None, "connect")]
    /\ UNCHANGED <<app, dep, connections, cell, handle, remote, file, link>>

StartCopy ==
    /\ Browsing /\ registered # None
    /\ th' = [th EXCEPT !["job"] = At(IF EnableQuic THEN "probe" ELSE "transfer", registered, "copy")]
    /\ held' = [held EXCEPT ![registered] = @ \cup {"job"}]
    /\ UNCHANGED <<app, dep, conns, registered, cell, handle, remote, file, link>>

\* Finished: after a connect the UI asks for the glyph, whatever EnableQuic says.
JobFinished ==
    /\ Ready /\ th["job"].at \in {"connected", "failed", "ended"}
    /\ th' = [th EXCEPT !["job"] = Free,
                        !["ui"] = IF th["job"].at = "connected" THEN At("resolve", None, "connect") ELSE Free]
    /\ UNCHANGED <<app, dep, connections, cell, handle, remote, file, link>>

\* update_quic_available_for_profile, if a panel still shows the profile.
WarmFinished(w) ==
    /\ Ready /\ th[w].at = "ended"
    /\ \E next \in {At("resolve", None, "warm"), Free} : th' = [th EXCEPT ![w] = Free, !["ui"] = next]
    /\ UNCHANGED <<app, dep, connections, cell, handle, remote, file, link>>

\* The glyph is known; after a connect the warm-up is spawned.
UiProbed ==
    /\ Probed("ui")
    /\ \E w \in FreeWarms :
          th' = [th EXCEPT !["ui"] = Free,
                           ![w] = IF EnableQuic /\ th["ui"].event = "connect"
                                  THEN At("resolve", None, "warm") ELSE @]
    /\ Release("ui", th["ui"].conn)
    /\ UNCHANGED <<app, dep, conns, registered, cell, handle, started, crashed, file, link>>

\* main returns and drops the App.  The registry goes with it unless a job's
\* closure shares it, and a connection unless a job holds it; their threads and
\* their deployments die with the process.
RegistryShared ==
    \/ \E w \in Warms : th[w].at \in {"resolve", "probe"}
    \/ th["job"].at \in {"dial", "insert", "drop"}
Killed == {handle[c] : c \in {d \in Conns : held[d] = {"registry"} /\ ~RegistryShared}} \ {None}
Exit ==
    /\ app' = "exited"
    /\ \E dead \in {Killed} \cup (IF SshFaults THEN {{}} ELSE {}) :
          /\ procs' = [p \in Procs |-> IF p \in dead /\ procs[p] = "up" THEN "gone" ELSE procs[p]]
          /\ lost' = {p \in Procs : procs'[p] = "up"}
    /\ th' = [t \in Threads |-> Free] /\ dep' = [t \in Threads |-> Idle]
    /\ held' = [c \in Conns |-> {}] /\ registered' = None
    /\ UNCHANGED <<conns, cell, handle, started, crashed, file, link>>

Quit == Browsing /\ Exit
InputLost == HostFaults /\ Ready /\ th["job"] # Free /\ Exit

-----------------------------------------------------------------------------
(* The remote host, and the other pfnc.                                    *)

\* Nothing drives the connection between calls, so it may time out.
IdleTimeout ==
    /\ \E p \in Procs : procs[p] = "up" /\ p \notin cut /\ p # via
          /\ (\E c \in Conns : handle[c] = p) /\ cut' = cut \cup {p}
    /\ UNCHANGED <<app, th, dep, connections, cell, handle, remote, file, via>>

AgentDies ==
    /\ \E p \in Procs : /\ procs[p] = "up" /\ (HostFaults \/ p \in lost)
                        /\ procs' = [procs EXCEPT ![p] = "gone"]
                        /\ crashed' = crashed \cup {p} /\ cut' = cut \cup {p}
    /\ UNCHANGED <<app, th, dep, connections, cell, handle, started, lost, file, via>>

OtherOpens ==
    /\ other = "idle" /\ ~ImageRuns
    /\ other' = "writing" /\ image' = [whole |-> FALSE, by |-> "other"]
    /\ UNCHANGED <<app, th, dep, connections, cell, handle, remote, link>>
OtherStarts ==
    /\ other = "writing" /\ other' = "up"
    /\ image.whole \/ image.by = "other"
    /\ image' = [image EXCEPT !.whole = TRUE]
    /\ \A t \in Threads : dep[t].step # "write"
    /\ UNCHANGED <<app, th, dep, connections, cell, handle, remote, link>>
OtherStops ==
    /\ other \in {"writing", "up"} /\ other' = "idle"
    /\ UNCHANGED <<app, th, dep, connections, cell, handle, remote, image, link>>

-----------------------------------------------------------------------------
UiStep == Resolve("ui") \/ Deploy("ui") \/ UiProbed \/ JobFinished \/ \E w \in Warms : WarmFinished(w)
JobStep == Dial \/ Insert \/ DropReplaced \/ Deploy("job") \/ Negotiate \/ Transfer
WarmStep(w) == Resolve(w) \/ Deploy(w) \/ WarmDone(w)
Environment == IdleTimeout \/ AgentDies \/ OtherOpens \/ OtherStarts \/ OtherStops
Exited == app = "exited" /\ UNCHANGED vars

Next ==
    \/ UiStep \/ JobStep \/ (\E w \in Warms : WarmStep(w))
    \/ StartConnect \/ StartCopy \/ Quit \/ InputLost \/ Environment \/ Exited

Spec == Init /\ [][Next]_vars

\* Threads are scheduled, and every SSH call returns (session.set_timeout).
FairSpec == Spec /\ WF_vars(UiStep) /\ WF_vars(JobStep) /\ \A w \in Warms : WF_vars(WarmStep(w))

-----------------------------------------------------------------------------
(* Properties.                                                             *)

Whereabouts == {"free", "dial", "insert", "drop", "connected", "failed", "resolve", "probe", "transfer", "ended"}
Events == {"none", "connect", "copy", "warm"}
Steps == {"none", "probe", "open", "write", "exec", "lines", "hello", "kill"}

\* Every variable holds a value of its kind.
TypeOK ==
    /\ app \in {"on", "exited"}
    /\ th \in [Threads -> [at : Whereabouts, conn : Conns \cup {None}, event : Events]]
    /\ dep \in [Threads -> [step : Steps, proc : Procs \cup {None}]]
    /\ conns \in Conns \cup {0} /\ registered \in Conns \cup {None}
    /\ held \in [Conns -> SUBSET Holders]
    /\ cell \in [Conns -> {"empty", "busy", "none", "agent"}]
    /\ handle \in [Conns -> Procs \cup {None}]
    /\ procs \in [Procs -> {"none", "up", "gone"}] /\ started \in Procs \cup {0}
    /\ image \in [whole : BOOLEAN, by : Threads \cup {"other", "nobody"}]
    /\ other \in {"idle", "writing", "up"} /\ via \in Procs \cup {None}
    /\ cut \in SUBSET Procs /\ crashed \in SUBSET Procs /\ lost \in SUBSET Procs

\* The agents that somebody is going to kill: the one in a connection that is
\* held, the one being deployed, the one of the connection being dropped.
Owned ==
    {handle[c] : c \in {d \in Conns : held[d] # {}}}
        \cup {dep[t].proc : t \in Threads}
        \cup (IF Locked THEN {handle[th["job"].conn]} ELSE {})

\* No agent is left running "on the remote host indefinitely": one that nobody
\* is going to kill is one whose startup or kill call failed, or whose process
\* of pfnc has gone.
AgentsOwned == \A p \in Procs : procs[p] = "up" => p \in Owned \cup lost

\* As long as a copy goes through an agent nobody kills it: not the end of a
\* warm-up, not a reconnect.
KeptWhileUsed == via # None => procs[via] = "up" \/ via \in crashed

\* Whatever the UI thread waits for, an upload, a handshake or the registry's
\* mutex, it gets back to its loop.
UiReturns == []<>(th["ui"] = Free)

\* The agent of a connection that has been replaced goes away in the end.
LeftBehind(c) ==
    /\ registered > c /\ cell[c] = "agent"
    /\ procs[handle[c]] = "up" /\ handle[c] \notin lost
ReplacedGoAway == \A c \in Conns : []<>(~LeftBehind(c))

\* Only the user's opt-in makes pfnc upload and execute anything.
AgentOnlyIfEnabled == ~EnableQuic => started = 0

\* A copy through an agent is not attempted over a connection that has died.
CopiesOverLiveLinks == via \notin cut \ crashed

\* The UI thread never waits for the network inside VfsRegistry::resolve.
ResolveNeverWaits == th["ui"].at = "resolve" => ~Locked
=============================================================================
