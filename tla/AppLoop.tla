------------------------------ MODULE AppLoop ------------------------------
(***************************************************************************)
(* The main loop of pfnc: modes and key presses, the panels, the registry  *)
(* of backends, the job manager with its threads and its event channel,    *)
(* and the silent jobs that warm up the QUIC fast path.                    *)
(*                                                                         *)
(* The UI thread handles one key press or one job event at a time; job     *)
(* threads run between any two of them.  Directories are two levels deep,  *)
(* and an archive file lies in the upper one.                              *)
(***************************************************************************)
EXTENDS Naturals, Sequences

CONSTANTS
    Profiles,       \* connection profiles
    MaxLayers,      \* bound: archives nested in one another
    MaxJobs,        \* bound: jobs a session starts
    Commands,       \* bound: the commands the user gives
    ConfirmDelete,  \* config.general.confirm_delete
    EnableQuic,     \* config.general.enable_quic_fast_path
    InputFails      \* may reading the terminal fail?

ASSUME BoundsAssumption == MaxLayers \in Nat /\ MaxJobs \in Nat \ {0}
ASSUME CommandsAssumption ==
    Commands \subseteq {"copy", "move", "rename", "mkdir", "delete", "sync", "connect", "archive"}
ASSUME SwitchesAssumption == {ConfirmDelete, EnableQuic, InputFails} \subseteq BOOLEAN
\* Location is an enum: no profile is taken for the layer of an archive.
ASSUME ProfilesAssumption == "zip" \notin Profiles

VARIABLES
    loop,        \* "on", "quit", "failed"
    mode,        \* the modal state, with the command it is about
    panels,      \* the two panels
    active,      \* the side key presses go to
    remotes,     \* per profile: no connection, or what is known of its agent
    archives,    \* the archive locations that have been opened
    jobs,        \* the job manager's handles, each with its thread
    nextId,
    events,      \* the channel from the threads to the loop
    background,  \* the jobs that never took over the mode
    plans        \* the SyncPlanCell of each scan

vars == <<loop, mode, panels, active, remotes, archives, jobs, nextId, events, background, plans>>
registry == <<remotes, archives>>
manager == <<jobs, nextId>>

-----------------------------------------------------------------------------
(* Locations, panels, commands and jobs.                                   *)

Sides == {"left", "right"}
Other(side) == IF side = "left" THEN "right" ELSE "left"

\* A Location: empty for Local, a profile for Remote, one more layer for Archive.
Zip == "zip"
Local == <<>>
Remote(p) == <<p>>
Archive(loc) == Append(loc, Zip)
IsArchive(loc) == loc # Local /\ loc[Len(loc)] = Zip
IsRemote(loc) == Len(loc) = 1 /\ loc[1] \in Profiles
Base(loc) == SubSeq(loc, 1, Len(loc) - 1)
Uses(loc, p) == loc # Local /\ loc[1] = p

Hosts == {Local} \cup {Remote(p) : p \in Profiles}
Within(base, n) == base \o [i \in 1..n |-> Zip]
Locations == {Within(base, n) : base \in Hosts, n \in 0..MaxLayers}
Dirs == {"root", "sub"}
Places == [loc : Locations, dir : Dirs]
Nowhere == [loc |-> Local, dir |-> "nowhere"]
Root(loc) == [loc |-> loc, dir |-> "root"]

\* A panel: where it is, where its selected entries are from, its glyph, and
\* whose later changes its listing misses; one that could not be listed is
\* empty and misses all.
Panel(place) == [at |-> place, sel |-> Nowhere, quic |-> FALSE, misses |-> "none"]
Reload(panel, listed) ==
    [panel EXCEPT !.sel = Nowhere, !.misses = IF listed THEN "none" ELSE "all"]
Show(panel, place, listed) == Reload([panel EXCEPT !.at = place], listed)
Missing(panel, loc, who) ==
    IF panel.at.loc = loc /\ panel.misses # "all" THEN [panel EXCEPT !.misses = who] ELSE panel
ReloadBoth == \E listed \in [Sides -> BOOLEAN] :
                 panels' = [s \in Sides |-> Reload(panels[s], listed[s])]
HasEntries == panels[active].misses # "all"
Here == panels[active].at
There == panels[Other(active)].at
SelectedItems == IF panels[active].sel # Nowhere THEN panels[active].sel ELSE Here

\* A command: its items, the places it goes from and to, the panel that asked.
Task(op, items, src, dst) ==
    [op |-> op, items |-> items, src |-> src, dst |-> dst, side |-> active]
NoTask == [op |-> "none", items |-> Nowhere, src |-> Nowhere, dst |-> Nowhere, side |-> "left"]

Ids == 0..(MaxJobs - 1)
NoId == MaxJobs
NoJob == [task |-> NoTask, st |-> "none", cancel |-> FALSE, told |-> FALSE]

Mode(is, task) == [is |-> is, task |-> task, job |-> NoId]
Browsing == Mode("browsing", NoTask)

FileOps == {"copy", "move", "rename", "delete"}
Ops == FileOps \cup {"mkdir", "scan", "sync", "connect", "archive", "warm"}

\* VfsRegistry::resolve.
Resolves(loc) ==
    \/ loc = Local
    \/ IsRemote(loc) /\ remotes[loc[1]] # "none"
    \/ IsArchive(loc) /\ loc \in archives

\* SftpFs::fast_transport: the first call probes, the answer is kept.
Probed(p, found) == [remotes EXCEPT ![p] = IF @ = "unprobed" THEN found ELSE @]
Findings == {"agent", "noagent"}

\* quic_available_for, given the connections after its probe.
QuicAvailable(loc, after) == loc # Local /\ loc[1] \in Profiles /\ after[loc[1]] = "agent"

Init ==
    /\ loop = "on" /\ mode = Browsing /\ active = "left"
    /\ \E left, right \in Dirs :
          panels = [s \in Sides |->
                      Panel([loc |-> Local, dir |-> IF s = "left" THEN left ELSE right])]
    /\ remotes = [p \in Profiles |-> "none"] /\ archives = {}
    /\ jobs = [j \in Ids |-> NoJob] /\ nextId = 0 /\ events = <<>>
    /\ background = {} /\ plans = [j \in Ids |-> "none"]

\* JobManager::spawn.
Spawned(task) == [jobs EXCEPT ![nextId] = [NoJob EXCEPT !.task = task, !.st = "running"]]

\* A job that takes over the mode.  A connect needs a second id for its warm-up.
Spawn(task) ==
    /\ nextId + 1 < MaxJobs
    /\ jobs' = Spawned(task) /\ nextId' = nextId + 1
    /\ mode' = [is |-> "progress", task |-> task, job |-> nextId]

-----------------------------------------------------------------------------
(* Key presses while browsing.                                             *)

Key == loop = "on" /\ mode.is = "browsing"

QuitKey ==
    /\ Key /\ loop' = "quit"
    /\ UNCHANGED <<mode, panels, active, registry, manager, events, background, plans>>

\* Mutant: Tab changes sides whatever is open.
TabKey_AnyMode ==
    /\ loop = "on" /\ active' = Other(active)
    /\ UNCHANGED <<loop, mode, panels, registry, manager, events, background, plans>>

TabKey ==
    /\ Key /\ active' = Other(active)
    /\ UNCHANGED <<loop, mode, panels, registry, manager, events, background, plans>>

ToggleSelection ==
    /\ Key /\ HasEntries
    /\ \E some \in {Here, Nowhere} : panels' = [panels EXCEPT ![active].sel = some]
    /\ UNCHANGED <<loop, mode, active, registry, manager, events, background, plans>>

Descend ==
    /\ Key /\ HasEntries /\ Here.dir = "root"
    /\ \E listed \in BOOLEAN :
          panels' = [panels EXCEPT ![active] = Show(@, [Here EXCEPT !.dir = "sub"], listed)]
    /\ UNCHANGED <<loop, mode, active, registry, manager, events, background, plans>>

\* Up to the parent directory, or out of an archive to the place it lies in.
Ascend ==
    /\ Key
    /\ \E listed \in BOOLEAN :
          \/ /\ Here.dir = "sub"
             /\ panels' = [panels EXCEPT ![active] = Show(@, Root(Here.loc), listed)]
          \/ /\ Here.dir = "root" /\ IsArchive(Here.loc)
             /\ panels' = [panels EXCEPT ![active] = Show(@, Root(Base(Here.loc)), listed)]
    /\ UNCHANGED <<loop, mode, active, registry, manager, events, background, plans>>

OpenArchive ==
    /\ Key /\ "archive" \in Commands /\ HasEntries /\ Here.dir = "root" /\ Archive(Here.loc) \in Locations
    /\ Spawn(Task("archive", Nowhere, Here, Root(Archive(Here.loc))))
    /\ UNCHANGED <<loop, panels, active, registry, events, background, plans>>

\* The keys that open a dialog: nothing happens before it is answered.
AskKey ==
    /\ Key
    /\ \E op \in Commands \cap {"copy", "move", "rename", "mkdir", "delete"} :
          /\ op # "mkdir" => HasEntries
          /\ op = "move" => panels[active].sel # Nowhere
          /\ op = "rename" => panels[active].sel = Nowhere
          /\ op = "delete" => ConfirmDelete
          /\ mode' = Mode(IF op = "delete" THEN "confirm" ELSE "text",
                          Task(op, IF op = "mkdir" THEN Here ELSE SelectedItems, Nowhere, Nowhere))
    /\ UNCHANGED <<loop, panels, active, registry, manager, events, background, plans>>

FormKey ==
    /\ Key
    /\ \E is \in (Commands \cap {"connect"}) \cup {"help"} : mode' = Mode(is, NoTask)
    /\ UNCHANGED <<loop, panels, active, registry, manager, events, background, plans>>

DeleteKey ==
    /\ Key /\ "delete" \in Commands /\ ~ConfirmDelete /\ HasEntries
    /\ Spawn(Task("delete", SelectedItems, Here, Here))
    /\ UNCHANGED <<loop, panels, active, registry, events, background, plans>>

SyncKey ==
    /\ Key /\ "sync" \in Commands /\ Resolves(Here.loc) /\ Resolves(There.loc)
    /\ Spawn(Task("scan", Here, Here, There))
    /\ UNCHANGED <<loop, panels, active, registry, events, background, plans>>

\* edit_file holds the UI thread.  A remote file is fetched, and written back
\* if it has changed; a file that cannot be fetched leaves the panels alone.
EditKey ==
    /\ Key /\ Resolves(Here.loc) /\ HasEntries /\ ReloadBoth
    /\ UNCHANGED <<loop, mode, active, registry, manager, events, background, plans>>

-----------------------------------------------------------------------------
(* Key presses in a dialog.                                                *)

Dismiss ==
    /\ loop = "on" /\ mode.is \in {"text", "confirm", "connect", "help"}
    /\ mode' = Browsing
    /\ UNCHANGED <<loop, panels, active, registry, manager, events, background, plans>>

\* handle_confirm_key: a delete takes the active panel's location only now.
Confirm ==
    /\ loop = "on" /\ mode.is = "confirm"
    /\ Spawn(IF mode.task.op = "delete"
             THEN Task("delete", mode.task.items, Here, Here)
             ELSE mode.task)
    /\ UNCHANGED <<loop, panels, active, registry, events, background, plans>>

\* submit_text_input for a copy, a move or a rename: both ends are taken from
\* the panels only now.  A move within one location is a rename.
SubmitText ==
    /\ loop = "on" /\ mode.is = "text" /\ mode.task.op # "mkdir"
    /\ LET renames == mode.task.op = "rename" \/ (mode.task.op = "move" /\ Here.loc = There.loc)
       IN IF renames THEN Spawn(Task("rename", mode.task.items, Here, Here))
          ELSE IF Resolves(Here.loc) /\ Resolves(There.loc)
          THEN Spawn(Task(mode.task.op, mode.task.items, Here, There))
          ELSE mode' = Browsing /\ UNCHANGED manager
    /\ UNCHANGED <<loop, panels, active, registry, events, background, plans>>

\* submit_text_input for mkdir: made, or refused, by the UI thread.
SubmitMkdir ==
    /\ loop = "on" /\ mode.is = "text" /\ mode.task.op = "mkdir"
    /\ mode' = Browsing
    /\ \E made, listed \in BOOLEAN :
          LET after == IF made /\ Resolves(Here.loc) /\ There = Here
                       THEN [panels EXCEPT ![Other(active)] = Missing(@, Here.loc, "ui")] ELSE panels
          IN panels' = [after EXCEPT ![active] = Reload(@, listed)]
    /\ UNCHANGED <<loop, active, registry, manager, events, background, plans>>

SubmitConnect ==
    /\ loop = "on" /\ mode.is = "connect"
    /\ \E p \in Profiles : Spawn(Task("connect", Nowhere, Here, Root(Remote(p))))
    /\ UNCHANGED <<loop, panels, active, registry, events, background, plans>>

\* Mutant: Esc drops the job's handle.
CancelKey_Reaps ==
    /\ loop = "on" /\ mode.is = "progress" /\ jobs[mode.job].st = "running"
    /\ jobs' = [jobs EXCEPT ![mode.job] = NoJob]
    /\ UNCHANGED <<loop, mode, panels, active, registry, nextId, events, background, plans>>

\* handle_progress_key: Esc sets the token, the dialog stays.
CancelKey ==
    /\ loop = "on" /\ mode.is = "progress" /\ jobs[mode.job] # NoJob
    /\ jobs' = [jobs EXCEPT ![mode.job].cancel = TRUE]
    /\ UNCHANGED <<loop, mode, panels, active, registry, nextId, events, background, plans>>

-----------------------------------------------------------------------------
(* Job threads.                                                            *)

Running(j) == jobs[j].st = "running"
Step(j, st) == [jobs EXCEPT ![j].st = st]
Send(j, kind, outcome) == Append(events, [job |-> j, kind |-> kind, outcome |-> outcome])

\* A file operation changes files at one end or at both.
Changed(task) ==
    CASE task.op \in {"copy", "sync"} -> {task.dst.loc}
      [] task.op \in {"delete", "rename"} -> {task.src.loc}
      [] OTHER -> {task.src.loc, task.dst.loc}

JobChanges(j) ==
    /\ Running(j) /\ jobs[j].task.op \in FileOps \cup {"sync"}
    /\ Resolves(jobs[j].task.src.loc)
    /\ panels' = [s \in Sides |-> IF panels[s].at.loc \in Changed(jobs[j].task)
                                  THEN Missing(panels[s], panels[s].at.loc, "job") ELSE panels[s]]
    /\ UNCHANGED <<loop, mode, active, registry, manager, events, background, plans>>

\* negotiate_transport: one end is local, the other one remote.
JobProbes(j) ==
    /\ Running(j) /\ EnableQuic /\ jobs[j].task.op \in {"copy", "move", "sync"}
    /\ LET ends == {jobs[j].task.src.loc, jobs[j].task.dst.loc}
       IN \E p \in Profiles, found \in Findings :
             ends = {Local, Remote(p)} /\ remotes' = Probed(p, found)
    /\ UNCHANGED <<loop, mode, panels, active, archives, manager, events, background, plans>>

\* connect_and_cache, open_archive_and_cache, build_sync_plan and the warm-up
\* have done their work; their results are in place before the job ends.
JobDone(j) ==
    /\ Running(j) /\ jobs' = Step(j, "done")
    /\ LET task == jobs[j].task IN
       \/ /\ task.op = "connect"
          /\ remotes' = [remotes EXCEPT ![task.dst.loc[1]] = "unprobed"]
          /\ UNCHANGED <<archives, plans>>
       \/ /\ task.op = "archive" /\ Resolves(task.src.loc)
          /\ archives' = archives \cup {task.dst.loc}
          /\ UNCHANGED <<remotes, plans>>
       \/ /\ task.op = "scan"
          /\ \E plan \in {"empty", "some"} : plans' = [plans EXCEPT ![j] = plan]
          /\ UNCHANGED <<remotes, archives>>
       \/ /\ task.op = "warm"
          /\ \E found \in Findings : remotes' = Probed(task.dst.loc[1], found)
          /\ UNCHANGED <<archives, plans>>
    /\ UNCHANGED <<loop, mode, panels, active, nextId, events, background>>

JobReports(j) ==
    /\ Running(j) /\ jobs[j].task.op # "warm" /\ ~jobs[j].told
    /\ jobs' = [jobs EXCEPT ![j].told = TRUE]
    /\ events' = Send(j, "progress", "none")
    /\ UNCHANGED <<loop, mode, panels, active, registry, nextId, background, plans>>

\* Mutant: a scan may complete before its plan is in the cell.
Outcomes_PlanLate(j) ==
    IF jobs[j].task.op \in {"scan", "warm"} THEN {"Completed"} ELSE {"Completed", "Failed"}

\* How the thread of a job can end: Completed when its work is done, Cancelled
\* only where the token is looked at, Failed by an error or a panic.
Outcomes(j) ==
    LET op == jobs[j].task.op IN
    IF jobs[j].st = "done" THEN {"Completed"}
    ELSE (IF op = "warm" THEN {} ELSE {"Failed"})
         \cup (IF op \in FileOps \cup {"sync"} THEN {"Completed"} ELSE {})
         \cup (IF jobs[j].cancel /\ op \in FileOps \cup {"sync", "scan"} THEN {"Cancelled"} ELSE {})

\* Mutant: a panic ends the thread, and nobody is told.
JobEnds_PanicLost(j) ==
    /\ jobs[j].st \in {"running", "done"}
    /\ \E outcome \in Outcomes(j) :
          /\ jobs' = Step(j, "ended")
          /\ events' = IF outcome = "Failed" THEN events ELSE Send(j, "finished", outcome)
    /\ UNCHANGED <<loop, mode, panels, active, registry, nextId, background, plans>>

JobEnds(j) ==
    /\ jobs[j].st \in {"running", "done"}
    /\ \E outcome \in Outcomes(j) :
          jobs' = Step(j, "ended") /\ events' = Send(j, "finished", outcome)
    /\ UNCHANGED <<loop, mode, panels, active, registry, nextId, background, plans>>

-----------------------------------------------------------------------------
(* Job events: handle_job_event.                                           *)

\* The next event, and whose it is.
NextIs(kind) == loop = "on" /\ events # <<>> /\ Head(events).kind = kind
J == Head(events).job
Completed == Head(events).outcome = "Completed"
Reaped == [jobs EXCEPT ![J] = NoJob]
IsCurrent == mode.is = "progress" /\ mode.job = J

\* The numbers shown are not modelled, so only the event is gone.
HandleProgress ==
    /\ NextIs("progress") /\ events' = Tail(events)
    /\ UNCHANGED <<loop, mode, panels, active, registry, manager, background, plans>>

\* Mutant: only the active panel is looked at.
Glyphs_OnlyActive(p, after) ==
    [s \in Sides |-> IF s = active /\ Uses(panels[s].at.loc, p)
                     THEN [panels[s] EXCEPT !.quic = QuicAvailable(panels[s].at.loc, after)]
                     ELSE panels[s]]
\* update_quic_available_for_profile, after the connections became "after".
Glyphs(p, after) ==
    [s \in Sides |-> IF Uses(panels[s].at.loc, p)
                     THEN [panels[s] EXCEPT !.quic = QuicAvailable(panels[s].at.loc, after)]
                     ELSE panels[s]]

FinishBackground ==
    /\ NextIs("finished") /\ J \in background
    /\ events' = Tail(events) /\ jobs' = Reaped /\ background' = background \ {J}
    /\ \E found \in Findings :
          LET p == jobs[J].task.dst.loc[1] IN
          /\ remotes' = IF \E s \in Sides : Uses(panels[s].at.loc, p) THEN Probed(p, found) ELSE remotes
          /\ panels' = Glyphs(p, remotes')
    /\ UNCHANGED <<loop, mode, active, archives, nextId, plans>>

\* The job's dialog closes.  The code returns early for a job that is not the
\* mode's own; there is none (ProgressIsLive), so that branch has no action.
Finish(ops) ==
    /\ NextIs("finished") /\ J \notin background /\ jobs[J].task.op \in ops
    /\ events' = Tail(events)
    /\ IsCurrent

\* Mutant: only a completed operation reloads the panels.
FinishFileOp_OnlyCompleted ==
    /\ Finish(FileOps \cup {"sync"}) /\ mode' = Browsing /\ jobs' = Reaped
    /\ IF Completed THEN ReloadBoth ELSE UNCHANGED panels
    /\ UNCHANGED <<loop, active, registry, nextId, background, plans>>

FinishFileOp ==
    /\ Finish(FileOps \cup {"sync"}) /\ mode' = Browsing /\ jobs' = Reaped
    /\ ReloadBoth
    /\ UNCHANGED <<loop, active, registry, nextId, background, plans>>

\* The panel that asked shows the place, with its glyph after the probe.
Switched(place, listed) ==
    [panels EXCEPT ![mode.task.side] =
        [Show(@, place, listed) EXCEPT !.quic = QuicAvailable(place.loc, remotes')]]

\* Mutant: the panel switches whatever became of the connect.
FinishConnect_AnyOutcome ==
    /\ Finish({"connect"}) /\ mode' = Browsing /\ jobs' = Reaped
    /\ panels' = [panels EXCEPT ![mode.task.side] = Show(@, mode.task.dst, Completed)]
    /\ UNCHANGED <<loop, active, registry, nextId, background, plans>>

\* The panel switches, its glyph is looked up (which probes), and the warm-up
\* starts in the background.
FinishConnect ==
    /\ Finish({"connect"}) /\ mode' = Browsing
    /\ IF ~Completed
       THEN jobs' = Reaped /\ UNCHANGED <<panels, remotes, nextId, background>>
       ELSE LET place == mode.task.dst
                p == place.loc[1]
                warm == [Task("warm", Nowhere, place, place) EXCEPT !.side = mode.task.side]
            IN /\ \E found \in Findings : remotes' = Probed(p, found)
               /\ \E listed \in BOOLEAN : panels' = Switched(place, listed)
               /\ IF EnableQuic
                  THEN /\ jobs' = [Spawned(warm) EXCEPT ![J] = NoJob]
                       /\ nextId' = nextId + 1 /\ background' = background \cup {nextId}
                  ELSE jobs' = Reaped /\ UNCHANGED <<nextId, background>>
    /\ UNCHANGED <<loop, active, archives, plans>>

FinishArchive ==
    /\ Finish({"archive"}) /\ mode' = Browsing /\ jobs' = Reaped
    /\ IF ~Completed
       THEN UNCHANGED <<panels, remotes>>
       ELSE LET place == mode.task.dst IN
            /\ \E found \in Findings :
                  remotes' = IF place.loc[1] \in Profiles THEN Probed(place.loc[1], found) ELSE remotes
            /\ \E listed \in BOOLEAN : panels' = Switched(place, listed)
    /\ UNCHANGED <<loop, active, archives, nextId, background, plans>>

\* Mutant: the plan is applied as soon as it is there.
FinishScan_RunsAtOnce ==
    /\ Finish({"scan"}) /\ plans' = [plans EXCEPT ![J] = "none"]
    /\ IF Completed /\ plans[J] = "some" /\ nextId + 1 < MaxJobs
       THEN LET task == [mode.task EXCEPT !.op = "sync"] IN
            /\ jobs' = [Spawned(task) EXCEPT ![J] = NoJob] /\ nextId' = nextId + 1
            /\ mode' = [is |-> "progress", task |-> task, job |-> nextId]
       ELSE mode' = Browsing /\ jobs' = Reaped /\ UNCHANGED nextId
    /\ UNCHANGED <<loop, panels, active, registry, background>>

\* The plan is drained; one with something in it has to be confirmed.
FinishScan ==
    /\ Finish({"scan"}) /\ jobs' = Reaped
    /\ plans' = [plans EXCEPT ![J] = IF Completed THEN "none" ELSE @]
    /\ mode' = IF Completed /\ plans[J] = "some"
               THEN Mode("confirm", [mode.task EXCEPT !.op = "sync"])
               ELSE Browsing
    /\ UNCHANGED <<loop, panels, active, registry, nextId, background>>

\* An input error ends the program, and whatever its job threads are doing.
InputLost ==
    /\ InputFails /\ loop = "on" /\ loop' = "failed"
    /\ mode' = Browsing /\ jobs' = [j \in Ids |-> NoJob] /\ nextId' = 0 /\ events' = <<>>
    /\ background' = {} /\ plans' = [j \in Ids |-> "none"]
    /\ UNCHANGED <<panels, active, registry>>

-----------------------------------------------------------------------------
BrowsingKey ==
    \/ QuitKey \/ TabKey \/ ToggleSelection \/ Descend \/ Ascend \/ OpenArchive
    \/ AskKey \/ FormKey \/ DeleteKey \/ SyncKey \/ EditKey
DialogKey == Dismiss \/ Confirm \/ SubmitText \/ SubmitMkdir \/ SubmitConnect \/ CancelKey
HandleEvent ==
    \/ HandleProgress \/ FinishBackground \/ FinishFileOp \/ FinishConnect
    \/ FinishArchive \/ FinishScan
JobThread(j) == JobChanges(j) \/ JobProbes(j) \/ JobDone(j) \/ JobReports(j) \/ JobEnds(j)

Over == loop # "on" /\ UNCHANGED vars

Next ==
    \/ BrowsingKey \/ DialogKey \/ HandleEvent \/ InputLost \/ Over
    \/ \E j \in Ids : JobThread(j)

Spec == Init /\ [][Next]_vars

\* A download through an agent does not end once its token is set: ProgressIo
\* reports the cancellation as Interrupted, which write_all tries again.
Hangs(j) ==
    /\ EnableQuic /\ Running(j) /\ jobs[j].cancel
    /\ jobs[j].task.op \in {"copy", "move", "sync"} /\ jobs[j].task.dst.loc = Local
    /\ IsRemote(jobs[j].task.src.loc) /\ remotes[jobs[j].task.src.loc[1]] = "agent"

\* The loop's Select serves the event channel again and again, and the calls of
\* every other job return: while such threads run, one of them ends.
FairSpec == Spec /\ WF_vars(HandleEvent) /\ WF_vars(\E j \in Ids : ~Hangs(j) /\ JobEnds(j))

-----------------------------------------------------------------------------
(* Properties.                                                             *)

\* Every variable holds a value of its kind; a handle exists for every
\* background job, and only a progress dialog names a job.
Tasks == [op : Ops \cup {"none"}, items : Places \cup {Nowhere}, src : Places \cup {Nowhere},
          dst : Places \cup {Nowhere}, side : Sides]
TypeOK ==
    /\ loop \in {"on", "quit", "failed"} /\ active \in Sides
    /\ mode.is \in {"browsing", "text", "confirm", "connect", "help", "progress"}
    /\ mode.task \in Tasks /\ mode.job \in Ids \cup {NoId}
    /\ mode.job # NoId <=> mode.is = "progress"
    /\ panels \in [Sides -> [at : Places, sel : Places \cup {Nowhere}, quic : BOOLEAN,
                             misses : {"none", "job", "ui", "all"}]]
    /\ remotes \in [Profiles -> {"none", "unprobed"} \cup Findings] /\ archives \subseteq Locations
    /\ jobs \in [Ids -> [task : Tasks, st : {"none", "running", "done", "ended"},
                         cancel : BOOLEAN, told : BOOLEAN]]
    /\ nextId \in 0..MaxJobs
    /\ background \subseteq {j \in Ids : jobs[j].task.op = "warm"}
    /\ plans \in [Ids -> {"none", "empty", "some"}]

\* What a dialog or a running job is about is still what the panels show: the
\* items were picked before, their location is taken only when it starts.
UserTask == mode.is \in {"text", "confirm", "progress"}
CommandMatchesPanels ==
    UserTask =>
        /\ mode.task.side = active
        /\ mode.task.items # Nowhere => mode.task.items = Here
        /\ mode.task.src # Nowhere => mode.task.src = Here
        /\ mode.task.op \in {"copy", "move", "scan", "sync"} /\ mode.task.dst # Nowhere =>
              mode.task.dst = There

\* A progress dialog is never left standing: its job runs, or has its Finished
\* event still in the channel.  No other job of the user's exists.
EventsOf(j, kind) == {i \in DOMAIN events : events[i].job = j /\ events[i].kind = kind}
ProgressIsLive ==
    /\ mode.is = "progress" =>
          \/ jobs[mode.job].st \in {"running", "done"}
          \/ jobs[mode.job].st = "ended" /\ EventsOf(mode.job, "finished") # {}
    /\ \A j \in Ids \ background : jobs[j].st # "none" => mode.is = "progress" /\ mode.job = j

\* "sync scan produced no plan" is never shown: the plan is there before the event.
PlanReady ==
    \A i \in DOMAIN events : LET e == events[i] IN
        e.kind = "finished" /\ e.outcome = "Completed" /\ jobs[e.job].task.op = "scan"
            => plans[e.job] # "none"

\* A panel is only ever at a location the registry can resolve.
PanelsResolve == \A s \in Sides : Resolves(panels[s].at.loc)

\* Once its dialog is gone, no panel shows a listing from before a job's changes,
\* however the job ended: it was listed anew, or is empty as that failed.
FreshAfterJobs == loop = "on" /\ mode.is # "progress" => \A s \in Sides : panels[s].misses # "job"

\* With no job left, every panel's glyph tells of its own connection's agent,
\* reconnects and archives included.
GlyphsSettle ==
    loop = "on" /\ EnableQuic /\ (\A j \in Ids : jobs[j] = NoJob) =>
        \A s \in Sides : panels[s].quic = QuicAvailable(panels[s].at.loc, remotes)

\* A sync, and a delete where it has to be confirmed, only starts from the
\* dialog that asked about just that.
ApprovedFirst ==
    [][\A j \in Ids :
          jobs[j].st = "none" /\ jobs'[j].st = "running"
          /\ (jobs'[j].task.op = "sync" \/ (ConfirmDelete /\ jobs'[j].task.op = "delete"))
            => /\ mode.is = "confirm" /\ mode.task.op = jobs'[j].task.op
               /\ mode.task.items = jobs'[j].task.items]_vars

\* The loop implements the contract with the user: its progress dialogs close in
\* the end too, but that of a download through an agent that was cancelled.
Session ==
    CASE loop = "quit" -> "over" [] loop = "failed" -> "lost"
      [] loop = "on" /\ mode.is = "browsing" -> "idle"
      [] loop = "on" /\ mode.is = "progress" -> "working"
      [] OTHER -> "asking"
Alive == \E j \in Ids \ background : jobs[j].st \in {"running", "done"}
Contract == INSTANCE SessionContract WITH session <- Session, alive <- Alive,
                                            unstoppable <- \E j \in Ids : Hangs(j)
ImplementsSession == Contract!ContractSpec

\* The first probe of a connection's agent is never made by the UI thread.
ProbeOffUiThread ==
    [][\A p \in Profiles : remotes[p] = "unprobed" /\ remotes'[p] \in Findings
          => \E j \in Ids : jobs[j].st = "running" /\ UNCHANGED <<mode, events>>]_vars

\* The files a panel shows are changed by jobs alone.
OnlyJobsChangeFiles == \A s \in Sides : panels[s].misses # "ui"
=============================================================================
