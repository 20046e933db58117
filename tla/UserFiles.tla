----------------------------- MODULE UserFiles -----------------------------
(***************************************************************************)
(* The two files pfnc keeps for its user.  config.toml is read when an     *)
(* instance starts and written back whole when it exits; ~/.ssh/known_hosts*)
(* is read whenever it connects and written back whole when a host is new. *)
(* Both are truncated first and neither is locked, while other instances,  *)
(* ssh and the user's editor work on them.  The directories of the panels, *)
(* which config.toml remembers as well, are left out.                      *)
(***************************************************************************)
EXTENDS Naturals, FiniteSets

CONSTANTS
    Instances,       \* the copies of pfnc
    Hosts,           \* hosts, and the ids of their profiles
    OldKey, NewKey,  \* what a host presents before and after it is set up anew
    NoKey, NoHost,
    MaxNewKeys,      \* bound: hosts that are set up anew
    Faults           \* may a process be killed, a write fail, the terminal go?

ASSUME KeysAssumption == OldKey # NewKey /\ NoKey \notin {OldKey, NewKey}
ASSUME MaxNewKeysAssumption == MaxNewKeys \in Nat
ASSUME HostsAssumption == NoHost \notin Hosts
ASSUME FaultsAssumption == Faults \in BOOLEAN

VARIABLES
    main,      \* each instance's main thread: "off", "on", "save", "write"
    job,       \* its connect job: "none", "dial", "add", "write", "auth", "done"
    target,    \*   and the host it connects to
    config,    \* App::config
    parsed,    \* did Config::load succeed?
    entries,   \* the KnownHosts of the connect job
    disk,      \* config.toml: "missing", "empty", "bad" or "whole", and its text
    known,     \* known_hosts, likewise, and its keys
    offered,   \* the key each host presents
    \* History.
    wish,      \* the settings the user has last written by hand
    saved,     \* the profiles that instances have saved at exit
    fresh,     \* instances that know config.toml as it is
    current,   \* instances that know known_hosts as it is
    accepted,  \* host keys a connection went ahead with and nobody removed since
    harm       \* what has befallen the two files

configFile == <<config, parsed, disk, wish, saved, fresh>>
hostsFile == <<entries, known, offered, current, accepted>>
vars == <<main, job, target, config, parsed, entries, disk, known, offered,
          wish, saved, fresh, current, accepted, harm>>

-----------------------------------------------------------------------------
Keys == {OldKey, NewKey}
ConfigHarms == {"overlap", "unparsed", "torn"}
HostsHarms == {"hosts overlap", "hosts torn"}
Default == [general |-> "default", profiles |-> {}]
NoHosts == [h \in Hosts |-> NoKey]

Init ==
    /\ main = [i \in Instances |-> "off"] /\ job = [i \in Instances |-> "none"]
    /\ target = [i \in Instances |-> NoHost]
    /\ config = [i \in Instances |-> Default] /\ parsed = [i \in Instances |-> TRUE]
    /\ entries = [i \in Instances |-> NoHosts]
    /\ disk = [state |-> "missing", text |-> Default] /\ known = [state |-> "missing", keys |-> NoHosts]
    /\ offered = [h \in Hosts |-> OldKey] /\ wish = "default" /\ saved = {}
    /\ fresh = {} /\ current = {} /\ accepted = {} /\ harm = {}

Blame(what, condition) == IF condition THEN {what} ELSE {}
Writing(phase) == {i \in Instances : phase[i] = "write"}

-----------------------------------------------------------------------------
(* config.toml                                                             *)

\* Mutant: a file that is there but sets only profiles.
Load_ProfilesOnly ==
    IF disk.state = "whole" THEN [Default EXCEPT !.profiles = disk.text.profiles] ELSE Default

\* Config::load_from.  An empty file is one that sets nothing.
Load == IF disk.state = "whole" THEN disk.text ELSE Default

\* A file that cannot be read, or parsed, makes main fall back to the defaults.
Start(i) ==
    /\ main[i] = "off" /\ main' = [main EXCEPT ![i] = "on"]
    /\ \E reads \in {TRUE, ~Faults \/ disk.state = "missing"} :
          /\ config' = [config EXCEPT ![i] = IF reads THEN Load ELSE Default]
          /\ parsed' = [parsed EXCEPT ![i] = reads /\ disk.state # "bad"]
    /\ fresh' = IF Writing(main) = {} THEN fresh \cup {i} ELSE fresh
    /\ UNCHANGED <<job, target, disk, wish, saved, hostsFile, harm>>

\* Quit comes from a panel, with no connect job; a lost terminal at any time.
Leave(i) ==
    /\ main[i] = "on" /\ (Faults \/ job[i] = "none")
    /\ main' = [main EXCEPT ![i] = "save"]
    /\ UNCHANGED <<job, target, configFile, hostsFile, harm>>

JobEnds(i) ==
    /\ job' = [job EXCEPT ![i] = "none"] /\ target' = [target EXCEPT ![i] = NoHost]
    /\ entries' = [entries EXCEPT ![i] = NoHosts] /\ current' = current \ {i}

\* The process ends; what its connect job was writing stays as it is.
End(i) ==
    /\ main' = [main EXCEPT ![i] = "off"] /\ JobEnds(i)
    /\ config' = [config EXCEPT ![i] = Default] /\ parsed' = [parsed EXCEPT ![i] = TRUE]
    /\ \E state \in (IF job[i] = "write" THEN {"whole", "bad"} ELSE {known.state}) :
          known' = [state |-> state, keys |-> IF job[i] = "write" THEN NoHosts ELSE known.keys]

\* Config::save: fs::write truncates the file, and main only logs a failure.
OpenSave(i) ==
    /\ main[i] = "save"
    /\ \/ /\ main' = [main EXCEPT ![i] = "write"]
          /\ disk' = [disk EXCEPT !.state = "empty"]
          /\ fresh' = fresh \cap {i}
          /\ harm' = harm \cup Blame("overlap", i \notin fresh) \cup Blame("unparsed", ~parsed[i])
          /\ UNCHANGED <<job, target, entries, config, parsed, known, current>>
       \/ /\ Faults /\ End(i)
          /\ harm' = harm \cup Blame("hosts torn", job[i] = "write")
          /\ fresh' = fresh \ {i} /\ UNCHANGED disk
    /\ UNCHANGED <<wish, saved, offered, accepted>>

\* ... and writes it, perhaps over what another instance is writing.
WriteSave(i) ==
    /\ main[i] = "write" /\ End(i)
    /\ \E state \in {"whole"} \cup Blame("bad", Writing(main) # {i}) :
          disk' = [state |-> state, text |-> config[i]]
    /\ saved' = saved \cup config[i].profiles /\ fresh' = {}
    /\ harm' = harm \cup Blame("overlap", i \notin fresh) \cup Blame("hosts torn", job[i] = "write")
    /\ UNCHANGED <<wish, offered, accepted>>

\* A process is killed, or the disk is full when it saves: what is left of the
\* file is a part of the text, which may parse.
Die(i) ==
    /\ Faults /\ main[i] # "off" /\ End(i)
    /\ IF main[i] = "write"
       THEN \E state \in {"empty", "bad", "whole"} : disk' = [state |-> state, text |-> Default]
       ELSE UNCHANGED disk
    /\ harm' = harm \cup Blame("torn", main[i] = "write") \cup Blame("hosts torn", job[i] = "write")
    /\ fresh' = IF main[i] = "write" THEN {} ELSE fresh \ {i}
    /\ UNCHANGED <<wish, saved, offered, accepted>>

\* The user edits the file, and the result may not parse until the next edit.
HandEdit ==
    /\ Writing(main) = {} /\ (wish = "default" \/ disk.state = "bad")
    /\ wish' = "edited" /\ fresh' = {}
    /\ \E state \in {"whole", "bad"} :
          disk' = [state |-> state, text |-> [disk.text EXCEPT !.general = "edited"]]
    /\ UNCHANGED <<main, job, target, config, parsed, saved, hostsFile, harm>>

-----------------------------------------------------------------------------
(* Connecting, and known_hosts.                                            *)

StartConnect(i, h) ==
    /\ main[i] = "on" /\ job[i] = "none"
    /\ job' = [job EXCEPT ![i] = "dial"] /\ target' = [target EXCEPT ![i] = h]
    /\ UNCHANGED <<main, configFile, hostsFile, harm>>

\* Mutant: the new host is all there is to write.
Read_Skipped == NoHosts

\* KnownHosts::read_file.
Read == IF known.state = "whole" THEN known.keys ELSE NoHosts

\* verify_host_key, up to known_hosts.add: a key that differs is refused, and
\* so is a file that cannot be read; the policy accepts every unknown host.
CheckHostKey(i) ==
    LET h == target[i]
        key == Read[h]
    IN /\ job[i] = "dial"
       /\ IF known.state = "bad" \/ key \notin {offered[h], NoKey}
          THEN JobEnds(i) /\ UNCHANGED accepted
          ELSE /\ job' = [job EXCEPT ![i] = IF key = NoKey THEN "add" ELSE "auth"]
               /\ entries' = IF key = NoKey THEN [entries EXCEPT ![i] = [Read EXCEPT ![h] = offered[h]]]
                              ELSE entries
               /\ accepted' = IF key = NoKey THEN accepted ELSE accepted \cup {<<h, key>>}
               /\ current' = IF key = NoKey /\ Writing(job) = {} THEN current \cup {i} ELSE current
               /\ UNCHANGED target
       /\ UNCHANGED <<main, configFile, known, offered, harm>>

\* known_hosts.write_file truncates the file, or fails.
OpenHosts(i) ==
    /\ job[i] = "add"
    /\ \/ /\ job' = [job EXCEPT ![i] = "write"]
          /\ known' = [known EXCEPT !.state = "empty"]
          /\ current' = current \cap {i}
          /\ harm' = harm \cup Blame("hosts overlap", i \notin current)
          /\ UNCHANGED <<target, entries>>
       \/ Faults /\ JobEnds(i) /\ UNCHANGED <<known, harm>>
    /\ UNCHANGED <<main, configFile, offered, accepted>>

\* ... and writes it; a failure leaves a part.
WriteHosts(i) ==
    /\ job[i] = "write"
    /\ \/ /\ job' = [job EXCEPT ![i] = "auth"]
          /\ \E state \in {"whole"} \cup Blame("bad", Writing(job) # {i}) :
                known' = [state |-> state, keys |-> entries[i]]
          /\ accepted' = accepted \cup {<<target[i], entries[i][target[i]]>>}
          /\ harm' = harm \cup Blame("hosts overlap", i \notin current)
          /\ entries' = [entries EXCEPT ![i] = NoHosts] /\ current' = {} /\ UNCHANGED target
       \/ /\ Faults /\ JobEnds(i)
          /\ \E state \in {"whole", "bad"} : known' = [state |-> state, keys |-> NoHosts]
          /\ harm' = harm \cup {"hosts torn"} /\ UNCHANGED accepted
    /\ UNCHANGED <<main, configFile, offered>>

\* Authentication, and the rest of SftpFs::connect.
Authenticate(i) ==
    /\ job[i] = "auth"
    /\ \/ JobEnds(i)
       \/ job' = [job EXCEPT ![i] = "done"] /\ UNCHANGED <<target, entries, current>>
    /\ UNCHANGED <<main, configFile, known, offered, accepted, harm>>

\* Finished: upsert_profile, in memory.
Connected(i) ==
    /\ main[i] = "on" /\ job[i] = "done" /\ JobEnds(i)
    /\ config' = [config EXCEPT ![i].profiles = @ \cup {target[i]}]
    /\ UNCHANGED <<main, parsed, disk, wish, saved, fresh, known, offered, accepted, harm>>

\* ssh connects to a host it does not know yet and appends a line.
SshAppends(h) ==
    /\ known.state \in {"missing", "whole"} /\ known.keys[h] = NoKey
    /\ known' = [state |-> "whole", keys |-> [known.keys EXCEPT ![h] = offered[h]]]
    /\ accepted' = accepted \cup {<<h, offered[h]>>} /\ current' = {}
    /\ UNCHANGED <<main, job, target, configFile, entries, offered, harm>>

\* A host is set up anew, and the user removes its key (ssh-keygen -R).
NewHostKey(h) ==
    /\ offered[h] = OldKey /\ Cardinality({g \in Hosts : offered[g] = NewKey}) < MaxNewKeys
    /\ offered' = [offered EXCEPT ![h] = NewKey]
    /\ UNCHANGED <<main, job, target, configFile, entries, known, current, accepted, harm>>
RemoveHost(h) ==
    /\ known.state = "whole" /\ known.keys[h] \notin {NoKey, offered[h]}
    /\ known' = [known EXCEPT !.keys[h] = NoKey]
    /\ accepted' = {a \in accepted : a[1] # h} /\ current' = {}
    /\ UNCHANGED <<main, job, target, configFile, entries, offered, harm>>

-----------------------------------------------------------------------------
Exit(i) == Leave(i) \/ OpenSave(i) \/ WriteSave(i)
Connect(i) ==
    \/ \E h \in Hosts : StartConnect(i, h)
    \/ CheckHostKey(i) \/ OpenHosts(i) \/ WriteHosts(i) \/ Authenticate(i) \/ Connected(i)

Next ==
    \/ \E i \in Instances : Start(i) \/ Exit(i) \/ Die(i) \/ Connect(i)
    \/ \E h \in Hosts : SshAppends(h) \/ NewHostKey(h) \/ RemoveHost(h)
    \/ HandEdit

Spec == Init /\ [][Next]_vars

-----------------------------------------------------------------------------
(* Properties.                                                             *)

Configs == [general : {"default", "edited"}, profiles : SUBSET Hosts]
Maps == [Hosts -> Keys \cup {NoKey}]
States == {"missing", "empty", "bad", "whole"}
MainPhases == {"off", "on", "save", "write"}
JobPhases == {"none", "dial", "add", "write", "auth", "done"}

ConfigTyped ==
    /\ main \in [Instances -> MainPhases]
    /\ config \in [Instances -> Configs] /\ parsed \in [Instances -> BOOLEAN]
    /\ disk \in [state : States, text : Configs]
    /\ wish \in {"default", "edited"} /\ saved \in SUBSET Hosts /\ fresh \in SUBSET Instances

HostsTyped ==
    /\ job \in [Instances -> JobPhases] /\ target \in [Instances -> Hosts \cup {NoHost}]
    /\ entries \in [Instances -> Maps] /\ known \in [state : States, keys : Maps]
    /\ offered \in [Hosts -> Keys] /\ current \in SUBSET Instances
    /\ accepted \in SUBSET (Hosts \X Keys)

\* Every variable holds a value of its kind.
TypeOK == ConfigTyped /\ HostsTyped /\ harm \in SUBSET (ConfigHarms \cup HostsHarms)

\* The settings the user has written by hand and the profiles of all earlier
\* sessions stay in config.toml, whatever instances start, connect and exit,
\* unless one of them saved what it had read before a later change, had failed
\* to parse the file, or was killed while it saved.
ConfigKept ==
    harm \cap ConfigHarms = {} /\ disk.state # "empty" =>
        disk.text.general = wish /\ saved \subseteq disk.text.profiles

\* The key a connection went ahead with is the one known_hosts has, and so the
\* one every later connection is held to, until the user removes it; unless two
\* writers met at the file or one was cut short.
KeysKept ==
    harm \cap HostsHarms = {} /\ known.state # "empty" =>
        \A a \in accepted : known.keys[a[1]] = a[2]

\* "Malformed existing config is an error rather than silently discarding the
\* user's settings."
BadConfigKept == harm \subseteq HostsHarms \cup {"unparsed"} /\ disk.state # "empty" => disk.text.general = wish
=============================================================================
