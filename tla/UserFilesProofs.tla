-------------------------- MODULE UserFilesProofs --------------------------
(***************************************************************************)
(* What holds of the two files for any number of instances and hosts.      *)
(***************************************************************************)
EXTENDS UserFiles, TLAPS

\* A connect job has a host, and the entries it writes have the host's key.
JobsHaveHosts ==
    \A i \in Instances :
        /\ job[i] # "none" => target[i] \in Hosts
        /\ job[i] \in {"add", "write"} => entries[i][target[i]] \in Keys

\* While an instance writes config.toml, it is the only one that knows what the
\* file said; and one that knows the file has all of it to write.
ConfigInv ==
    harm \cap ConfigHarms = {} =>
        /\ disk.state # "empty" => disk.text.general = wish /\ saved \subseteq disk.text.profiles
        /\ disk.state = "missing" => disk.text = Default
        /\ disk.state = "empty" => Writing(main) # {}
        /\ \A i \in fresh :
              /\ main[i] # "off"
              /\ parsed[i] => config[i].general = wish /\ saved \subseteq config[i].profiles
        /\ \A i \in Instances : main[i] = "write" => disk.state = "empty" /\ fresh = {i} /\ parsed[i]

\* The same for known_hosts, of which a connect job knows all until it changes.
HostsInv ==
    harm \cap HostsHarms = {} =>
        /\ known.state # "bad"
        /\ known.state = "missing" => known.keys = NoHosts
        /\ known.state # "empty" => \A a \in accepted : known.keys[a[1]] = a[2]
        /\ known.state = "empty" => Writing(job) # {}
        /\ \A i \in Instances : job[i] = "write" => known.state = "empty" /\ current = {i}
        /\ \A i \in current :
              /\ job[i] \in {"add", "write"}
              /\ \A a \in accepted : entries[i][a[1]] = a[2]
              /\ known.state # "empty" =>
                    \A h \in Hosts : known.keys[h] \in {NoKey, entries[i][h]}

Inv == TypeOK /\ JobsHaveHosts /\ ConfigInv /\ HostsInv

LEMMA DefaultTyped == Default \in Configs /\ NoHosts \in Maps
BY DEF Default, NoHosts, Configs, Maps

LEMMA ReadTyped ==
    /\ ConfigTyped => Load \in Configs
    /\ HostsTyped => Read \in Maps
BY DefaultTyped DEF ConfigTyped, HostsTyped, Load, Read

LEMMA BlameTyped == \A what, condition : Blame(what, condition) \subseteq {what}
BY DEF Blame

LEMMA InvInit == Init => Inv
<1> SUFFICES ASSUME Init PROVE Inv
  OBVIOUS
<1>1. ConfigTyped
  <2>1. parsed \in [Instances -> BOOLEAN]
    BY DEF Init
  <2> QED BY <2>1, DefaultTyped DEF Init, ConfigTyped, MainPhases, States
<1>2. HostsTyped
  BY DefaultTyped DEF Init, HostsTyped, JobPhases, States, Keys
<1>3. ConfigInv
  BY DEF Init, ConfigInv, Default
<1>4. HostsInv /\ JobsHaveHosts
  BY DEF Init, HostsInv, JobsHaveHosts, NoHosts
<1> QED BY <1>1, <1>2, <1>3, <1>4 DEF Init, Inv, TypeOK

-----------------------------------------------------------------------------
(* Types.                                                                  *)

LEMMA JobEndsTyped ==
    ASSUME HostsTyped, JobsHaveHosts, NEW i \in Instances, JobEnds(i)
    PROVE  /\ job' \in [Instances -> JobPhases] /\ target' \in [Instances -> Hosts \cup {NoHost}]
           /\ entries' \in [Instances -> Maps] /\ current' \in SUBSET Instances
           /\ JobsHaveHosts'
<1>1. "none" \in JobPhases
  BY DEF JobPhases
<1>2. entries' \in [Instances -> Maps]
  BY DefaultTyped DEF HostsTyped, JobEnds
<1>3. job' \in [Instances -> JobPhases] /\ target' \in [Instances -> Hosts \cup {NoHost}]
  BY <1>1 DEF HostsTyped, JobEnds
<1>4. current' \in SUBSET Instances
  BY DEF HostsTyped, JobEnds
<1>5. JobsHaveHosts'
  BY DEF HostsTyped, JobEnds, JobsHaveHosts
<1> QED BY <1>2, <1>3, <1>4, <1>5

LEMMA EndTyped ==
    ASSUME TypeOK, JobsHaveHosts, NEW i \in Instances, End(i), UNCHANGED <<offered, accepted>>
    PROVE  /\ main' \in [Instances -> MainPhases] /\ config' \in [Instances -> Configs]
           /\ parsed' \in [Instances -> BOOLEAN] /\ HostsTyped' /\ JobsHaveHosts'
<1>1. main' \in [Instances -> MainPhases]
  BY DEF TypeOK, ConfigTyped, MainPhases, End
<1>2. config' \in [Instances -> Configs]
  BY DefaultTyped DEF TypeOK, ConfigTyped, End
<1>3. parsed' \in [Instances -> BOOLEAN]
  BY DEF TypeOK, ConfigTyped, End
<1>4. known' \in [state : States, keys : Maps]
  BY DefaultTyped DEF TypeOK, HostsTyped, End, States
<1>5. JobEnds(i) /\ HostsTyped
  BY DEF End, TypeOK
<1> QED BY <1>1, <1>2, <1>3, <1>4, <1>5, JobEndsTyped DEF HostsTyped

\* Steps that leave known_hosts and the connect jobs alone.
HostsSame == UNCHANGED <<job, target, hostsFile>> /\ harm \cap HostsHarms = harm' \cap HostsHarms
\* Steps that leave config.toml and what instances know of it alone.
ConfigSame == UNCHANGED <<main, configFile>> /\ harm \cap ConfigHarms = harm' \cap ConfigHarms

LEMMA HostsSameKeeps ==
    ASSUME HostsTyped, JobsHaveHosts, HostsInv, HostsSame
    PROVE  HostsTyped' /\ JobsHaveHosts' /\ HostsInv'
<1>1. HostsTyped' /\ JobsHaveHosts'
  BY DEF HostsSame, hostsFile, HostsTyped, JobsHaveHosts
<1>2. HostsInv'
  BY DEF HostsSame, hostsFile, HostsInv, Writing
<1> QED BY <1>1, <1>2

LEMMA ConfigSameKeeps ==
    ASSUME ConfigTyped, ConfigInv, ConfigSame
    PROVE  ConfigTyped' /\ ConfigInv'
<1>1. ConfigTyped'
  BY DEF ConfigSame, configFile, ConfigTyped
<1>2. ConfigInv'
  BY Zenon DEF ConfigSame, configFile, ConfigInv, Writing
<1> QED BY <1>1, <1>2

LEMMA HarmNext == TypeOK /\ Next => harm' \in SUBSET (ConfigHarms \cup HostsHarms) /\ harm \subseteq harm'
<1> SUFFICES ASSUME TypeOK, Next
             PROVE  harm' \in SUBSET (ConfigHarms \cup HostsHarms) /\ harm \subseteq harm'
  OBVIOUS
<1> USE BlameTyped DEF TypeOK, ConfigHarms, HostsHarms
<1>1. ASSUME NEW i \in Instances, OpenSave(i) \/ WriteSave(i) \/ Die(i)
      PROVE  harm' \in SUBSET (ConfigHarms \cup HostsHarms) /\ harm \subseteq harm'
  BY <1>1 DEF OpenSave, WriteSave, Die
<1>2. ASSUME NEW i \in Instances, OpenHosts(i) \/ WriteHosts(i)
      PROVE  harm' \in SUBSET (ConfigHarms \cup HostsHarms) /\ harm \subseteq harm'
  BY <1>2 DEF OpenHosts, WriteHosts
<1>3. ASSUME NEW i \in Instances, Start(i) \/ Leave(i) \/ Authenticate(i) \/ Connected(i) \/ CheckHostKey(i)
      PROVE  harm' = harm
  BY <1>3 DEF Start, Leave, Authenticate, Connected, CheckHostKey
<1>4. ASSUME NEW i \in Instances, NEW h \in Hosts, StartConnect(i, h)
      PROVE  harm' = harm
  BY <1>4 DEF StartConnect
<1>5. ASSUME NEW h \in Hosts, SshAppends(h) \/ NewHostKey(h) \/ RemoveHost(h)
      PROVE  harm' = harm
  BY <1>5 DEF SshAppends, NewHostKey, RemoveHost
<1>6. HandEdit => harm' = harm
  BY DEF HandEdit
<1> QED BY <1>1, <1>2, <1>3, <1>4, <1>5, <1>6 DEF Next, Exit, Connect

-----------------------------------------------------------------------------
(* known_hosts.                                                            *)

\* A connect job that ends before it writes, or with a write that is cut short.
LEMMA EndKeepsHosts ==
    ASSUME TypeOK, JobsHaveHosts, HostsInv, NEW i \in Instances, JobEnds(i), accepted' = accepted,
           harm \subseteq harm', job[i] = "write" => "hosts torn" \in harm',
           job[i] # "write" => known' = known
    PROVE  HostsInv'
<1> SUFFICES ASSUME harm' \cap HostsHarms = {} PROVE HostsInv'
  BY DEF HostsInv
<1>1. harm \cap HostsHarms = {} /\ job[i] # "write" /\ known' = known
  BY DEF HostsHarms
<1>2. Writing(job') = Writing(job)
  BY <1>1 DEF JobEnds, Writing, TypeOK, HostsTyped
<1>3. \A j \in Instances : job'[j] = "write" => known'.state = "empty" /\ current' = {j}
  BY <1>1 DEF JobEnds, HostsInv, TypeOK, HostsTyped
<1>4. \A j \in current' : job'[j] = job[j] /\ entries'[j] = entries[j] /\ j \in current
  BY DEF JobEnds, TypeOK, HostsTyped
<1>5. /\ known'.state # "bad" /\ (known'.state = "missing" => known'.keys = NoHosts)
      /\ known'.state # "empty" => \A a \in accepted' : known'.keys[a[1]] = a[2]
      /\ known'.state = "empty" => Writing(job') # {}
  BY <1>1, <1>2 DEF HostsInv
<1>6. ASSUME NEW j \in current'
      PROVE  /\ job'[j] \in {"add", "write"} /\ \A a \in accepted' : entries'[j][a[1]] = a[2]
             /\ known'.state # "empty" => \A h \in Hosts : known'.keys[h] \in {NoKey, entries'[j][h]}
  <2>1. /\ job[j] \in {"add", "write"} /\ \A a \in accepted : entries[j][a[1]] = a[2]
        /\ known.state # "empty" => \A h \in Hosts : known.keys[h] \in {NoKey, entries[j][h]}
    BY <1>1, <1>4 DEF HostsInv
  <2> QED BY <1>1, <1>4, <2>1
<1> QED BY <1>3, <1>5, <1>6 DEF HostsInv

LEMMA CheckHostKeyKeeps ==
    ASSUME Inv, NEW i \in Instances, CheckHostKey(i)
    PROVE  HostsTyped' /\ JobsHaveHosts' /\ HostsInv'
<1> DEFINE h == target[i]
           key == Read[h]
<1>1. HostsTyped /\ JobsHaveHosts /\ HostsInv /\ TypeOK
  BY DEF Inv, TypeOK
<1>2. job[i] = "dial" /\ UNCHANGED <<known, offered, harm>>
  BY DEF CheckHostKey
<1>3. h \in Hosts /\ Read \in Maps /\ offered[h] \in Keys
  BY <1>1, <1>2, ReadTyped DEF JobsHaveHosts, HostsTyped
<1>4. CASE JobEnds(i) /\ UNCHANGED accepted
  <2>1. HostsTyped' /\ JobsHaveHosts'
    BY <1>1, <1>2, <1>4, JobEndsTyped DEF HostsTyped
  <2> QED BY <2>1, <1>1, <1>2, <1>4, EndKeepsHosts
<1>5. CASE /\ key = NoKey /\ job' = [job EXCEPT ![i] = "add"] /\ UNCHANGED <<target, accepted>>
           /\ entries' = [entries EXCEPT ![i] = [Read EXCEPT ![h] = offered[h]]]
           /\ current' = IF Writing(job) = {} THEN current \cup {i} ELSE current
  <2> DEFINE new == [Read EXCEPT ![h] = offered[h]]
  <2>1. new \in Maps /\ new[h] = offered[h] /\ \A g \in Hosts \ {h} : new[g] = Read[g]
    BY <1>3 DEF Maps
  <2>2. entries' \in [Instances -> Maps] /\ entries'[i] = new
        /\ \A j \in Instances \ {i} : entries'[j] = entries[j] /\ job'[j] = job[j]
    BY <1>1, <1>5, <2>1 DEF HostsTyped
  <2>3. job' \in [Instances -> JobPhases] /\ job'[i] = "add" /\ current' \in SUBSET Instances
    BY <1>1, <1>5 DEF HostsTyped, JobPhases
  <2>4. HostsTyped'
    BY <1>1, <1>2, <1>5, <2>2, <2>3 DEF HostsTyped
  <2>5. JobsHaveHosts'
    BY <1>1, <1>3, <1>5, <2>1, <2>2, <2>3 DEF JobsHaveHosts
  <2>6. ASSUME harm' \cap HostsHarms = {} PROVE HostsInv'
    <3>1. harm \cap HostsHarms = {} /\ i \notin current
      BY <1>1, <1>2, <2>6 DEF HostsInv
    <3>2. Writing(job') = Writing(job)
      BY <1>2, <2>2, <2>3 DEF Writing
    <3>3. CASE Writing(job) = {}
      <4>1. known.state \in {"missing", "whole"} /\ Read = known.keys
        BY <1>1, <3>1, <3>3, ReadTyped DEF HostsInv, HostsTyped, States, Read
      <4>2. \A a \in accepted : known.keys[a[1]] = a[2] /\ a[1] \in Hosts /\ a[2] \in Keys
        BY <1>1, <3>1, <4>1 DEF HostsInv, HostsTyped
      <4>3. \A a \in accepted : a[1] # h
        BY <4>1, <4>2, <1>5, KeysAssumption DEF Keys
      <4>4. \A a \in accepted : new[a[1]] = a[2]
        BY <4>1, <4>2, <4>3, <2>1
      <4>5. \A g \in Hosts : known.keys[g] \in {NoKey, new[g]}
        BY <4>1, <2>1, <1>5
      <4>6. \A j \in Instances : job'[j] # "write"
        BY <3>2, <3>3 DEF Writing
      <4>7. \A j \in current' : j = i \/ j \in current \ {i}
        BY <1>5
      <4>8. \A j \in current \ {i} : job'[j] = job[j] /\ entries'[j] = entries[j]
        BY <1>1, <2>2 DEF HostsTyped
      <4> QED BY <1>1, <1>2, <1>5, <2>2, <2>3, <3>1, <3>2, <4>4, <4>5, <4>6, <4>7, <4>8
              DEF HostsInv, Writing
    <3>4. CASE Writing(job) # {}
      <4>1. current' = current
        BY <1>5, <3>4
      <4>2. \A j \in current : job'[j] = job[j] /\ entries'[j] = entries[j]
        BY <1>1, <2>2, <3>1 DEF HostsTyped
      <4>3. \A j \in Instances : job'[j] = "write" => job[j] = "write"
        BY <2>2, <2>3
      <4> QED BY <1>1, <1>2, <1>5, <3>1, <3>2, <4>1, <4>2, <4>3 DEF HostsInv, Writing
    <3> QED BY <3>3, <3>4
  <2> QED BY <2>4, <2>5, <2>6 DEF HostsInv
<1>6. CASE /\ key = offered[h] /\ key # NoKey /\ job' = [job EXCEPT ![i] = "auth"]
           /\ UNCHANGED <<target, entries, current>> /\ accepted' = accepted \cup {<<h, key>>}
  <2>1. job' \in [Instances -> JobPhases] /\ accepted' \in SUBSET (Hosts \X Keys)
    BY <1>1, <1>3, <1>6 DEF HostsTyped, JobPhases
  <2>2. HostsTyped'
    BY <1>1, <1>2, <1>6, <2>1 DEF HostsTyped
  <2>3. \A j \in Instances : job'[j] = job[j] \/ job'[j] = "auth"
    BY <1>1, <1>6 DEF HostsTyped
  <2>4. JobsHaveHosts'
    BY <1>1, <1>2, <1>3, <1>6, <2>3 DEF JobsHaveHosts, HostsTyped
  <2>5. ASSUME harm' \cap HostsHarms = {} PROVE HostsInv'
    <3>1. harm \cap HostsHarms = {} /\ i \notin current
      BY <1>1, <1>2, <2>5 DEF HostsInv
    <3>2. known.state = "whole" /\ known.keys[h] = key
      BY <1>3, <1>6 DEF Read, NoHosts
    <3>3. \A j \in current : job'[j] = job[j] /\ j \in Instances
      BY <1>1, <1>6, <3>1 DEF HostsTyped
    <3>4. \A j \in current : entries[j][h] = key
      BY <1>1, <1>3, <1>6, <3>1, <3>2 DEF HostsInv
    <3>5. \A a \in accepted' : a \in accepted \/ (a[1] = h /\ a[2] = key)
      BY <1>6
    <3>6. Writing(job') = Writing(job)
      BY <1>1, <1>2, <1>6 DEF Writing, HostsTyped
    <3> QED BY <1>1, <1>2, <1>6, <2>3, <3>1, <3>2, <3>3, <3>4, <3>5, <3>6 DEF HostsInv, Writing
  <2> QED BY <2>2, <2>4, <2>5 DEF HostsInv
<1> QED BY <1>4, <1>5, <1>6 DEF CheckHostKey

LEMMA OpenHostsKeeps ==
    ASSUME Inv, NEW i \in Instances, OpenHosts(i)
    PROVE  HostsTyped' /\ JobsHaveHosts' /\ HostsInv'
<1>1. HostsTyped /\ JobsHaveHosts /\ HostsInv /\ TypeOK
  BY DEF Inv, TypeOK
<1>2. job[i] = "add" /\ UNCHANGED <<offered, accepted>>
  BY DEF OpenHosts
<1>3. CASE JobEnds(i) /\ UNCHANGED <<known, harm>>
  <2>1. HostsTyped' /\ JobsHaveHosts'
    BY <1>1, <1>2, <1>3, JobEndsTyped DEF HostsTyped
  <2> QED BY <2>1, <1>1, <1>2, <1>3, EndKeepsHosts
<1>4. CASE /\ job' = [job EXCEPT ![i] = "write"] /\ known' = [known EXCEPT !.state = "empty"]
           /\ current' = current \cap {i} /\ harm' = harm \cup Blame("hosts overlap", i \notin current)
           /\ UNCHANGED <<target, entries>>
  <2>1. known' \in [state : States, keys : Maps] /\ known'.state = "empty"
    BY <1>1, <1>4 DEF HostsTyped, States
  <2>2. job' \in [Instances -> JobPhases] /\ job'[i] = "write"
        /\ \A j \in Instances \ {i} : job'[j] = job[j]
    BY <1>1, <1>4 DEF HostsTyped, JobPhases
  <2>3. HostsTyped'
    BY <1>1, <1>2, <1>4, <2>1, <2>2 DEF HostsTyped
  <2>4. JobsHaveHosts'
    BY <1>1, <1>2, <1>4, <2>2 DEF JobsHaveHosts
  <2>5. ASSUME harm' \cap HostsHarms = {} PROVE HostsInv'
    <3>1. harm \cap HostsHarms = {} /\ i \in current
      BY <1>4, <2>5 DEF Blame, HostsHarms
    <3>2. current' = {i}
      BY <1>4, <3>1
    <3>3. \A j \in Instances : job'[j] = "write" => j = i
      BY <1>1, <1>2, <2>2, <3>1 DEF HostsInv
    <3>4. i \in Writing(job')
      BY <2>2 DEF Writing
    <3>5. \A a \in accepted : entries[i][a[1]] = a[2]
      BY <1>1, <3>1 DEF HostsInv
    <3> QED BY <1>2, <1>4, <2>1, <2>2, <3>2, <3>3, <3>4, <3>5 DEF HostsInv, Writing
  <2> QED BY <2>3, <2>4, <2>5 DEF HostsInv
<1> QED BY <1>3, <1>4 DEF OpenHosts

LEMMA WriteHostsKeeps ==
    ASSUME Inv, NEW i \in Instances, WriteHosts(i)
    PROVE  HostsTyped' /\ JobsHaveHosts' /\ HostsInv'
<1>1. HostsTyped /\ JobsHaveHosts /\ HostsInv /\ TypeOK
  BY DEF Inv, TypeOK
<1>2. job[i] = "write" /\ UNCHANGED offered
  BY DEF WriteHosts
<1>3. CASE /\ JobEnds(i) /\ \E state \in {"whole", "bad"} : known' = [state |-> state, keys |-> NoHosts]
           /\ harm' = harm \cup {"hosts torn"} /\ UNCHANGED accepted
  <2>1. known' \in [state : States, keys : Maps]
    <3>1. PICK state \in {"whole", "bad"} : known' = [state |-> state, keys |-> NoHosts]
      BY <1>3
    <3>2. state \in States
      BY <3>1 DEF States
    <3> QED BY <3>1, <3>2, DefaultTyped
  <2>2. HostsTyped' /\ JobsHaveHosts'
    BY <1>1, <1>2, <1>3, <2>1, JobEndsTyped DEF HostsTyped
  <2> QED BY <2>2, <1>1, <1>2, <1>3, EndKeepsHosts
<1>4. CASE /\ job' = [job EXCEPT ![i] = "auth"]
           /\ \E state \in {"whole"} \cup Blame("bad", Writing(job) # {i}) :
                 known' = [state |-> state, keys |-> entries[i]]
           /\ accepted' = accepted \cup {<<target[i], entries[i][target[i]]>>}
           /\ harm' = harm \cup Blame("hosts overlap", i \notin current)
           /\ entries' = [entries EXCEPT ![i] = NoHosts] /\ current' = {} /\ UNCHANGED target
  <2> DEFINE h == target[i]
             key == entries[i][h]
  <2>1. h \in Hosts /\ key \in Keys /\ entries[i] \in Maps
    BY <1>1, <1>2 DEF JobsHaveHosts, HostsTyped
  <2>2. known' \in [state : States, keys : Maps] /\ known'.keys = entries[i]
        /\ known'.state \in {"whole"} \cup Blame("bad", Writing(job) # {i})
    <3>1. PICK state \in {"whole"} \cup Blame("bad", Writing(job) # {i}) :
              known' = [state |-> state, keys |-> entries[i]]
      BY <1>4
    <3>2. state \in States
      BY <3>1, BlameTyped DEF States
    <3> QED BY <3>1, <3>2, <2>1
  <2>3. job' \in [Instances -> JobPhases] /\ job'[i] = "auth"
        /\ \A j \in Instances \ {i} : job'[j] = job[j]
    BY <1>1, <1>4 DEF HostsTyped, JobPhases
  <2>4. entries' \in [Instances -> Maps] /\ \A j \in Instances \ {i} : entries'[j] = entries[j]
    BY <1>1, <1>4, DefaultTyped DEF HostsTyped
  <2>5. accepted' \in SUBSET (Hosts \X Keys)
    <3>1. <<h, key>> \in Hosts \X Keys
      BY <2>1
    <3>2. accepted' = accepted \cup {<<h, key>>}
      BY <1>4
    <3> QED BY <1>1, <3>1, <3>2 DEF HostsTyped
  <2>6. HostsTyped'
    BY <1>1, <1>2, <1>4, <2>2, <2>3, <2>4, <2>5 DEF HostsTyped
  <2>7. JobsHaveHosts'
    BY <1>1, <1>4, <2>1, <2>3, <2>4 DEF JobsHaveHosts
  <2>8. ASSUME harm' \cap HostsHarms = {} PROVE HostsInv'
    <3>1. harm \cap HostsHarms = {} /\ i \in current
      BY <1>4, <2>8 DEF Blame, HostsHarms
    <3>2. \A j \in Instances : job[j] = "write" => j = i
      BY <1>1, <1>2, <3>1 DEF HostsInv
    <3>3. Writing(job) = {i}
      BY <1>2, <3>2 DEF Writing
    <3>4. known'.state = "whole"
      BY <2>2, <3>3 DEF Blame
    <3>5. \A j \in Instances : job'[j] # "write"
      BY <2>3, <3>2
    <3>6. \A a \in accepted' : entries[i][a[1]] = a[2]
      <4>1. accepted' = accepted \cup {<<h, key>>}
        BY <1>4
      <4>2. \A a \in accepted : entries[i][a[1]] = a[2]
        BY <1>1, <3>1 DEF HostsInv
      <4>3. ASSUME NEW a \in accepted', a \notin accepted PROVE a[1] = h /\ a[2] = key
        BY <4>1, <4>3
      <4> QED BY <4>2, <4>3
    <3> QED BY <1>4, <2>2, <3>4, <3>5, <3>6 DEF HostsInv
  <2> QED BY <2>6, <2>7, <2>8 DEF HostsInv
<1> QED BY <1>3, <1>4 DEF WriteHosts

\* The other steps of a connect job.
LEMMA OtherJobSteps ==
    ASSUME Inv, NEW i \in Instances, NEW h \in Hosts,
           StartConnect(i, h) \/ Authenticate(i) \/ Connected(i)
    PROVE  HostsTyped' /\ JobsHaveHosts' /\ HostsInv'
<1>1. HostsTyped /\ JobsHaveHosts /\ HostsInv /\ TypeOK
  BY DEF Inv, TypeOK
<1>2. CASE StartConnect(i, h)
  <2>1. job[i] = "none" /\ harm' = harm
        /\ UNCHANGED <<entries, known, offered, current, accepted>>
    BY <1>2 DEF StartConnect, hostsFile
  <2>2. job' \in [Instances -> JobPhases] /\ target' \in [Instances -> Hosts \cup {NoHost}]
        /\ job'[i] = "dial" /\ target'[i] = h
        /\ \A j \in Instances \ {i} : job'[j] = job[j] /\ target'[j] = target[j]
    BY <1>1, <1>2 DEF StartConnect, HostsTyped, JobPhases
  <2>3. HostsTyped' /\ JobsHaveHosts'
    BY <1>1, <2>1, <2>2 DEF HostsTyped, JobsHaveHosts
  <2>4. Writing(job') = Writing(job)
    BY <2>1, <2>2 DEF Writing
  <2>5. ASSUME harm' \cap HostsHarms = {} PROVE HostsInv'
    <3>1. i \notin current /\ harm \cap HostsHarms = {}
      BY <1>1, <2>1, <2>5 DEF HostsInv
    <3>2. \A j \in current : job'[j] = job[j] /\ j \in Instances
      BY <1>1, <2>2, <3>1 DEF HostsTyped
    <3>3. \A j \in Instances : job'[j] = "write" => job[j] = "write"
      BY <2>2
    <3> QED BY <1>1, <2>1, <2>4, <3>1, <3>2, <3>3 DEF HostsInv
  <2> QED BY <2>3, <2>5 DEF HostsInv
<1>3. CASE Authenticate(i)
  <2>1. job[i] = "auth" /\ UNCHANGED <<known, offered, accepted, harm>>
    BY <1>3 DEF Authenticate
  <2>2. CASE JobEnds(i)
    BY <1>1, <2>1, <2>2, JobEndsTyped, EndKeepsHosts DEF HostsTyped
  <2>3. CASE job' = [job EXCEPT ![i] = "done"] /\ UNCHANGED <<target, entries, current>>
    <3>1. job' \in [Instances -> JobPhases] /\ job'[i] = "done"
          /\ \A j \in Instances \ {i} : job'[j] = job[j]
      BY <1>1, <2>3 DEF HostsTyped, JobPhases
    <3>2. HostsTyped' /\ JobsHaveHosts'
      BY <1>1, <2>1, <2>3, <3>1 DEF HostsTyped, JobsHaveHosts
    <3>3. Writing(job') = Writing(job)
      BY <2>1, <3>1 DEF Writing
    <3>4. ASSUME harm' \cap HostsHarms = {} PROVE HostsInv'
      <4>1. i \notin current /\ harm \cap HostsHarms = {}
        BY <1>1, <2>1, <3>4 DEF HostsInv
      <4>2. \A j \in current : job'[j] = job[j] /\ j \in Instances
        BY <1>1, <3>1, <4>1 DEF HostsTyped
      <4>3. \A j \in Instances : job'[j] = "write" => job[j] = "write"
        BY <3>1
      <4> QED BY <1>1, <2>1, <2>3, <3>3, <4>1, <4>2, <4>3 DEF HostsInv
    <3> QED BY <3>2, <3>4 DEF HostsInv
  <2> QED BY <1>3, <2>2, <2>3 DEF Authenticate
<1>4. CASE Connected(i)
  <2>1. job[i] = "done" /\ JobEnds(i) /\ UNCHANGED <<known, offered, accepted, harm>>
    BY <1>4 DEF Connected
  <2> QED BY <1>1, <2>1, JobEndsTyped, EndKeepsHosts DEF HostsTyped
<1> QED BY <1>2, <1>3, <1>4

\* What ssh, its user and the hosts do.
LEMMA HostSteps ==
    ASSUME Inv, NEW h \in Hosts, SshAppends(h) \/ NewHostKey(h) \/ RemoveHost(h)
    PROVE  HostsTyped' /\ JobsHaveHosts' /\ HostsInv'
<1>1. HostsTyped /\ JobsHaveHosts /\ HostsInv /\ TypeOK
  BY DEF Inv, TypeOK
<1>2. CASE SshAppends(h)
  <2>1. /\ UNCHANGED <<job, target, entries, offered, harm>> /\ current' = {}
        /\ known.state \in {"missing", "whole"} /\ known.keys[h] = NoKey
        /\ known' = [state |-> "whole", keys |-> [known.keys EXCEPT ![h] = offered[h]]]
        /\ accepted' = accepted \cup {<<h, offered[h]>>}
    BY <1>2 DEF SshAppends
  <2>2. /\ known'.keys \in Maps /\ known'.keys[h] = offered[h] /\ offered[h] \in Keys
        /\ known'.state = "whole" /\ \A g \in Hosts \ {h} : known'.keys[g] = known.keys[g]
    BY <1>1, <2>1 DEF HostsTyped, Maps
  <2>3. known' \in [state : States, keys : Maps]
    BY <2>1, <2>2 DEF States
  <2>4. accepted' \in SUBSET (Hosts \X Keys)
    BY <1>1, <2>1, <2>2 DEF HostsTyped
  <2>5. HostsTyped' /\ JobsHaveHosts'
    BY <1>1, <2>1, <2>3, <2>4 DEF HostsTyped, JobsHaveHosts
  <2>6. ASSUME harm' \cap HostsHarms = {} PROVE HostsInv'
    <3>1. harm \cap HostsHarms = {}
      BY <2>1, <2>6
    <3>2. \A a \in accepted : known.keys[a[1]] = a[2] /\ a[1] \in Hosts /\ a[2] \in Keys
      BY <1>1, <2>1, <3>1 DEF HostsInv, HostsTyped
    <3>3. \A a \in accepted : a[1] # h
      BY <2>1, <3>2, KeysAssumption DEF Keys
    <3>4. \A a \in accepted : known'.keys[a[1]] = a[2]
      BY <2>2, <3>2, <3>3
    <3>5. ASSUME NEW a \in accepted', a \notin accepted PROVE a[1] = h /\ a[2] = offered[h]
      BY <2>1, <3>5
    <3>6. \A a \in accepted' : known'.keys[a[1]] = a[2]
      BY <2>2, <3>4, <3>5
    <3>7. \A j \in Instances : job[j] # "write"
      BY <1>1, <2>1, <3>1 DEF HostsInv
    <3> QED BY <2>1, <2>2, <3>6, <3>7 DEF HostsInv
  <2> QED BY <2>5, <2>6 DEF HostsInv
<1>3. CASE NewHostKey(h)
  <2>1. offered' \in [Hosts -> Keys] /\ UNCHANGED <<job, target, entries, known, current, accepted, harm>>
    BY <1>1, <1>3 DEF NewHostKey, HostsTyped, Keys
  <2>2. HostsTyped' /\ JobsHaveHosts'
    BY <1>1, <2>1 DEF HostsTyped, JobsHaveHosts
  <2> QED BY <1>1, <2>1, <2>2 DEF HostsInv, Writing
<1>4. CASE RemoveHost(h)
  <2>1. /\ UNCHANGED <<job, target, entries, offered, harm>> /\ current' = {}
        /\ known.state = "whole" /\ known' = [known EXCEPT !.keys[h] = NoKey]
        /\ accepted' = {a \in accepted : a[1] # h}
    BY <1>4 DEF RemoveHost
  <2>2. /\ known'.keys \in Maps /\ known'.state = "whole" /\ known' \in [state : States, keys : Maps]
        /\ \A g \in Hosts \ {h} : known'.keys[g] = known.keys[g]
    BY <1>1, <2>1 DEF HostsTyped, Maps
  <2>3. HostsTyped' /\ JobsHaveHosts'
    BY <1>1, <2>1, <2>2 DEF HostsTyped, JobsHaveHosts
  <2>4. ASSUME harm' \cap HostsHarms = {} PROVE HostsInv'
    <3>1. harm \cap HostsHarms = {}
      BY <2>1, <2>4
    <3>2. \A a \in accepted : known.keys[a[1]] = a[2] /\ a[1] \in Hosts
      BY <1>1, <2>1, <3>1 DEF HostsInv, HostsTyped
    <3>3. \A a \in accepted' : known'.keys[a[1]] = a[2]
      BY <2>1, <2>2, <3>2
    <3>4. \A j \in Instances : job[j] # "write"
      BY <1>1, <2>1, <3>1 DEF HostsInv
    <3> QED BY <2>1, <2>2, <3>3, <3>4 DEF HostsInv
  <2> QED BY <2>3, <2>4 DEF HostsInv
<1> QED BY <1>2, <1>3, <1>4

-----------------------------------------------------------------------------
(* config.toml.                                                            *)

\* An instance that ends without having touched the file.
LEMMA EndKeepsConfig ==
    ASSUME ConfigTyped, ConfigInv, NEW i \in Instances, main[i] # "write",
           main' = [main EXCEPT ![i] = "off"], config' = [config EXCEPT ![i] = Default],
           parsed' = [parsed EXCEPT ![i] = TRUE], fresh' = fresh \ {i},
           UNCHANGED <<disk, wish, saved>>, harm \subseteq harm'
    PROVE  ConfigTyped' /\ ConfigInv'
<1>1. main' \in [Instances -> MainPhases] /\ main'[i] = "off"
      /\ \A j \in Instances \ {i} : main'[j] = main[j]
  BY DEF ConfigTyped, MainPhases
<1>2. config' \in [Instances -> Configs] /\ \A j \in Instances \ {i} : config'[j] = config[j]
  BY DefaultTyped DEF ConfigTyped
<1>3. parsed' \in [Instances -> BOOLEAN] /\ \A j \in Instances \ {i} : parsed'[j] = parsed[j]
  BY DEF ConfigTyped
<1>4. ConfigTyped'
  BY <1>1, <1>2, <1>3 DEF ConfigTyped
<1>5. ASSUME harm' \cap ConfigHarms = {} PROVE ConfigInv'
  <2>1. harm \cap ConfigHarms = {}
    BY <1>5
  <2>2. Writing(main') = Writing(main)
    BY <1>1 DEF Writing
  <2>3. \A j \in fresh' : j \in fresh /\ main'[j] = main[j] /\ config'[j] = config[j] /\ parsed'[j] = parsed[j]
    BY <1>1, <1>2, <1>3 DEF ConfigTyped
  <2>4. \A j \in fresh' :
            /\ main'[j] # "off"
            /\ parsed'[j] => config'[j].general = wish /\ saved \subseteq config'[j].profiles
    BY <2>1, <2>3, Zenon DEF ConfigInv
  <2>5. ASSUME NEW j \in Instances, main'[j] = "write"
        PROVE  disk.state = "empty" /\ fresh' = {j} /\ parsed'[j]
    <3>1. main[j] = "write" /\ j # i
      BY <1>1, <2>5
    <3>2. disk.state = "empty" /\ fresh = {j} /\ parsed[j]
      BY <2>1, <3>1, Zenon DEF ConfigInv
    <3>3. parsed'[j]
      BY <1>3, <3>1, <3>2, Zenon
    <3> QED BY <3>1, <3>2, <3>3
  <2> QED BY <2>1, <2>2, <2>4, <2>5 DEF ConfigInv
<1> QED BY <1>4, <1>5 DEF ConfigInv

LEMMA StartKeeps ==
    ASSUME ConfigTyped, ConfigInv, NEW i \in Instances, Start(i)
    PROVE  ConfigTyped' /\ ConfigInv'
<1>8. PICK reads \in {TRUE, ~Faults \/ disk.state = "missing"} :
        /\ config' = [config EXCEPT ![i] = IF reads THEN Load ELSE Default]
        /\ parsed' = [parsed EXCEPT ![i] = reads /\ disk.state # "bad"]
  BY Zenon DEF Start
<1> DEFINE text == IF reads THEN Load ELSE Default
           ok == reads /\ disk.state # "bad"
<1>9. /\ text \in {Load, Default} /\ (reads => text = Load)
      /\ config' = [config EXCEPT ![i] = text]
  BY <1>8
<1>10. ok \in BOOLEAN /\ (ok => reads /\ disk.state # "bad") /\ parsed' = [parsed EXCEPT ![i] = ok]
  BY <1>8, Zenon
<1> HIDE DEF text, ok
<1>1. main[i] = "off" /\ UNCHANGED <<disk, wish, saved, harm>>
      /\ fresh' = IF Writing(main) = {} THEN fresh \cup {i} ELSE fresh
  BY DEF Start
<1>2. main' \in [Instances -> MainPhases] /\ main'[i] = "on"
      /\ \A j \in Instances \ {i} : main'[j] = main[j]
  BY DEF Start, ConfigTyped, MainPhases
<1>3. config' \in [Instances -> Configs] /\ config'[i] = text
      /\ \A j \in Instances \ {i} : config'[j] = config[j]
  <2>1. Load \in Configs /\ Default \in Configs
    BY ReadTyped, DefaultTyped
  <2> QED BY <1>9, <2>1 DEF ConfigTyped
<1>4. parsed' \in [Instances -> BOOLEAN] /\ \A j \in Instances \ {i} : parsed'[j] = parsed[j]
  <2>1. parsed \in [Instances -> BOOLEAN]
    BY DEF ConfigTyped
  <2> QED BY <1>10, <2>1, Zenon
<1>5. parsed'[i] => disk.state # "bad" /\ text = Load
  <2>1. parsed \in [Instances -> BOOLEAN]
    BY DEF ConfigTyped
  <2>2. parsed'[i] => ok
    BY <1>10, <2>1, Zenon
  <2> QED BY <1>9, <1>10, <2>2, Zenon
<1>6. ConfigTyped'
  BY <1>1, <1>2, <1>3, <1>4 DEF ConfigTyped
<1>7. ASSUME harm' \cap ConfigHarms = {} PROVE ConfigInv'
  <2>1. harm \cap ConfigHarms = {} /\ i \notin fresh
    BY <1>1, <1>7, Zenon DEF ConfigInv
  <2>2. Writing(main') = Writing(main)
    BY <1>1, <1>2 DEF Writing
  <2>3. ASSUME NEW j \in fresh', j # i
        PROVE  /\ main'[j] # "off"
               /\ parsed'[j] => config'[j].general = wish /\ saved \subseteq config'[j].profiles
    <3>1. j \in fresh /\ j \in Instances
      BY <1>1, <2>3 DEF ConfigTyped
    <3>2. main'[j] = main[j] /\ config'[j] = config[j] /\ parsed'[j] = parsed[j]
      BY <1>2, <1>3, <1>4, <2>3, <3>1
    <3> QED BY <2>1, <3>1, <3>2, Zenon DEF ConfigInv
  <2>4. ASSUME i \in fresh', parsed'[i]
        PROVE  config'[i].general = wish /\ saved \subseteq config'[i].profiles
    <3>1. Writing(main) = {}
      BY <1>1, <2>1, <2>4
    <3>2. disk.state \notin {"empty", "bad"} /\ disk.state \in States
      <4>1. disk.state # "empty"
        BY <2>1, <3>1, Zenon DEF ConfigInv
      <4>2. disk.state # "bad"
        BY <1>5, <2>4
      <4> QED BY <4>1, <4>2 DEF ConfigTyped
    <3>3. disk.text.general = wish /\ saved \subseteq disk.text.profiles
          /\ (disk.state = "missing" => disk.text = Default)
      BY <2>1, <3>2, Zenon DEF ConfigInv
    <3>4. Load = disk.text
      BY <3>2, <3>3 DEF Load, States
    <3> QED BY <1>3, <1>5, <2>4, <3>3, <3>4
  <2>5. ASSUME NEW j \in Instances, main'[j] = "write"
        PROVE  disk'.state = "empty" /\ fresh' = {j} /\ parsed'[j]
    <3>1. main[j] = "write" /\ j # i /\ Writing(main) # {}
      BY <1>2, <2>5 DEF Writing
    <3>2. disk.state = "empty" /\ fresh = {j} /\ parsed[j]
      BY <2>1, <3>1, Zenon DEF ConfigInv
    <3>3. parsed'[j]
      BY <1>4, <3>1, <3>2, Zenon
    <3> QED BY <1>1, <3>1, <3>2, <3>3
  <2>6. /\ disk'.state # "empty" => disk'.text.general = wish' /\ saved' \subseteq disk'.text.profiles
        /\ disk'.state = "missing" => disk'.text = Default
        /\ disk'.state = "empty" => Writing(main') # {}
    BY <1>1, <2>1, <2>2, Zenon DEF ConfigInv
  <2>7. main'[i] # "off"
    BY <1>2
  <2>8. \A j \in fresh' :
            /\ main'[j] # "off"
            /\ parsed'[j] => config'[j].general = wish' /\ saved' \subseteq config'[j].profiles
    BY <1>1, <2>3, <2>4, <2>7, Zenon
  <2> QED BY <2>5, <2>6, <2>8, Zenon DEF ConfigInv
<1> QED BY <1>6, <1>7, Zenon DEF ConfigInv

\* Leave and Connected change neither who knows the file nor who writes it.
LEMMA KnowingKeeps ==
    ASSUME ConfigTyped, ConfigInv, NEW i \in Instances, main'[i] \notin {"off", "write"},
           main[i] # "write", main' \in [Instances -> MainPhases], config' \in [Instances -> Configs],
           \A j \in Instances \ {i} : main'[j] = main[j], UNCHANGED <<parsed, disk, wish, saved, fresh>>,
           \A j \in Instances : /\ config'[j].general = config[j].general
                                /\ config[j].profiles \subseteq config'[j].profiles,
           harm' = harm
    PROVE  ConfigTyped' /\ ConfigInv'
<1>1. ConfigTyped'
  BY DEF ConfigTyped
<1>2. ASSUME harm' \cap ConfigHarms = {} PROVE ConfigInv'
  <2>1. harm \cap ConfigHarms = {}
    BY <1>2
  <2>2. Writing(main') = Writing(main)
    BY DEF Writing
  <2>3. ASSUME NEW j \in fresh
        PROVE  /\ main'[j] # "off"
               /\ parsed[j] => config'[j].general = wish /\ saved \subseteq config'[j].profiles
    <3>1. j \in Instances
      BY DEF ConfigTyped
    <3>2. /\ main[j] # "off"
          /\ parsed[j] => config[j].general = wish /\ saved \subseteq config[j].profiles
      BY <2>1, Zenon DEF ConfigInv
    <3>3. main'[j] # "off"
      BY <3>1, <3>2
    <3>4. config'[j].general = config[j].general /\ config[j].profiles \subseteq config'[j].profiles
      BY <3>1
    <3>5. saved \subseteq config[j].profiles => saved \subseteq config'[j].profiles
      BY <3>4
    <3> QED BY <3>2, <3>3, <3>4, <3>5, Zenon
  <2>4. ASSUME NEW j \in Instances, main'[j] = "write"
        PROVE  disk.state = "empty" /\ fresh = {j} /\ parsed[j]
    <3>1. main[j] = "write"
      BY <2>4
    <3> QED BY <2>1, <3>1, Zenon DEF ConfigInv
  <2>5. /\ disk'.state # "empty" => disk'.text.general = wish' /\ saved' \subseteq disk'.text.profiles
        /\ disk'.state = "missing" => disk'.text = Default
        /\ disk'.state = "empty" => Writing(main') # {}
    BY <2>1, <2>2, Zenon DEF ConfigInv
  <2> QED BY <2>3, <2>4, <2>5, Zenon DEF ConfigInv
<1> QED BY <1>1, <1>2, Zenon DEF ConfigInv

LEMMA OpenSaveKeeps ==
    ASSUME Inv, NEW i \in Instances, OpenSave(i)
    PROVE  ConfigTyped' /\ ConfigInv' /\ HostsTyped' /\ JobsHaveHosts' /\ HostsInv'
<1>1. ConfigTyped /\ ConfigInv /\ HostsTyped /\ JobsHaveHosts /\ HostsInv /\ TypeOK
  BY DEF Inv, TypeOK
<1>2. main[i] = "save" /\ UNCHANGED <<wish, saved, offered, accepted>>
  BY DEF OpenSave
<1>3. CASE /\ End(i) /\ harm' = harm \cup Blame("hosts torn", job[i] = "write")
           /\ fresh' = fresh \ {i} /\ UNCHANGED disk
  <2>1. /\ JobEnds(i) /\ main' = [main EXCEPT ![i] = "off"]
        /\ config' = [config EXCEPT ![i] = Default] /\ parsed' = [parsed EXCEPT ![i] = TRUE]
    BY <1>3 DEF End
  <2>2. job[i] # "write" => known' = known
    BY <1>1, <1>3 DEF End, HostsTyped
  <2>3. harm \subseteq harm' /\ (job[i] = "write" => "hosts torn" \in harm')
    BY <1>3 DEF Blame
  <2>4. HostsTyped' /\ JobsHaveHosts'
    BY <1>1, <1>2, <1>3, EndTyped
  <2>5. HostsInv'
    BY <1>1, <1>2, <2>1, <2>2, <2>3, EndKeepsHosts
  <2>6. ConfigTyped' /\ ConfigInv'
    BY <1>1, <1>2, <1>3, <2>1, <2>3, EndKeepsConfig
  <2> QED BY <2>4, <2>5, <2>6
<1>4. CASE /\ main' = [main EXCEPT ![i] = "write"] /\ disk' = [disk EXCEPT !.state = "empty"]
           /\ fresh' = fresh \cap {i}
           /\ harm' = harm \cup Blame("overlap", i \notin fresh) \cup Blame("unparsed", ~parsed[i])
           /\ UNCHANGED <<job, target, entries, config, parsed, known, current>>
  <2>1. HostsSame
    <3> DEFINE one == Blame("overlap", i \notin fresh)
               two == Blame("unparsed", ~parsed[i])
    <3>1. one \subseteq {"overlap"} /\ two \subseteq {"unparsed"} /\ harm' = harm \cup one \cup two
      BY <1>4, BlameTyped, Zenon
    <3> HIDE DEF one, two
    <3>2. harm \cap HostsHarms = harm' \cap HostsHarms
      BY <3>1 DEF HostsHarms
    <3>3. UNCHANGED <<job, target, hostsFile>>
      BY <1>2, <1>4, Zenon DEF hostsFile
    <3> QED BY <3>2, <3>3, Zenon DEF HostsSame
  <2>2. main' \in [Instances -> MainPhases] /\ main'[i] = "write"
        /\ \A j \in Instances \ {i} : main'[j] = main[j]
    BY <1>1, <1>4 DEF ConfigTyped, MainPhases
  <2>3. disk' \in [state : States, text : Configs] /\ disk'.state = "empty"
    BY <1>1, <1>4 DEF ConfigTyped, States
  <2>4. ConfigTyped'
    BY <1>1, <1>2, <1>4, <2>2, <2>3 DEF ConfigTyped
  <2>5. ASSUME harm' \cap ConfigHarms = {} PROVE ConfigInv'
    <3>1. harm \cap ConfigHarms = {} /\ i \in fresh
      BY <1>4, <2>5 DEF Blame, ConfigHarms
    <3>2. parsed[i]
      <4>1. Blame("unparsed", ~parsed[i]) = {}
        BY <1>4, <2>5, BlameTyped DEF ConfigHarms
      <4> QED BY <4>1, Zenon DEF Blame
    <3>3. fresh' = {i}
      BY <1>4, <3>1
    <3>4. Writing(main') # {}
      BY <2>2 DEF Writing
    <3>5. ASSUME NEW j \in Instances, main'[j] = "write", j # i PROVE FALSE
      <4>1. main[j] = "write"
        BY <2>2, <3>5
      <4>2. fresh = {j}
        BY <1>1, <3>1, <4>1, Zenon DEF ConfigInv
      <4> QED BY <3>1, <3>5, <4>2
    <3>6. main'[i] # "off"
      BY <2>2
    <3>7. /\ disk'.state # "empty" => disk'.text.general = wish' /\ saved' \subseteq disk'.text.profiles
          /\ disk'.state = "missing" => disk'.text = Default
      BY <2>3
    <3>8. config[i].general = wish /\ saved \subseteq config[i].profiles
      BY <1>1, <3>1, <3>2, Zenon DEF ConfigInv
    <3>9. \A j \in fresh' :
              /\ main'[j] # "off"
              /\ parsed'[j] => config'[j].general = wish' /\ saved' \subseteq config'[j].profiles
      BY <1>2, <1>4, <3>3, <3>6, <3>8, Zenon
    <3>10. \A j \in Instances : main'[j] = "write" => disk'.state = "empty" /\ fresh' = {j} /\ parsed'[j]
      BY <1>4, <2>3, <3>2, <3>3, <3>5, Zenon
    <3> QED BY <3>4, <3>7, <3>9, <3>10, Zenon DEF ConfigInv
  <2>6. ConfigInv'
    BY <2>5, Zenon DEF ConfigInv
  <2> QED BY <1>1, <2>1, <2>4, <2>6, HostsSameKeeps
<1> QED BY <1>3, <1>4 DEF OpenSave

LEMMA WriteSaveKeeps ==
    ASSUME Inv, NEW i \in Instances, WriteSave(i)
    PROVE  ConfigTyped' /\ ConfigInv' /\ HostsTyped' /\ JobsHaveHosts' /\ HostsInv'
<1>1. ConfigTyped /\ ConfigInv /\ HostsTyped /\ JobsHaveHosts /\ HostsInv /\ TypeOK
  BY DEF Inv, TypeOK
<1>2. /\ main[i] = "write" /\ End(i) /\ UNCHANGED <<wish, offered, accepted>>
      /\ saved' = saved \cup config[i].profiles /\ fresh' = {}
      /\ harm' = harm \cup Blame("overlap", i \notin fresh) \cup Blame("hosts torn", job[i] = "write")
  BY DEF WriteSave
<1>3. /\ JobEnds(i) /\ main' = [main EXCEPT ![i] = "off"]
  BY <1>2 DEF End
<1>4. job[i] # "write" => known' = known
  BY <1>1, <1>2 DEF End, HostsTyped
<1>5. harm \subseteq harm' /\ (job[i] = "write" => "hosts torn" \in harm')
  BY <1>2 DEF Blame
<1>6. HostsTyped' /\ JobsHaveHosts' /\ ConfigTyped'
  <2>1. PICK state \in {"whole"} \cup Blame("bad", Writing(main) # {i}) :
            disk' = [state |-> state, text |-> config[i]]
    BY DEF WriteSave
  <2>2. state \in States /\ config[i] \in Configs
    BY <1>1, <2>1, BlameTyped DEF States, ConfigTyped
  <2>3. disk' \in [state : States, text : Configs]
    BY <2>1, <2>2
  <2>4. saved' \in SUBSET Hosts
    BY <1>1, <1>2 DEF ConfigTyped, Configs
  <2>5. /\ main' \in [Instances -> MainPhases] /\ config' \in [Instances -> Configs]
        /\ parsed' \in [Instances -> BOOLEAN] /\ HostsTyped' /\ JobsHaveHosts'
    BY <1>1, <1>2, EndTyped, Zenon
  <2> QED BY <1>1, <1>2, <2>3, <2>4, <2>5 DEF ConfigTyped
<1>7. HostsInv'
  BY <1>1, <1>2, <1>3, <1>4, <1>5, EndKeepsHosts
<1>8. ASSUME harm' \cap ConfigHarms = {} PROVE ConfigInv'
  <2>1. harm \cap ConfigHarms = {}
    BY <1>5, <1>8
  <2>2. fresh = {i} /\ parsed[i]
    BY <1>1, <1>2, <2>1, Zenon DEF ConfigInv
  <2>3. \A j \in Instances : main[j] = "write" => j = i
    <3>1. \A j \in Instances : main[j] = "write" => fresh = {j}
      BY <1>1, <2>1, Zenon DEF ConfigInv
    <3> QED BY <3>1, <2>2
  <2>4. Writing(main) = {i}
    BY <1>2, <2>3 DEF Writing
  <2>5. disk' = [state |-> "whole", text |-> config[i]]
    BY <2>4 DEF WriteSave, Blame
  <2>6. config[i].general = wish /\ saved \subseteq config[i].profiles
    BY <1>1, <2>1, <2>2, Zenon DEF ConfigInv
  <2>7. \A j \in Instances : main'[j] # "write"
    BY <1>1, <1>3, <2>3 DEF ConfigTyped
  <2>8. /\ disk'.state = "whole" /\ disk'.text.general = wish' /\ saved' \subseteq disk'.text.profiles
    BY <1>2, <2>5, <2>6
  <2> QED BY <1>2, <2>7, <2>8 DEF ConfigInv
<1> QED BY <1>6, <1>7, <1>8, Zenon DEF ConfigInv

LEMMA DieKeeps ==
    ASSUME Inv, NEW i \in Instances, Die(i)
    PROVE  ConfigTyped' /\ ConfigInv' /\ HostsTyped' /\ JobsHaveHosts' /\ HostsInv'
<1>1. ConfigTyped /\ ConfigInv /\ HostsTyped /\ JobsHaveHosts /\ HostsInv /\ TypeOK
  BY DEF Inv, TypeOK
<1>2. /\ End(i) /\ UNCHANGED <<wish, saved, offered, accepted>>
      /\ harm' = harm \cup Blame("torn", main[i] = "write") \cup Blame("hosts torn", job[i] = "write")
  BY DEF Die
<1>3. /\ JobEnds(i) /\ main' = [main EXCEPT ![i] = "off"]
      /\ config' = [config EXCEPT ![i] = Default] /\ parsed' = [parsed EXCEPT ![i] = TRUE]
  BY <1>2 DEF End
<1>4. job[i] # "write" => known' = known
  BY <1>1, <1>2 DEF End, HostsTyped
<1>5. /\ harm \subseteq harm' /\ (job[i] = "write" => "hosts torn" \in harm')
      /\ main[i] = "write" => "torn" \in harm'
  BY <1>2 DEF Blame
<1>6. HostsTyped' /\ JobsHaveHosts' /\ HostsInv'
  BY <1>1, <1>2, <1>3, <1>4, <1>5, EndKeepsHosts, EndTyped
<1>7. CASE main[i] # "write"
  <2>1. UNCHANGED disk /\ fresh' = fresh \ {i}
    BY <1>7 DEF Die
  <2> QED BY <1>1, <1>2, <1>3, <1>5, <1>6, <1>7, <2>1, EndKeepsConfig
<1>8. CASE main[i] = "write"
  <2>1. PICK state \in {"empty", "bad", "whole"} : disk' = [state |-> state, text |-> Default]
    BY <1>8 DEF Die
  <2>2. disk' \in [state : States, text : Configs] /\ fresh' = {}
    <3>1. state \in States
      BY <2>1 DEF States
    <3>2. fresh' = {}
      BY <1>8 DEF Die
    <3> QED BY <2>1, <3>1, <3>2, DefaultTyped
  <2>3. /\ main' \in [Instances -> MainPhases] /\ config' \in [Instances -> Configs]
        /\ parsed' \in [Instances -> BOOLEAN]
    BY <1>1, <1>2, EndTyped, Zenon
  <2>4. ConfigTyped'
    BY <1>1, <1>2, <2>2, <2>3 DEF ConfigTyped
  <2>5. ConfigInv'
    BY <1>5, <1>8 DEF ConfigInv, ConfigHarms
  <2> QED BY <1>6, <2>4, <2>5
<1> QED BY <1>7, <1>8

LEMMA HandEditKeeps ==
    ASSUME ConfigTyped, ConfigInv, HandEdit
    PROVE  ConfigTyped' /\ ConfigInv'
<1>1. /\ Writing(main) = {} /\ wish' = "edited" /\ fresh' = {}
      /\ UNCHANGED <<main, config, parsed, saved, harm>>
  BY DEF HandEdit
<1>2. PICK state \in {"whole", "bad"} :
          disk' = [state |-> state, text |-> [disk.text EXCEPT !.general = "edited"]]
  BY DEF HandEdit
<1>3. /\ state \in States /\ disk.text \in Configs
      /\ [disk.text EXCEPT !.general = "edited"] \in Configs
  BY <1>2 DEF ConfigTyped, States, Configs
<1>4. disk' \in [state : States, text : Configs]
  BY <1>2, <1>3
<1>5. ConfigTyped'
  BY <1>1, <1>4 DEF ConfigTyped
<1>6. ASSUME harm' \cap ConfigHarms = {} PROVE ConfigInv'
  <2>1. harm \cap ConfigHarms = {}
    BY <1>1, <1>6
  <2>2. disk.state # "empty"
    BY <1>1, <2>1, Zenon DEF ConfigInv
  <2>3. saved \subseteq disk.text.profiles
    BY <2>1, <2>2, Zenon DEF ConfigInv
  <2>4. /\ disk'.state \in {"whole", "bad"} /\ disk'.text.general = wish'
        /\ saved' \subseteq disk'.text.profiles
    BY <1>1, <1>2, <1>3, <2>3 DEF Configs
  <2>5. \A j \in Instances : main'[j] # "write"
    BY <1>1 DEF Writing
  <2> QED BY <1>1, <2>4, <2>5 DEF ConfigInv
<1> QED BY <1>5, <1>6, Zenon DEF ConfigInv

-----------------------------------------------------------------------------
LEMMA InvNext == Inv /\ [Next]_vars => Inv'
<1> SUFFICES ASSUME Inv, [Next]_vars PROVE Inv'
  OBVIOUS
<1> DEFINE Kept == ConfigTyped' /\ ConfigInv' /\ HostsTyped' /\ JobsHaveHosts' /\ HostsInv'
<1>1. ConfigTyped /\ ConfigInv /\ HostsTyped /\ JobsHaveHosts /\ HostsInv /\ TypeOK
  BY DEF Inv, TypeOK
<1>2. ASSUME NEW i \in Instances, Start(i) PROVE Kept
  <2>1. HostsSame
    BY <1>2 DEF Start, HostsSame, hostsFile
  <2> QED BY <1>1, <1>2, <2>1, StartKeeps, HostsSameKeeps
<1>3. ASSUME NEW i \in Instances, Leave(i) PROVE Kept
  <2>1. HostsSame
    BY <1>3 DEF Leave, HostsSame
  <2>2. /\ main[i] = "on" /\ main' \in [Instances -> MainPhases] /\ main'[i] = "save"
        /\ \A j \in Instances \ {i} : main'[j] = main[j]
    BY <1>1, <1>3 DEF Leave, ConfigTyped, MainPhases
  <2>3. UNCHANGED <<config, parsed, disk, wish, saved, fresh, harm>>
    BY <1>3, Zenon DEF Leave, configFile
  <2>4. config' \in [Instances -> Configs]
    BY <1>1, <2>3 DEF ConfigTyped
  <2>5. ConfigTyped' /\ ConfigInv'
    BY <1>1, <2>2, <2>3, <2>4, KnowingKeeps
  <2> QED BY <1>1, <2>1, <2>5, HostsSameKeeps
<1>4. ASSUME NEW i \in Instances, OpenSave(i) \/ WriteSave(i) \/ Die(i) PROVE Kept
  BY <1>4, OpenSaveKeeps, WriteSaveKeeps, DieKeeps
<1>5. ASSUME NEW i \in Instances, CheckHostKey(i) \/ OpenHosts(i) \/ WriteHosts(i) PROVE Kept
  <2>1. UNCHANGED <<main, configFile>>
    BY <1>5 DEF CheckHostKey, OpenHosts, WriteHosts
  <2>2. harm \cap ConfigHarms = harm' \cap ConfigHarms
    <3>1. harm' = harm \/ harm' = harm \cup {"hosts torn"}
          \/ harm' = harm \cup Blame("hosts overlap", i \notin current)
      BY <1>5 DEF CheckHostKey, OpenHosts, WriteHosts
    <3>2. Blame("hosts overlap", i \notin current) \subseteq {"hosts overlap"}
      BY BlameTyped, Zenon
    <3> QED BY <3>1, <3>2 DEF ConfigHarms
  <2>3. ConfigSame
    BY <2>1, <2>2, Zenon DEF ConfigSame
  <2> QED BY <1>1, <1>5, <2>3, ConfigSameKeeps, CheckHostKeyKeeps, OpenHostsKeeps, WriteHostsKeeps
<1>6. ASSUME NEW i \in Instances, Connected(i) PROVE Kept
  <2>1. main[i] = "on" /\ job[i] = "done" /\ config' = [config EXCEPT ![i].profiles = @ \cup {target[i]}]
    BY <1>6 DEF Connected
  <2>2. target[i] \in Hosts
    BY <1>1, <2>1 DEF JobsHaveHosts
  <2>3. \A j \in Instances : config[j] \in Configs
    BY <1>1 DEF ConfigTyped
  <2>4. /\ config' \in [Instances -> Configs]
        /\ \A j \in Instances : /\ config'[j].general = config[j].general
                                /\ config[j].profiles \subseteq config'[j].profiles
    BY <1>1, <2>1, <2>2, <2>3 DEF ConfigTyped, Configs
  <2>5. UNCHANGED <<main, parsed, disk, wish, saved, fresh, harm>>
    BY <1>6, Zenon DEF Connected
  <2>6. main' \in [Instances -> MainPhases] /\ main'[i] = "on"
    BY <1>1, <2>1, <2>5 DEF ConfigTyped
  <2>7. ConfigTyped' /\ ConfigInv'
    BY <1>1, <2>1, <2>4, <2>5, <2>6, KnowingKeeps
  <2> QED BY <1>6, <2>2, <2>7, OtherJobSteps
<1>7. ASSUME NEW i \in Instances, Authenticate(i) PROVE Kept
  <2>1. ConfigSame
    BY <1>7 DEF Authenticate, ConfigSame
  <2>2. target[i] \in Hosts
    BY <1>1, <1>7 DEF JobsHaveHosts, Authenticate
  <2> QED BY <1>1, <1>7, <2>1, <2>2, ConfigSameKeeps, OtherJobSteps
<1>8. ASSUME NEW i \in Instances, NEW h \in Hosts, StartConnect(i, h) PROVE Kept
  <2>1. ConfigSame
    BY <1>8 DEF StartConnect, ConfigSame
  <2> QED BY <1>1, <1>8, <2>1, ConfigSameKeeps, OtherJobSteps
<1>9. ASSUME NEW h \in Hosts, SshAppends(h) \/ NewHostKey(h) \/ RemoveHost(h) PROVE Kept
  <2>1. ConfigSame
    BY <1>9 DEF SshAppends, NewHostKey, RemoveHost, ConfigSame
  <2> QED BY <1>1, <1>9, <2>1, ConfigSameKeeps, HostSteps
<1>10. ASSUME HandEdit PROVE Kept
  <2>1. HostsSame
    <3>1. UNCHANGED <<job, target, hostsFile, harm>>
      BY <1>10, Zenon DEF HandEdit
    <3> QED BY <3>1, Zenon DEF HostsSame
  <2> QED BY <1>1, <1>10, <2>1, HandEditKeeps, HostsSameKeeps
<1>11. ASSUME UNCHANGED vars PROVE Kept
  <2>1. UNCHANGED <<job, target, hostsFile, harm>>
    BY <1>11 DEF vars, hostsFile
  <2>2. UNCHANGED <<main, configFile, harm>>
    BY <1>11, Zenon DEF vars, configFile
  <2>3. HostsSame
    BY <2>1, Zenon DEF HostsSame
  <2>4. ConfigSame
    BY <2>2, Zenon DEF ConfigSame
  <2> QED BY <1>1, <2>3, <2>4, HostsSameKeeps, ConfigSameKeeps
<1>12. Kept
  BY <1>2, <1>3, <1>4, <1>5, <1>6, <1>7, <1>8, <1>9, <1>10, <1>11 DEF Next, Exit, Connect
<1>13. harm' \in SUBSET (ConfigHarms \cup HostsHarms)
  BY <1>1, HarmNext DEF vars, TypeOK
<1> QED BY <1>12, <1>13 DEF Inv, TypeOK

\* Every variable holds a value of its kind, for any instances and hosts.
THEOREM TypeCorrect == Spec => []TypeOK
<1>1. Inv => TypeOK
  BY DEF Inv
<1> QED BY InvInit, InvNext, <1>1, PTL DEF Spec

\* With one writer at a time that has read the latest text, nothing the user has
\* set and no profile of an earlier session drops out of config.toml.
THEOREM SettingsKept == Spec => []ConfigKept
<1>1. Inv => ConfigKept
  BY Zenon DEF Inv, ConfigInv, ConfigKept
<1> QED BY InvInit, InvNext, <1>1, PTL DEF Spec

\* Later connections are held to the key an earlier one went ahead with.
THEOREM AcceptedKeysKept == Spec => []KeysKept
<1>1. Inv => KeysKept
  BY Zenon DEF Inv, HostsInv, KeysKept
<1> QED BY InvInit, InvNext, <1>1, PTL DEF Spec
=============================================================================
