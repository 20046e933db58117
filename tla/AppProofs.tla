------------------------------ MODULE AppProofs -----------------------------
(***************************************************************************)
(* Proofs about AppLoop, for every number of profiles, archive layers and  *)
(* jobs and every configuration: the invariants its run checks, that       *)
(* nothing dangerous starts without its dialog (ApprovedFirstTheorem), and *)
(* that the loop keeps its contract with the user (KeepsSession).          *)
(***************************************************************************)
EXTENDS AppLoop, TLAPS, SequenceTheorems

-----------------------------------------------------------------------------
(* The inductive invariant.                                                *)

PanelSet == [at : Places, sel : Places \cup {Nowhere}, quic : BOOLEAN,
             misses : {"none", "job", "ui", "all"}]
JobSet == [task : Tasks, st : {"none", "running", "done", "ended"},
           cancel : BOOLEAN, told : BOOLEAN]
Event == [job : Ids, kind : {"progress", "finished"},
          outcome : {"none", "Completed", "Failed", "Cancelled"}]

ModeType ==
    /\ loop \in {"on", "quit", "failed"} /\ active \in Sides
    /\ mode.is \in {"browsing", "text", "confirm", "connect", "help", "progress"}
    /\ mode.task \in Tasks /\ mode.job \in Ids \cup {NoId}
    /\ mode.job # NoId <=> mode.is = "progress"
RegistryType ==
    remotes \in [Profiles -> {"none", "unprobed"} \cup Findings] /\ archives \subseteq Locations
ManagerType ==
    /\ jobs \in [Ids -> JobSet] /\ nextId \in 0..MaxJobs /\ events \in Seq(Event)
    /\ background \subseteq {j \in Ids : jobs[j].task.op = "warm"}
    /\ plans \in [Ids -> {"none", "empty", "some"}]
PanelsType == panels \in [Sides -> PanelSet]

\* What a task works on: where a connect, a warm-up and an archive lead to.
Leads(task) ==
    /\ task.op \in {"connect", "warm"} => \E p \in Profiles : task.dst = Root(Remote(p))
    /\ task.op = "archive" =>
          task.src.loc \in Locations /\ task.dst = Root(Archive(task.src.loc))

\* The slots of the job manager: an empty one holds nothing, a new one is empty.
SlotsOK ==
    \A j \in Ids :
        /\ jobs[j].st = "none" => jobs[j] = NoJob
        /\ j >= nextId => jobs[j].st = "none"
        /\ jobs[j].st # "none" => Leads(jobs[j].task)

\* The dialogs ask about what their keys ask about.
AsksOK ==
    /\ loop # "on" => mode.is = "browsing"
    /\ mode.is = "text" => mode.task.op \in {"copy", "move", "rename", "mkdir"}
    /\ mode.is = "confirm" => mode.task.op \in {"delete", "sync"}

\* A progress dialog is about a job of the user's, and no other such job exists.
\* There is room for one more job, the warm-up that follows a connect.
OneJob ==
    /\ mode.is = "progress" =>
          /\ nextId < MaxJobs /\ mode.job \notin background
          /\ jobs[mode.job].st # "none" /\ jobs[mode.job].task = mode.task
    /\ \A j \in Ids : jobs[j].st # "none" /\ j \notin background =>
          mode.is = "progress" /\ mode.job = j

\* A job that has ended has one Finished event in the channel, no other job has.
IsFinished(i, j) == events[i].kind = "finished" /\ events[i].job = j
EventsOK ==
    /\ \A i \in DOMAIN events, j \in Ids : IsFinished(i, j) => jobs[j].st = "ended"
    /\ \A i, k \in DOMAIN events, j \in Ids : IsFinished(i, j) /\ IsFinished(k, j) => i = k
    /\ \A j \in Ids : jobs[j].st = "ended" => \E i \in DOMAIN events : IsFinished(i, j)

\* What a job has done is in place before the loop can hear of it.
Landed(j) ==
    /\ jobs[j].task.op = "connect" => remotes[jobs[j].task.dst.loc[1]] # "none"
    /\ jobs[j].task.op = "archive" => jobs[j].task.dst.loc \in archives
    /\ jobs[j].task.op = "scan" => plans[j] # "none"
Succeeded(j) ==
    \/ jobs[j].st = "done"
    \/ \E i \in DOMAIN events : IsFinished(i, j) /\ events[i].outcome = "Completed"
ResultsOK == \A j \in Ids : Succeeded(j) => Landed(j)

\* What an open archive lies in is open as well.
NestingOK == \A loc \in archives : IsArchive(loc) /\ Resolves(Base(loc))

\* A panel's selected entries are those it shows.
SelectionOK == \A s \in Sides : panels[s].sel # Nowhere => panels[s].sel = panels[s].at

\* A listing misses a job's changes only while that job has the mode.
MissesOK ==
    \A s \in Sides : loop = "on" /\ panels[s].misses = "job" =>
        mode.is = "progress" /\ mode.task.op \in FileOps \cup {"sync"}

\* A panel's glyph is right, or a job is on its way that will set it right.
Renews(j, p) ==
    /\ jobs[j].task.dst.loc # Local /\ jobs[j].task.dst.loc[1] = p
    /\ \/ jobs[j].task.op = "warm" /\ jobs[j].st # "none"
       \/ jobs[j].task.op = "connect" /\ Succeeded(j)
GlyphAt(loc, quic) ==
    /\ \A p \in Profiles : Uses(loc, p) =>
          \/ remotes[p] # "unprobed" /\ quic = (remotes[p] = "agent")
          \/ \E j \in Ids : Renews(j, p)
    /\ (\A p \in Profiles : ~Uses(loc, p)) => quic = FALSE
GlyphsOK ==
    EnableQuic /\ loop = "on" => \A s \in Sides : GlyphAt(panels[s].at.loc, panels[s].quic)

JobsInv ==
    /\ ModeType /\ RegistryType /\ ManagerType
    /\ SlotsOK /\ AsksOK /\ OneJob /\ EventsOK /\ ResultsOK /\ NestingOK
PanelsInv ==
    /\ PanelsType /\ PanelsResolve /\ SelectionOK /\ CommandMatchesPanels
    /\ MissesOK /\ GlyphsOK
IInv == JobsInv /\ PanelsInv

LEMMA Stems ==
    ASSUME NEW base \in Hosts
    PROVE  /\ base \in Seq(Profiles \cup {Zip}) /\ Len(base) \in {0, 1}
           /\ Len(base) = 1 => base[1] \in Profiles
           /\ \A p \in Profiles : Uses(base, p) <=> base = Remote(p)
<1>1. CASE base = Local
  <2>1. base = << >>  BY <1>1 DEF Local
  <2>2. << >> \in Seq(Profiles \cup {Zip}) /\ Len(<< >>) = 0  OBVIOUS
  <2>3. \A p \in Profiles : << >> # <<p>>  OBVIOUS
  <2> QED  BY <2>1, <2>2, <2>3 DEF Local, Uses, Remote
<1>2. ASSUME NEW p \in Profiles, base = Remote(p)
      PROVE  /\ base \in Seq(Profiles \cup {Zip}) /\ Len(base) = 1 /\ base[1] \in Profiles
             /\ \A q \in Profiles : Uses(base, q) <=> base = Remote(q)
  BY <1>2 DEF Local, Remote, Uses
<1> QED  BY <1>1, <1>2 DEF Hosts

Layers(n) == [i \in 1..n |-> Zip]

LEMMA LayersAre ==
    ASSUME NEW n \in Nat
    PROVE  /\ Layers(n) \in Seq(Profiles \cup {Zip}) /\ Len(Layers(n)) = n
           /\ \A i \in 1..n : Layers(n)[i] = Zip
<1>1. Layers(n) \in [1..n -> Profiles \cup {Zip}]  BY DEF Layers
<1>2. Layers(n) \in Seq(Profiles \cup {Zip})  BY <1>1, SeqDef
<1>3. DOMAIN Layers(n) = 1..n  BY DEF Layers
<1>4. Len(Layers(n)) = n  BY <1>2, <1>3, LenProperties
<1> QED  BY <1>2, <1>4 DEF Layers

LEMMA LocationParts ==
    ASSUME NEW base \in Hosts, NEW n \in Nat
    PROVE  /\ Within(base, n) \in Seq(Profiles \cup {Zip})
           /\ Len(Within(base, n)) = Len(base) + n
           /\ \A i \in 1..(Len(base) + n) :
                 (Within(base, n))[i] = IF i <= Len(base) THEN base[i] ELSE Zip
<1>1. base \in Seq(Profiles \cup {Zip}) /\ Len(base) \in Nat  BY Stems
<1>2. Layers(n) \in Seq(Profiles \cup {Zip}) /\ Len(Layers(n)) = n
      /\ \A i \in 1..n : Layers(n)[i] = Zip
  BY LayersAre
<1>3. Within(base, n) = base \o Layers(n)  BY DEF Within, Layers
<1> HIDE DEF Layers
<1>4. /\ base \o Layers(n) \in Seq(Profiles \cup {Zip})
      /\ Len(base \o Layers(n)) = Len(base) + n
      /\ \A i \in 1..(Len(base) + n) :
            (base \o Layers(n))[i] = IF i <= Len(base) THEN base[i] ELSE Layers(n)[i - Len(base)]
  BY <1>1, <1>2, ConcatProperties
<1>5. \A i \in 1..(Len(base) + n) : ~(i <= Len(base)) => Layers(n)[i - Len(base)] = Zip
  BY <1>1, <1>2
<1> QED  BY <1>3, <1>4, <1>5

LEMMA BaseParts ==
    ASSUME NEW base \in Hosts, NEW n \in Nat \ {0}
    PROVE  Base(Within(base, n)) = Within(base, n - 1)
<1> DEFINE s == Within(base, n)  t == Within(base, n - 1)  m == Len(base) + n
<1>1. Len(base) \in Nat /\ n - 1 \in Nat /\ n \in Nat  BY Stems
<1>2. /\ s \in Seq(Profiles \cup {Zip}) /\ Len(s) = m
      /\ \A i \in 1..m : s[i] = IF i <= Len(base) THEN base[i] ELSE Zip
  BY <1>1, LocationParts
<1>3. /\ t \in Seq(Profiles \cup {Zip}) /\ Len(t) = m - 1
      /\ \A i \in 1..(m - 1) : t[i] = IF i <= Len(base) THEN base[i] ELSE Zip
  <2>1. /\ t \in Seq(Profiles \cup {Zip}) /\ Len(t) = Len(base) + (n - 1)
        /\ \A i \in 1..(Len(base) + (n - 1)) : t[i] = IF i <= Len(base) THEN base[i] ELSE Zip
    BY <1>1, LocationParts
  <2>2. Len(base) + (n - 1) = m - 1  BY <1>1
  <2> QED  BY <2>1, <2>2
<1>4. m \in Nat \ {0}  BY <1>1
<1> HIDE DEF s, t, m
<1>5. /\ SubSeq(s, 1, m - 1) \in Seq(Profiles \cup {Zip}) /\ Len(SubSeq(s, 1, m - 1)) = m - 1
      /\ \A i \in 1..(m - 1) : SubSeq(s, 1, m - 1)[i] = s[i]
  BY <1>2, <1>4, SubSeqProperties
<1>6. SubSeq(s, 1, m - 1) = t  BY <1>2, <1>3, <1>4, <1>5, SeqEqual
<1> QED  BY <1>2, <1>6 DEF Base, s, t

LEMMA LocalFacts ==
    /\ Local \in Locations /\ ~IsArchive(Local)
    /\ \A p \in Profiles : ~Uses(Local, p)
<1>1. Within(Local, 0) \in Locations  BY BoundsAssumption DEF Locations, Hosts
<1>2. Within(Local, 0) \in Seq(Profiles \cup {Zip}) /\ Len(Within(Local, 0)) = Len(Local) + 0
  BY LocationParts DEF Hosts
<1>3. Len(Local) = 0  BY DEF Local
<1>4. Within(Local, 0) = Local  BY <1>2, <1>3, EmptySeq DEF Local
<1> QED  BY <1>1, <1>4 DEF IsArchive, Uses

LEMMA RemoteFacts ==
    ASSUME NEW p \in Profiles
    PROVE  /\ Remote(p) \in Locations /\ ~IsArchive(Remote(p)) /\ IsRemote(Remote(p))
           /\ Remote(p) # Local /\ Remote(p)[1] = p
           /\ \A q \in Profiles : Uses(Remote(p), q) <=> q = p
<1>1. Len(Remote(p)) = 1 /\ Remote(p)[1] = p /\ Remote(p) # Local  BY DEF Remote, Local
<1>2. Remote(p) \in Seq(Profiles \cup {Zip})  BY DEF Remote
<1>3. /\ Within(Remote(p), 0) \in Seq(Profiles \cup {Zip}) /\ Len(Within(Remote(p), 0)) = 1
      /\ Within(Remote(p), 0)[1] = p
  <2>1. /\ Within(Remote(p), 0) \in Seq(Profiles \cup {Zip})
        /\ Len(Within(Remote(p), 0)) = Len(Remote(p)) + 0
        /\ \A i \in 1..(Len(Remote(p)) + 0) :
              Within(Remote(p), 0)[i] = IF i <= Len(Remote(p)) THEN Remote(p)[i] ELSE Zip
    BY LocationParts DEF Hosts
  <2> QED  BY <2>1, <1>1
<1>4. Within(Remote(p), 0) = Remote(p)
  <2>1. \A i \in 1..Len(Remote(p)) : Remote(p)[i] = Within(Remote(p), 0)[i]
    BY <1>1, <1>3
  <2> QED  BY <2>1, <1>1, <1>2, <1>3, SeqEqual
<1>5. Within(Remote(p), 0) \in Locations  BY BoundsAssumption DEF Locations, Hosts
<1>6. ~IsArchive(Remote(p))  BY <1>1, ProfilesAssumption DEF IsArchive, Zip
<1> QED  BY <1>1, <1>4, <1>5, <1>6 DEF IsRemote, Uses

LEMMA LocationFacts ==
    ASSUME NEW loc \in Locations
    PROVE  /\ loc \in Seq(Profiles \cup {Zip}) /\ Len(loc) \in Nat
           /\ IsArchive(loc) => Base(loc) \in Locations
<1>1. PICK base \in Hosts, n \in 0..MaxLayers : loc = Within(base, n)  BY DEF Locations
<1>2. n \in Nat  BY BoundsAssumption
<1>3. /\ loc \in Seq(Profiles \cup {Zip}) /\ Len(loc) = Len(base) + n
      /\ \A i \in 1..(Len(base) + n) : loc[i] = IF i <= Len(base) THEN base[i] ELSE Zip
  BY <1>1, <1>2, LocationParts
<1>4. /\ base \in Seq(Profiles \cup {Zip}) /\ Len(base) \in {0, 1}
      /\ Len(base) = 1 => base[1] \in Profiles
  BY Stems
<1>5. ASSUME IsArchive(loc) PROVE Base(loc) \in Locations
  <2>1. n # 0
    <3>1. SUFFICES ASSUME n = 0 PROVE FALSE  OBVIOUS
    <3>2. CASE Len(base) = 0  BY <3>1, <3>2, <1>3, <1>5, EmptySeq DEF IsArchive, Local
    <3>3. CASE Len(base) = 1
      <4>1. Len(loc) = 1 /\ loc[1] = base[1]  BY <3>1, <3>3, <1>3
      <4> QED  BY <4>1, <3>3, <1>4, <1>5, ProfilesAssumption DEF IsArchive, Zip
    <3> QED  BY <3>2, <3>3, <1>4
  <2>2. n \in Nat \ {0} /\ n - 1 \in 0..MaxLayers  BY <2>1, <1>2, BoundsAssumption
  <2>3. Base(loc) = Within(base, n - 1)  BY <2>2, <1>1, BaseParts
  <2> QED  BY <2>2, <2>3 DEF Locations
<1>6. Len(loc) \in Nat  BY <1>3, <1>4, <1>2
<1> QED  BY <1>3, <1>5, <1>6

LEMMA BaseUses ==
    ASSUME NEW loc \in Locations, IsArchive(loc), NEW p \in Profiles
    PROVE  Uses(Base(loc), p) <=> Uses(loc, p)
<1> DEFINE m == Len(loc)
<1>1. loc \in Seq(Profiles \cup {Zip}) /\ m \in Nat /\ \A i \in 1..m : loc[i] \in Profiles \cup {Zip}
  BY LocationFacts, ElementOfSeq
<1>2. loc # Local /\ loc[m] = Zip  BY DEF IsArchive
<1>3. m # 0  BY <1>1, <1>2, EmptySeq DEF Local
<1> HIDE DEF m
<1>4. /\ SubSeq(loc, 1, m - 1) \in Seq(Profiles \cup {Zip})
      /\ Len(SubSeq(loc, 1, m - 1)) = m - 1
      /\ \A i \in 1..(m - 1) : SubSeq(loc, 1, m - 1)[i] = loc[i]
  BY <1>1, <1>3, SubSeqProperties
<1> DEFINE b == SubSeq(loc, 1, m - 1)
<1>5. CASE m = 1
  <2>1. Len(SubSeq(loc, 1, m - 1)) = 0  BY <1>4, <1>5
  <2>2. SubSeq(loc, 1, m - 1) = Local  BY <1>4, <2>1, EmptySeq DEF Local
  <2>3. p # Zip  BY ProfilesAssumption DEF Zip
  <2> QED  BY <1>2, <1>5, <2>2, <2>3 DEF Base, Uses, m
<1>6. CASE m # 1
  <2>1. m - 1 >= 1 /\ 1 \in 1..(m - 1)  BY <1>1, <1>3, <1>6
  <2>2. SubSeq(loc, 1, m - 1)[1] = loc[1]  BY <2>1, <1>4
  <2>3. Len(<< >>) = 0  OBVIOUS
  <2>4. b # Local
    <3>1. Len(b) = m - 1  BY <1>4
    <3> HIDE DEF b
    <3>2. Len(b) # Len(<< >>)  BY <2>1, <2>3, <3>1, <1>1
    <3> QED  BY <3>2 DEF Local
  <2> QED  BY <1>2, <2>2, <2>4 DEF Base, Uses, m
<1> QED  BY <1>5, <1>6

LEMMA ArchiveFacts ==
    ASSUME NEW loc \in Locations
    PROVE  /\ IsArchive(Archive(loc)) /\ Base(Archive(loc)) = loc
           /\ Archive(loc) # Local
<1> DEFINE m == Len(loc)  S == Profiles \cup {Zip}
<1>1. loc \in Seq(S) /\ m \in Nat  BY LocationFacts
<1>2. /\ Append(loc, Zip) \in Seq(S) /\ Append(loc, Zip) # << >>
      /\ Len(Append(loc, Zip)) = m + 1
      /\ \A i \in 1..m : Append(loc, Zip)[i] = loc[i]
      /\ Append(loc, Zip)[m + 1] = Zip
  BY <1>1, AppendProperties
<1> DEFINE a == Append(loc, Zip)
<1>3. loc \in Seq(S) /\ Len(loc) = m  BY <1>1
<1> HIDE DEF m, a, S
<1>4. /\ SubSeq(a, 1, m) \in Seq(S) /\ Len(SubSeq(a, 1, m)) = m
      /\ \A i \in 1..m : SubSeq(a, 1, m)[i] = a[i]
  <2>1. \A i \in 1..m : a[i] \in S
    <3>1. \A i \in 1..m : loc[i] \in S  BY <1>3, <1>1, ElementOfSeq
    <3> QED  BY <3>1, <1>2 DEF a
  <2>2. 1 \in Int /\ m \in Int /\ (IF 1 <= m THEN m - 1 + 1 ELSE 0) = m  BY <1>1
  <2>3. /\ SubSeq(a, 1, m) \in Seq(S)
        /\ Len(SubSeq(a, 1, m)) = IF 1 <= m THEN m - 1 + 1 ELSE 0
        /\ \A i \in 1..(m - 1 + 1) : SubSeq(a, 1, m)[i] = a[1 + i - 1]
    BY <2>1, <2>2, SubSeqProperties
  <2>4. \A i \in 1..m : i \in 1..(m - 1 + 1) /\ 1 + i - 1 = i  BY <1>1
  <2> QED  BY <2>2, <2>3, <2>4
<1>5. SubSeq(a, 1, m) = loc  BY <1>2, <1>3, <1>4, SeqEqual DEF a
<1>6. Len(a) - 1 = m /\ a[Len(a)] = Zip /\ a # << >>  BY <1>1, <1>2 DEF a
<1> QED  BY <1>5, <1>6 DEF IsArchive, Base, Archive, Local, a

LEMMA UsesOne ==
    ASSUME NEW loc, NEW p, NEW q, Uses(loc, p), Uses(loc, q)
    PROVE  p = q
BY DEF Uses

\* The glyph of a location is the finding about the profile it uses, if any.
LEMMA QuicIs ==
    ASSUME NEW loc, NEW after
    PROVE  /\ QuicAvailable(loc, after) \in BOOLEAN
           /\ \A p \in Profiles : Uses(loc, p) => QuicAvailable(loc, after) = (after[p] = "agent")
           /\ (\A p \in Profiles : ~Uses(loc, p)) => QuicAvailable(loc, after) = FALSE
BY DEF QuicAvailable, Uses

LEMMA ProbedIs ==
    ASSUME RegistryType, NEW p \in Profiles, NEW found \in Findings
    PROVE  /\ Probed(p, found) \in [Profiles -> {"none", "unprobed"} \cup Findings]
           /\ Probed(p, found)[p] # "unprobed"
           /\ \A q \in Profiles : /\ remotes[q] # "none" <=> Probed(p, found)[q] # "none"
                                  /\ remotes[q] # "unprobed" => Probed(p, found)[q] = remotes[q]
                                  /\ q # p => Probed(p, found)[q] = remotes[q]
BY DEF RegistryType, Probed, Findings

-----------------------------------------------------------------------------
(* Places, tasks and jobs have their types.                                *)

LEMMA PlacesAre ==
    /\ \A loc \in Locations, d \in Dirs : [loc |-> loc, dir |-> d] \in Places
    /\ \A loc \in Locations : Root(loc) \in Places /\ Root(loc).loc = loc
    /\ \A pl \in Places : pl.loc \in Locations /\ pl.dir \in Dirs /\ pl # Nowhere
BY DEF Places, Root, Dirs, Nowhere

LEMMA TasksAre ==
    /\ NoTask \in Tasks
    /\ \A t \in Tasks : /\ t.op \in Ops \cup {"none"} /\ t.items \in Places \cup {Nowhere}
                        /\ t.src \in Places \cup {Nowhere} /\ t.dst \in Places \cup {Nowhere}
                        /\ t.side \in Sides
BY DEF Tasks, NoTask, Sides

LEMMA TaskIs ==
    ASSUME ModeType, NEW op \in Ops, NEW items \in Places \cup {Nowhere},
           NEW src \in Places \cup {Nowhere}, NEW dst \in Places \cup {Nowhere}
    PROVE  /\ Task(op, items, src, dst) \in Tasks
           /\ Task(op, items, src, dst).op = op /\ Task(op, items, src, dst).items = items
           /\ Task(op, items, src, dst).src = src /\ Task(op, items, src, dst).dst = dst
           /\ Task(op, items, src, dst).side = active
BY DEF Tasks, Task, ModeType

LEMMA NoJobIs ==
    /\ NoJob \in JobSet /\ NoJob.st = "none" /\ NoJob.task = NoTask
    /\ NoJob.task.op = "none"
<1>1. NoTask \in Tasks /\ NoTask.op = "none"  BY TasksAre DEF NoTask
<1> QED  BY <1>1 DEF NoJob, JobSet

LEMMA SpawnedIs ==
    ASSUME ManagerType, NEW task \in Tasks, nextId < MaxJobs
    PROVE  /\ nextId \in Ids
           /\ Spawned(task) \in [Ids -> JobSet]
           /\ Spawned(task)[nextId].task = task /\ Spawned(task)[nextId].st = "running"
           /\ \A j \in Ids : j # nextId => Spawned(task)[j] = jobs[j]
<1>1. nextId \in Ids  BY BoundsAssumption DEF ManagerType, Ids
<1>2. NoJob \in JobSet  BY NoJobIs
<1>3. /\ [NoJob EXCEPT !.task = task, !.st = "running"] \in JobSet
      /\ [NoJob EXCEPT !.task = task, !.st = "running"].task = task
      /\ [NoJob EXCEPT !.task = task, !.st = "running"].st = "running"
  BY <1>2 DEF JobSet
<1>4. jobs \in [Ids -> JobSet]  BY DEF ManagerType
<1> QED  BY <1>1, <1>2, <1>3, <1>4 DEF Spawned

LEMMA JobsAre ==
    ASSUME ManagerType, NEW j \in Ids
    PROVE  /\ jobs[j] \in JobSet /\ jobs[j].task \in Tasks
           /\ jobs[j].st \in {"none", "running", "done", "ended"}
BY DEF ManagerType, JobSet

LEMMA StepIs ==
    ASSUME ManagerType, NEW j \in Ids, NEW st \in {"none", "running", "done", "ended"}
    PROVE  /\ Step(j, st) \in [Ids -> JobSet]
           /\ Step(j, st)[j].st = st /\ Step(j, st)[j].task = jobs[j].task
           /\ \A k \in Ids : k # j => Step(j, st)[k] = jobs[k]
<1>1. jobs \in [Ids -> JobSet] /\ jobs[j] \in JobSet  BY DEF ManagerType
<1>2. [jobs[j] EXCEPT !.st = st] \in JobSet /\ [jobs[j] EXCEPT !.st = st].st = st
      /\ [jobs[j] EXCEPT !.st = st].task = jobs[j].task
  BY <1>1 DEF JobSet
<1>3. Step(j, st) = [jobs EXCEPT ![j] = [jobs[j] EXCEPT !.st = st]]  BY DEF Step
<1> QED  BY <1>1, <1>2, <1>3

-----------------------------------------------------------------------------
(* The event channel.                                                      *)

LEMMA TailEvents ==
    ASSUME events \in Seq(Event), events # << >>, events' = Tail(events)
    PROVE  /\ events' \in Seq(Event) /\ 1 \in DOMAIN events /\ events[1] = Head(events)
           /\ Head(events) \in Event
           /\ \A i \in DOMAIN events' : i \in Nat /\ i + 1 \in DOMAIN events /\ events'[i] = events[i + 1]
           /\ \A i \in DOMAIN events : i # 1 => i - 1 \in DOMAIN events' /\ events'[i - 1] = events[i]
           /\ \A i \in DOMAIN events : i \in Nat /\ i >= 1
<1> DEFINE m == Len(events)
<1>1. m \in Nat /\ DOMAIN events = 1..m  BY LenProperties
<1>2. /\ Head(events) \in Event /\ events' \in Seq(Event) /\ Len(events') = m - 1
      /\ \A i \in 1..Len(events') : events'[i] = events[i + 1]
  BY HeadTailProperties
<1>3. DOMAIN events' = 1..(m - 1)  BY <1>2, LenProperties
<1>4. m # 0  BY EmptySeq
<1>5. events[1] = Head(events)  OBVIOUS
<1> HIDE DEF m
<1>6. 1 \in 1..m  BY <1>1, <1>4
<1>7. \A i \in 1..(m - 1) : i \in Nat /\ i + 1 \in 1..m  BY <1>1
<1>8. \A i \in 1..m : i # 1 => i - 1 \in 1..(m - 1) /\ (i - 1) + 1 = i  BY <1>1
<1>9. \A i \in 1..m : i \in Nat /\ i >= 1  BY <1>1
<1>10. \A i \in 1..m : i # 1 => events'[i - 1] = events[i]  BY <1>2, <1>8
<1> QED  BY <1>1, <1>2, <1>3, <1>5, <1>6, <1>7, <1>8, <1>9, <1>10

LEMMA AppendEvents ==
    ASSUME events \in Seq(Event), NEW e \in Event, events' = Append(events, e)
    PROVE  /\ events' \in Seq(Event)
           /\ \E n \in Nat :
                 /\ DOMAIN events' = DOMAIN events \cup {n} /\ n \notin DOMAIN events
                 /\ events'[n] = e /\ \A i \in DOMAIN events : events'[i] = events[i]
<1> DEFINE m == Len(events)
<1>1. m \in Nat /\ DOMAIN events = 1..m  BY LenProperties
<1>2. /\ events' \in Seq(Event) /\ Len(events') = m + 1
      /\ \A i \in 1..m : events'[i] = events[i] /\ events'[m + 1] = e
  <2>1. /\ Append(events, e) \in Seq(Event) /\ Len(Append(events, e)) = Len(events) + 1
        /\ \A i \in 1..Len(events) : Append(events, e)[i] = events[i]
    BY AppendProperties
  <2> QED  BY <2>1, AppendProperties
<1>3. DOMAIN events' = 1..(m + 1)  BY <1>2, LenProperties
<1>4. events'[m + 1] = e  BY AppendProperties
<1> HIDE DEF m
<1>5. 1..(m + 1) = 1..m \cup {m + 1} /\ m + 1 \notin 1..m /\ m + 1 \in Nat  BY <1>1
<1> QED  BY <1>1, <1>2, <1>3, <1>4, <1>5

\* The head goes; it is the Finished event of a job that is empty afterwards.
LEMMA ChannelReaps ==
    ASSUME events \in Seq(Event), EventsOK, events # << >>, Head(events).kind = "finished",
           events' = Tail(events), jobs'[J].st = "none",
           \A j \in Ids : j # J => (jobs'[j].st = "ended" <=> jobs[j].st = "ended")
    PROVE  /\ J \in Ids /\ jobs[J].st = "ended" /\ events' \in Seq(Event) /\ EventsOK'
           /\ 1 \in DOMAIN events /\ IsFinished(1, J) /\ events[1] = Head(events)
           /\ \A j \in Ids, i \in DOMAIN events' : IsFinished(i, j)' =>
                 j # J /\ \E k \in DOMAIN events : IsFinished(k, j) /\ events[k] = events'[i]
           /\ \A j \in Ids, i \in DOMAIN events : IsFinished(i, j) /\ j # J =>
                 \E k \in DOMAIN events' : IsFinished(k, j)' /\ events'[k] = events[i]
<1>1. /\ events' \in Seq(Event) /\ 1 \in DOMAIN events /\ events[1] = Head(events)
      /\ Head(events) \in Event
      /\ \A i \in DOMAIN events' : i \in Nat /\ i + 1 \in DOMAIN events /\ events'[i] = events[i + 1]
      /\ \A i \in DOMAIN events : i # 1 => i - 1 \in DOMAIN events' /\ events'[i - 1] = events[i]
      /\ \A i \in DOMAIN events : i \in Nat /\ i >= 1
  BY TailEvents
<1>2. J \in Ids  BY <1>1 DEF J, Event
<1>3. IsFinished(1, J)  BY <1>1 DEF IsFinished, J
<1>4. jobs[J].st = "ended"  BY <1>1, <1>2, <1>3 DEF EventsOK
<1>5. ASSUME NEW j \in Ids, NEW i \in DOMAIN events', IsFinished(i, j)'
      PROVE  /\ i \in Nat /\ i + 1 \in DOMAIN events /\ IsFinished(i + 1, j)
             /\ events[i + 1] = events'[i] /\ j # J
  <2>1. i \in Nat /\ i + 1 \in DOMAIN events /\ events[i + 1] = events'[i]  BY <1>1
  <2>2. IsFinished(i + 1, j)  BY <2>1, <1>5 DEF IsFinished
  <2>3. i + 1 # 1  BY <2>1, <1>1
  <2>4. j # J  BY <2>1, <2>2, <2>3, <1>1, <1>2, <1>3 DEF EventsOK
  <2> QED  BY <2>1, <2>2, <2>4
<1>6. \A i \in DOMAIN events', j \in Ids : IsFinished(i, j)' => jobs'[j].st = "ended"
  BY <1>5 DEF EventsOK
<1>7. \A i, k \in DOMAIN events', j \in Ids : IsFinished(i, j)' /\ IsFinished(k, j)' => i = k
  <2> SUFFICES ASSUME NEW i \in DOMAIN events', NEW k \in DOMAIN events', NEW j \in Ids,
                      IsFinished(i, j)', IsFinished(k, j)'
               PROVE  i = k
    OBVIOUS
  <2>1. /\ i \in Nat /\ i + 1 \in DOMAIN events /\ IsFinished(i + 1, j)
        /\ k \in Nat /\ k + 1 \in DOMAIN events /\ IsFinished(k + 1, j)
    BY <1>5
  <2>2. i + 1 = k + 1  BY <2>1 DEF EventsOK
  <2> QED  BY <2>1, <2>2
<1>8. \A j \in Ids : jobs'[j].st = "ended" => \E i \in DOMAIN events' : IsFinished(i, j)'
  <2> SUFFICES ASSUME NEW j \in Ids, jobs'[j].st = "ended"
               PROVE  \E i \in DOMAIN events' : IsFinished(i, j)'
    OBVIOUS
  <2>1. j # J /\ jobs[j].st = "ended"  OBVIOUS
  <2>2. PICK i \in DOMAIN events : IsFinished(i, j)  BY <2>1 DEF EventsOK
  <2>3. i # 1  BY <2>1, <2>2, <1>3 DEF IsFinished
  <2>4. i - 1 \in DOMAIN events' /\ events'[i - 1] = events[i]  BY <2>3, <1>1
  <2>5. IsFinished(i - 1, j)'  BY <2>2, <2>4 DEF IsFinished
  <2> QED  BY <2>4, <2>5
<1>9. ASSUME NEW j \in Ids, NEW i \in DOMAIN events, IsFinished(i, j), j # J
      PROVE  \E k \in DOMAIN events' : IsFinished(k, j)' /\ events'[k] = events[i]
  <2>1. i # 1  BY <1>3, <1>9 DEF IsFinished
  <2>2. i - 1 \in DOMAIN events' /\ events'[i - 1] = events[i]  BY <2>1, <1>1
  <2>3. IsFinished(i - 1, j)'  BY <1>9, <2>2 DEF IsFinished
  <2> QED  BY <2>2, <2>3
<1> QED  BY <1>1, <1>2, <1>3, <1>4, <1>5, <1>6, <1>7, <1>8, <1>9 DEF EventsOK

\* The head goes; it is a progress event.
LEMMA ChannelDrops ==
    ASSUME events \in Seq(Event), EventsOK, events # << >>, Head(events).kind = "progress",
           events' = Tail(events), jobs' = jobs
    PROVE  /\ events' \in Seq(Event) /\ EventsOK'
           /\ \A j \in Ids, i \in DOMAIN events' : IsFinished(i, j)' =>
                 \E k \in DOMAIN events : IsFinished(k, j) /\ events[k] = events'[i]
           /\ \A j \in Ids, i \in DOMAIN events : IsFinished(i, j) =>
                 \E k \in DOMAIN events' : IsFinished(k, j)' /\ events'[k] = events[i]
<1>1. /\ events' \in Seq(Event) /\ 1 \in DOMAIN events /\ events[1] = Head(events)
      /\ \A i \in DOMAIN events' : i \in Nat /\ i + 1 \in DOMAIN events /\ events'[i] = events[i + 1]
      /\ \A i \in DOMAIN events : i # 1 => i - 1 \in DOMAIN events' /\ events'[i - 1] = events[i]
  BY TailEvents
<1>2. ASSUME NEW j \in Ids, NEW i \in DOMAIN events', IsFinished(i, j)'
      PROVE  /\ i \in Nat /\ i + 1 \in DOMAIN events /\ IsFinished(i + 1, j)
             /\ events[i + 1] = events'[i]
  BY <1>1, <1>2 DEF IsFinished
<1>3. \A i \in DOMAIN events', j \in Ids : IsFinished(i, j)' => jobs'[j].st = "ended"
  BY <1>2 DEF EventsOK
<1>4. \A i, k \in DOMAIN events', j \in Ids : IsFinished(i, j)' /\ IsFinished(k, j)' => i = k
  <2> SUFFICES ASSUME NEW i \in DOMAIN events', NEW k \in DOMAIN events', NEW j \in Ids,
                      IsFinished(i, j)', IsFinished(k, j)'
               PROVE  i = k
    OBVIOUS
  <2>1. /\ i \in Nat /\ i + 1 \in DOMAIN events /\ IsFinished(i + 1, j)
        /\ k \in Nat /\ k + 1 \in DOMAIN events /\ IsFinished(k + 1, j)
    BY <1>2
  <2>2. i + 1 = k + 1  BY <2>1 DEF EventsOK
  <2> QED  BY <2>1, <2>2
<1>5. \A j \in Ids : jobs'[j].st = "ended" => \E i \in DOMAIN events' : IsFinished(i, j)'
  <2> SUFFICES ASSUME NEW j \in Ids, jobs[j].st = "ended"
               PROVE  \E i \in DOMAIN events' : IsFinished(i, j)'
    OBVIOUS
  <2>1. PICK i \in DOMAIN events : IsFinished(i, j)  BY DEF EventsOK
  <2>2. i # 1  BY <2>1, <1>1 DEF IsFinished
  <2>3. i - 1 \in DOMAIN events' /\ events'[i - 1] = events[i]  BY <2>2, <1>1
  <2>4. IsFinished(i - 1, j)'  BY <2>1, <2>3 DEF IsFinished
  <2> QED  BY <2>3, <2>4
<1>6. ASSUME NEW j \in Ids, NEW i \in DOMAIN events, IsFinished(i, j)
      PROVE  \E k \in DOMAIN events' : IsFinished(k, j)' /\ events'[k] = events[i]
  <2>1. i # 1  BY <1>1, <1>6 DEF IsFinished
  <2>2. i - 1 \in DOMAIN events' /\ events'[i - 1] = events[i]  BY <2>1, <1>1
  <2>3. IsFinished(i - 1, j)'  BY <1>6, <2>2 DEF IsFinished
  <2> QED  BY <2>2, <2>3
<1> QED  BY <1>1, <1>2, <1>3, <1>4, <1>5, <1>6 DEF EventsOK

\* A job that runs sends a progress event, or ends and sends its Finished event.
LEMMA ChannelGrows ==
    ASSUME events \in Seq(Event), EventsOK, NEW j \in Ids, jobs[j].st # "ended",
           NEW e \in Event, e.job = j, events' = Append(events, e),
           jobs'[j].st = "ended" <=> e.kind = "finished",
           \A k \in Ids : k # j => (jobs'[k].st = "ended" <=> jobs[k].st = "ended")
    PROVE  /\ events' \in Seq(Event) /\ EventsOK'
           /\ \A k \in Ids, i \in DOMAIN events' : IsFinished(i, k)' =>
                 \/ i \in DOMAIN events /\ IsFinished(i, k) /\ events[i] = events'[i]
                 \/ k = j /\ events'[i] = e
           /\ \A k \in Ids, i \in DOMAIN events : IsFinished(i, k) =>
                 i \in DOMAIN events' /\ IsFinished(i, k)' /\ events'[i] = events[i]
           /\ \E i \in DOMAIN events' : events'[i] = e
<1>1. events' \in Seq(Event)  BY AppendEvents
<1>2. PICK n \in Nat :
        /\ DOMAIN events' = DOMAIN events \cup {n} /\ n \notin DOMAIN events
        /\ events'[n] = e /\ \A i \in DOMAIN events : events'[i] = events[i]
  BY AppendEvents
<1>3. \A i \in DOMAIN events, k \in Ids : IsFinished(i, k)' <=> IsFinished(i, k)
  BY <1>2 DEF IsFinished
<1>4. \A k \in Ids : IsFinished(n, k)' <=> k = j /\ e.kind = "finished"
  BY <1>2 DEF IsFinished
<1>5. \A i \in DOMAIN events : ~IsFinished(i, j)  BY DEF EventsOK
<1>6. \A i \in DOMAIN events', k \in Ids : IsFinished(i, k)' => jobs'[k].st = "ended"
  BY <1>2, <1>3, <1>4, <1>5 DEF EventsOK
<1>7. \A i, l \in DOMAIN events', k \in Ids : IsFinished(i, k)' /\ IsFinished(l, k)' => i = l
  BY <1>2, <1>3, <1>4, <1>5 DEF EventsOK
<1>8. \A k \in Ids : jobs'[k].st = "ended" => \E i \in DOMAIN events' : IsFinished(i, k)'
  BY <1>2, <1>3, <1>4 DEF EventsOK
<1>9. \A k \in Ids, i \in DOMAIN events' : IsFinished(i, k)' =>
        \/ i \in DOMAIN events /\ IsFinished(i, k) /\ events[i] = events'[i]
        \/ k = j /\ events'[i] = e
  BY <1>2, <1>3, <1>4
<1>10. /\ \A k \in Ids, i \in DOMAIN events : IsFinished(i, k) =>
             i \in DOMAIN events' /\ IsFinished(i, k)' /\ events'[i] = events[i]
       /\ \E i \in DOMAIN events' : events'[i] = e
  BY <1>2, <1>3
<1> QED  BY <1>1, <1>6, <1>7, <1>8, <1>9, <1>10 DEF EventsOK

\* Jobs come and go without an end: the channel keeps what it says of the ended ones.
LEMMA ChannelSame ==
    ASSUME events' = events, EventsOK,
           \A j \in Ids : jobs'[j].st = "ended" <=> jobs[j].st = "ended"
    PROVE  EventsOK' /\ \A j \in Ids : \A i : IsFinished(i, j)' <=> IsFinished(i, j)
BY DEF EventsOK, IsFinished

-----------------------------------------------------------------------------
(* What is in place stays in place.                                        *)

Grows ==
    /\ RegistryType' /\ archives \subseteq archives'
    /\ \A p \in Profiles : remotes[p] # "none" => remotes'[p] # "none"

LEMMA GrowsSame == RegistryType /\ UNCHANGED registry => Grows
BY DEF Grows, RegistryType, registry

LEMMA GrowsProbed ==
    ASSUME RegistryType, NEW p \in Profiles, NEW found \in Findings,
           remotes' = Probed(p, found), archives' = archives
    PROVE  Grows
<1>1. /\ Probed(p, found) \in [Profiles -> {"none", "unprobed"} \cup Findings]
      /\ \A q \in Profiles : remotes[q] # "none" => Probed(p, found)[q] # "none"
  BY ProbedIs
<1> QED  BY <1>1 DEF Grows, RegistryType

LEMMA ResolvesStays ==
    ASSUME Grows, NEW loc, Resolves(loc)
    PROVE  Resolves(loc)'
BY DEF Grows, Resolves, IsRemote

LEMMA NestingStays ==
    ASSUME Grows, NestingOK, archives' = archives
    PROVE  NestingOK'
BY ResolvesStays DEF NestingOK

LEMMA LeadsTo ==
    ASSUME NEW task, Leads(task), task.op \in {"connect", "warm"}
    PROVE  \E p \in Profiles : /\ task.dst = Root(Remote(p)) /\ task.dst.loc = Remote(p)
                               /\ task.dst.loc[1] = p /\ task.dst.loc # Local
<1>1. PICK p \in Profiles : task.dst = Root(Remote(p))  BY DEF Leads
<1>2. Root(Remote(p)).loc = Remote(p)  BY DEF Root
<1> QED  BY <1>1, <1>2, RemoteFacts

LEMMA LandedStays ==
    ASSUME Grows, NEW j \in Ids, Leads(jobs[j].task), jobs'[j].task = jobs[j].task,
           plans'[j] = plans[j], Landed(j)
    PROVE  Landed(j)'
<1>1. jobs'[j].task.op = "connect" => remotes'[jobs'[j].task.dst.loc[1]] # "none"
  <2> SUFFICES ASSUME jobs[j].task.op = "connect"
               PROVE  remotes'[jobs[j].task.dst.loc[1]] # "none"
    OBVIOUS
  <2>1. jobs[j].task.dst.loc[1] \in Profiles  BY LeadsTo
  <2> QED  BY <2>1 DEF Landed, Grows
<1>2. jobs'[j].task.op = "archive" => jobs'[j].task.dst.loc \in archives'  BY DEF Landed, Grows
<1>3. jobs'[j].task.op = "scan" => plans'[j] # "none"  BY DEF Landed
<1> QED  BY <1>1, <1>2, <1>3 DEF Landed

LEMMA SucceededBusy ==
    ASSUME EventsOK, NEW j \in Ids, Succeeded(j)
    PROVE  jobs[j].st \in {"done", "ended"}
BY DEF EventsOK, Succeeded

LEMMA ResultsStay ==
    ASSUME JobsInv, Grows, NEW j \in Ids, Succeeded(j),
           jobs'[j].task = jobs[j].task, plans'[j] = plans[j]
    PROVE  Landed(j)'
<1>1. jobs[j].st # "none"  BY SucceededBusy DEF JobsInv
<1>2. Leads(jobs[j].task) /\ Landed(j)  BY <1>1 DEF JobsInv, SlotsOK, ResultsOK
<1> QED  BY <1>2, LandedStays

\* Jobs go on; none starts and none goes away.
LEMMA SlotsStay ==
    ASSUME JobsInv, jobs' \in [Ids -> JobSet], UNCHANGED <<loop, mode, active, nextId, background>>,
           \A j \in Ids : /\ jobs'[j].task = jobs[j].task
                          /\ jobs'[j].st = "none" <=> jobs[j].st = "none"
                          /\ jobs[j].st = "none" => jobs'[j] = jobs[j]
    PROVE  /\ ModeType' /\ SlotsOK' /\ AsksOK' /\ OneJob'
           /\ background' \subseteq {j \in Ids : jobs'[j].task.op = "warm"}
<1>1. ModeType'  BY DEF JobsInv, ModeType
<1>2. SlotsOK'  BY DEF JobsInv, SlotsOK, Leads
<1>3. AsksOK'  BY DEF JobsInv, AsksOK
<1>4. mode.is = "progress" => mode.job \in Ids  BY BoundsAssumption DEF JobsInv, ModeType, NoId, Ids
<1>5. OneJob'
  <2>1. ASSUME mode.is = "progress"
        PROVE  /\ nextId' < MaxJobs /\ mode'.job \notin background'
               /\ jobs'[mode'.job].st # "none" /\ jobs'[mode'.job].task = mode'.task
    BY <2>1, <1>4 DEF JobsInv, OneJob
  <2>2. \A j \in Ids : jobs'[j].st # "none" /\ j \notin background' =>
          mode'.is = "progress" /\ mode'.job = j
    BY DEF JobsInv, OneJob
  <2> QED  BY <2>1, <2>2 DEF OneJob
<1>6. background' \subseteq {j \in Ids : jobs'[j].task.op = "warm"}
  BY DEF JobsInv, ManagerType
<1> QED  BY <1>1, <1>2, <1>3, <1>5, <1>6

-----------------------------------------------------------------------------
(* The steps keep JobsInv.                                                 *)

LEMMA JobsUnchanged ==
    ASSUME JobsInv, UNCHANGED <<loop, mode, active, registry, manager, events, background, plans>>
    PROVE  JobsInv'
<1>1. ModeType' /\ RegistryType' /\ ManagerType'
  BY DEF JobsInv, ModeType, RegistryType, ManagerType, registry, manager
<1>2. SlotsOK'  BY DEF JobsInv, SlotsOK, Leads, manager
<1>3. AsksOK' /\ OneJob'  BY DEF JobsInv, AsksOK, OneJob, manager
<1>4. EventsOK'  BY DEF JobsInv, EventsOK, IsFinished, manager
<1>5. ResultsOK'  BY DEF JobsInv, ResultsOK, Succeeded, Landed, IsFinished, manager, registry
<1>6. NestingOK'  BY DEF JobsInv, NestingOK, Resolves, registry
<1> QED  BY <1>1, <1>2, <1>3, <1>4, <1>5, <1>6 DEF JobsInv

\* A key press that starts no job, while none of the user's runs.
Quiet ==
    /\ mode.is # "progress" /\ mode'.is # "progress" /\ ModeType' /\ AsksOK'
    /\ UNCHANGED <<registry, manager, events, background, plans>>

LEMMA QuietKeepsJobs ==
    ASSUME JobsInv, Quiet
    PROVE  JobsInv'
<1>1. ModeType' /\ RegistryType' /\ ManagerType' /\ AsksOK'
  BY DEF JobsInv, Quiet, RegistryType, ManagerType, registry, manager
<1>2. SlotsOK'  BY DEF JobsInv, Quiet, SlotsOK, Leads, manager
<1>3. OneJob'  BY DEF JobsInv, Quiet, OneJob, manager
<1>4. EventsOK'  BY DEF JobsInv, Quiet, EventsOK, IsFinished, manager
<1>5. ResultsOK'  BY DEF JobsInv, Quiet, ResultsOK, Succeeded, Landed, IsFinished, manager, registry
<1>6. NestingOK'  BY DEF JobsInv, Quiet, NestingOK, Resolves, registry
<1> QED  BY <1>1, <1>2, <1>3, <1>4, <1>5, <1>6 DEF JobsInv

\* A command's task is about what the panels show.
Matches(task) ==
    /\ task.side = active
    /\ task.items # Nowhere => task.items = Here
    /\ task.src # Nowhere => task.src = Here
    /\ task.op \in {"copy", "move", "scan", "sync"} /\ task.dst # Nowhere => task.dst = There

\* A delete that has to be confirmed, and a sync, is what the dialog asked about.
Approved(task) ==
    task.op = "sync" \/ (ConfirmDelete /\ task.op = "delete") =>
        mode.is = "confirm" /\ mode.task.op = task.op /\ mode.task.items = task.items

\* A job takes over the mode.
Starts(task) ==
    /\ loop = "on" /\ mode.is # "progress" /\ task.op # "warm" /\ Leads(task)
    /\ Matches(task) /\ Approved(task) /\ Spawn(task)
    /\ UNCHANGED <<loop, panels, active, registry, events, background, plans>>

LEMMA NextIsFree ==
    ASSUME JobsInv, nextId < MaxJobs
    PROVE  /\ nextId \in Ids /\ jobs[nextId] = NoJob /\ jobs[nextId].st = "none"
           /\ nextId \notin background
<1>1. nextId \in Ids /\ nextId >= nextId
  BY BoundsAssumption DEF JobsInv, ManagerType, Ids
<1>2. jobs[nextId].st = "none" /\ jobs[nextId] = NoJob  BY <1>1 DEF JobsInv, SlotsOK
<1>3. jobs[nextId].task.op # "warm"  BY <1>2, NoJobIs
<1> QED  BY <1>1, <1>2, <1>3 DEF JobsInv, ManagerType

LEMMA StartsKeepsJobs ==
    ASSUME JobsInv, NEW task \in Tasks, Starts(task)
    PROVE  JobsInv'
<1> DEFINE k == nextId
<1>1. /\ k \in Nat /\ k + 1 < MaxJobs /\ k < MaxJobs /\ nextId' = k + 1 /\ nextId' \in 0..MaxJobs
      /\ jobs' = Spawned(task)
      /\ mode' = [is |-> "progress", task |-> task, job |-> k]
  BY BoundsAssumption DEF JobsInv, ManagerType, Starts, Spawn
<1>2. k \in Ids /\ jobs[k] = NoJob /\ jobs[k].st = "none" /\ k \notin background
  BY <1>1, NextIsFree
<1>3. /\ jobs' \in [Ids -> JobSet] /\ jobs'[k].task = task /\ jobs'[k].st = "running"
      /\ \A j \in Ids : j # k => jobs'[j] = jobs[j]
  BY <1>1, SpawnedIs DEF JobsInv
<1>4. UNCHANGED <<loop, panels, active, remotes, archives, events, background, plans>>
      /\ UNCHANGED registry
  BY DEF Starts, registry
<1> HIDE DEF k
<1>5. ManagerType'
  BY <1>1, <1>2, <1>3, <1>4 DEF JobsInv, ManagerType
<1>6. ModeType'
  <2>1. k # NoId  BY <1>1, BoundsAssumption DEF NoId
  <2> QED  BY <1>1, <1>2, <1>4, <2>1 DEF JobsInv, ModeType
<1>7. SlotsOK'
  <2>1. Leads(task)  BY DEF Starts
  <2>2. \A j \in Ids : j >= k + 1 => j >= k /\ j # k  BY <1>1 DEF Ids
  <2>3. \A j \in Ids : j # k => /\ jobs'[j].st = "none" => jobs'[j] = NoJob
                                /\ j >= nextId' => jobs'[j].st = "none"
                                /\ jobs'[j].st # "none" => Leads(jobs'[j].task)
    BY <1>1, <1>3, <2>2 DEF JobsInv, SlotsOK, k
  <2>4. ~(k >= nextId')  BY <1>1
  <2>5. \A t : Leads(t)' <=> Leads(t)  BY DEF Leads
  <2> QED  BY <1>3, <2>1, <2>3, <2>4, <2>5 DEF SlotsOK
<1>8. AsksOK'  BY <1>1, <1>4 DEF AsksOK, Starts
<1>9. OneJob'
  BY <1>1, <1>2, <1>3, <1>4 DEF JobsInv, OneJob, Starts
<1>10. EventsOK' /\ \A j \in Ids : \A i : IsFinished(i, j)' <=> IsFinished(i, j)
  <2>1. \A j \in Ids : jobs'[j].st = "ended" <=> jobs[j].st = "ended"  BY <1>2, <1>3
  <2> QED  BY <2>1, <1>4, ChannelSame DEF JobsInv
<1>11. Grows /\ RegistryType'  BY <1>4, GrowsSame DEF JobsInv, Grows
<1>12. ASSUME NEW j \in Ids, Succeeded(j)' PROVE Landed(j)'
  <2>1. j # k
    <3>1. ASSUME j = k PROVE FALSE
      <4>1. jobs'[j].st # "done" /\ jobs[j].st = "none"  BY <3>1, <1>2, <1>3
      <4>2. PICK i \in DOMAIN events' : IsFinished(i, j)'  BY <4>1, <1>12 DEF Succeeded
      <4>3. i \in DOMAIN events /\ IsFinished(i, j)  BY <4>2, <1>4, <1>10
      <4> QED  BY <4>1, <4>3 DEF JobsInv, EventsOK
    <3> QED  BY <3>1
  <2>2. Succeeded(j)  BY <1>12, <1>3, <1>4, <1>10, <2>1 DEF Succeeded
  <2> QED  BY <2>1, <2>2, <1>3, <1>4, <1>11, ResultsStay
<1>13. NestingOK'  BY <1>4, <1>11, NestingStays DEF JobsInv
<1> QED  BY <1>5, <1>6, <1>7, <1>8, <1>9, <1>10, <1>11, <1>12, <1>13 DEF JobsInv, ResultsOK

LEMMA CancelKeepsJobs ==
    ASSUME JobsInv, CancelKey
    PROVE  JobsInv'
<1>1. /\ mode.is = "progress" /\ jobs[mode.job] # NoJob
      /\ jobs' = [jobs EXCEPT ![mode.job].cancel = TRUE]
      /\ UNCHANGED <<loop, mode, active, remotes, archives, nextId, events, background, plans>>
      /\ UNCHANGED registry
  BY DEF CancelKey, registry
<1>2. mode.job \in Ids  BY <1>1 DEF JobsInv, ModeType
<1>3. /\ jobs' \in [Ids -> JobSet]
      /\ \A j \in Ids : /\ jobs'[j].task = jobs[j].task /\ jobs'[j].st = jobs[j].st
                        /\ j # mode.job => jobs'[j] = jobs[j]
  <2>1. jobs \in [Ids -> JobSet] /\ jobs[mode.job] \in JobSet  BY <1>2 DEF JobsInv, ManagerType
  <2>2. /\ [jobs[mode.job] EXCEPT !.cancel = TRUE] \in JobSet
        /\ [jobs[mode.job] EXCEPT !.cancel = TRUE].st = jobs[mode.job].st
        /\ [jobs[mode.job] EXCEPT !.cancel = TRUE].task = jobs[mode.job].task
    BY <2>1 DEF JobSet
  <2>3. jobs' = [jobs EXCEPT ![mode.job] = [jobs[mode.job] EXCEPT !.cancel = TRUE]]  BY <1>1
  <2> QED  BY <1>2, <2>1, <2>2, <2>3
<1>4. jobs[mode.job].st # "none"  BY <1>1, <1>2 DEF JobsInv, SlotsOK
<1>5. /\ ModeType' /\ SlotsOK' /\ AsksOK' /\ OneJob'
      /\ background' \subseteq {j \in Ids : jobs'[j].task.op = "warm"}
  BY <1>1, <1>3, <1>4, SlotsStay
<1>6. ManagerType'  BY <1>1, <1>3, <1>5 DEF JobsInv, ManagerType
<1>7. EventsOK' /\ \A j \in Ids : \A i : IsFinished(i, j)' <=> IsFinished(i, j)
  BY <1>1, <1>3, ChannelSame DEF JobsInv
<1>8. Grows /\ RegistryType'  BY <1>1, GrowsSame DEF JobsInv, Grows
<1>9. ASSUME NEW j \in Ids, Succeeded(j)' PROVE Landed(j)'
  <2>1. Succeeded(j)  BY <1>9, <1>1, <1>3, <1>7 DEF Succeeded
  <2> QED  BY <2>1, <1>1, <1>3, <1>8, ResultsStay
<1>10. NestingOK'  BY <1>1, <1>8, NestingStays DEF JobsInv
<1> QED  BY <1>5, <1>6, <1>7, <1>8, <1>9, <1>10 DEF JobsInv, ResultsOK

LEMMA ProbesKeepJobs ==
    ASSUME JobsInv, NEW j \in Ids, JobProbes(j)
    PROVE  Grows /\ JobsInv'
<1>1. UNCHANGED <<loop, mode, active, archives, jobs, nextId, events, background, plans>>
  BY DEF JobProbes, manager
<1>2. PICK p \in Profiles, found \in Findings : remotes' = Probed(p, found)  BY DEF JobProbes
<1>3. Grows /\ RegistryType'  BY <1>1, <1>2, GrowsProbed DEF JobsInv, Grows
<1>4. ModeType' /\ ManagerType' /\ AsksOK' /\ OneJob'
  BY <1>1 DEF JobsInv, ModeType, ManagerType, AsksOK, OneJob
<1>5. SlotsOK' /\ EventsOK'  BY <1>1 DEF JobsInv, SlotsOK, Leads, EventsOK, IsFinished
<1>6. ASSUME NEW k \in Ids, Succeeded(k)' PROVE Landed(k)'
  <2>1. Succeeded(k)  BY <1>6, <1>1 DEF Succeeded, IsFinished
  <2> QED  BY <2>1, <1>1, <1>3, ResultsStay
<1>7. NestingOK'  BY <1>1, <1>3, NestingStays DEF JobsInv
<1> QED  BY <1>3, <1>4, <1>5, <1>6, <1>7 DEF JobsInv, ResultsOK

LEMMA DoneKeepsJobs ==
    ASSUME JobsInv, NEW j \in Ids, JobDone(j)
    PROVE  Grows /\ JobsInv'
<1> DEFINE task == jobs[j].task
<1>1. /\ jobs[j].st = "running" /\ jobs' = Step(j, "done")
      /\ UNCHANGED <<loop, mode, panels, active, nextId, events, background>>
  BY DEF JobDone, Running
<1>2. /\ jobs' \in [Ids -> JobSet] /\ jobs'[j].st = "done" /\ jobs'[j].task = jobs[j].task
      /\ \A k \in Ids : k # j => jobs'[k] = jobs[k]
  BY <1>1, StepIs DEF JobsInv
<1>3. /\ ModeType' /\ SlotsOK' /\ AsksOK' /\ OneJob'
      /\ background' \subseteq {k \in Ids : jobs'[k].task.op = "warm"}
  <2>1. \A k \in Ids : /\ jobs'[k].task = jobs[k].task
                       /\ jobs'[k].st = "none" <=> jobs[k].st = "none"
                       /\ jobs[k].st = "none" => jobs'[k] = jobs[k]
    <3> TAKE k \in Ids
    <3>1. CASE k = j  BY <3>1, <1>1, <1>2
    <3>2. CASE k # j  BY <3>2, <1>1, <1>2
    <3> QED  BY <3>1, <3>2
  <2> QED  BY <1>1, <1>2, <2>1, SlotsStay
<1>4. EventsOK' /\ \A k \in Ids : \A i : IsFinished(i, k)' <=> IsFinished(i, k)
  <2>1. \A k \in Ids : jobs'[k].st = "ended" <=> jobs[k].st = "ended"  BY <1>1, <1>2
  <2> QED  BY <2>1, <1>1, ChannelSame DEF JobsInv
<1>5. Leads(task) /\ task \in Tasks  BY <1>1, JobsAre DEF JobsInv, SlotsOK
<1>6. /\ Grows /\ Landed(j)' /\ NestingOK' /\ plans' \in [Ids -> {"none", "empty", "some"}]
      /\ \A k \in Ids : k # j => plans'[k] = plans[k]
  <2>1. CASE /\ task.op = "connect"
             /\ remotes' = [remotes EXCEPT ![task.dst.loc[1]] = "unprobed"]
             /\ UNCHANGED <<archives, plans>>
    <3>1. task.dst.loc[1] \in Profiles  BY <2>1, <1>5, LeadsTo
    <3>2. Grows  BY <2>1, <3>1 DEF JobsInv, RegistryType, Grows
    <3>3. Landed(j)'  BY <2>1, <3>1, <1>2 DEF Landed, JobsInv, RegistryType
    <3>4. NestingOK'  BY <2>1, <3>2, NestingStays DEF JobsInv
    <3> QED  BY <2>1, <3>2, <3>3, <3>4 DEF JobsInv, ManagerType
  <2>2. CASE /\ task.op = "archive" /\ Resolves(task.src.loc)
             /\ archives' = archives \cup {task.dst.loc}
             /\ UNCHANGED <<remotes, plans>>
    <3>1. task.src.loc \in Locations /\ task.dst.loc = Archive(task.src.loc)
      BY <2>2, <1>5 DEF Leads, Root
    <3>2. task.dst.loc \in Locations
      BY <1>5, PlacesAre, TasksAre, LocalFacts DEF Nowhere
    <3>3. Grows  BY <2>2, <3>2 DEF JobsInv, RegistryType, Grows
    <3>4. IsArchive(task.dst.loc) /\ Base(task.dst.loc) = task.src.loc  BY <3>1, ArchiveFacts
    <3>5. ASSUME NEW loc \in archives' PROVE IsArchive(loc) /\ Resolves(Base(loc))'
      <4>1. IsArchive(loc) /\ Resolves(Base(loc))
        BY <2>2, <3>4 DEF JobsInv, NestingOK
      <4> QED  BY <4>1, <3>3, ResolvesStays
    <3>6. NestingOK'  BY <3>5 DEF NestingOK
    <3>7. Landed(j)'  BY <2>2, <1>2 DEF Landed
    <3> QED  BY <2>2, <3>3, <3>6, <3>7 DEF JobsInv, ManagerType
  <2>3. CASE /\ task.op = "scan"
             /\ \E plan \in {"empty", "some"} : plans' = [plans EXCEPT ![j] = plan]
             /\ UNCHANGED <<remotes, archives>>
    <3>1. PICK plan \in {"empty", "some"} : plans' = [plans EXCEPT ![j] = plan]  BY <2>3
    <3>2. /\ plans' \in [Ids -> {"none", "empty", "some"}] /\ plans'[j] # "none"
          /\ \A k \in Ids : k # j => plans'[k] = plans[k]
      BY <3>1 DEF JobsInv, ManagerType
    <3>3. Grows  BY <2>3, GrowsSame DEF JobsInv, registry
    <3>4. Landed(j)'  BY <2>3, <3>2, <1>2 DEF Landed
    <3>5. NestingOK'  BY <2>3, <3>3, NestingStays DEF JobsInv
    <3> QED  BY <3>2, <3>3, <3>4, <3>5
  <2>4. CASE /\ task.op = "warm"
             /\ \E found \in Findings : remotes' = Probed(task.dst.loc[1], found)
             /\ UNCHANGED <<archives, plans>>
    <3>1. task.dst.loc[1] \in Profiles  BY <2>4, <1>5, LeadsTo
    <3>2. PICK found \in Findings : remotes' = Probed(task.dst.loc[1], found)  BY <2>4
    <3>3. Grows  BY <2>4, <3>1, <3>2, GrowsProbed DEF JobsInv
    <3>4. Landed(j)'  BY <2>4, <1>2 DEF Landed
    <3>5. NestingOK'  BY <2>4, <3>3, NestingStays DEF JobsInv
    <3> QED  BY <2>4, <3>3, <3>4, <3>5 DEF JobsInv, ManagerType
  <2> QED  BY <2>1, <2>2, <2>3, <2>4 DEF JobDone
<1> HIDE DEF task
<1>7. ManagerType' /\ RegistryType'
  BY <1>1, <1>2, <1>3, <1>6 DEF JobsInv, ManagerType, Grows
<1>8. ASSUME NEW k \in Ids, Succeeded(k)' PROVE Landed(k)'
  <2>1. CASE k = j  BY <2>1, <1>6
  <2>2. CASE k # j
    <3>1. Succeeded(k)  BY <2>2, <1>8, <1>1, <1>2, <1>4 DEF Succeeded
    <3> QED  BY <2>2, <3>1, <1>2, <1>6, ResultsStay
  <2> QED  BY <2>1, <2>2
<1> QED  BY <1>3, <1>4, <1>6, <1>7, <1>8 DEF JobsInv, ResultsOK

LEMMA ReportsKeepJobs ==
    ASSUME JobsInv, NEW j \in Ids, JobReports(j)
    PROVE  JobsInv'
<1> DEFINE e == [job |-> j, kind |-> "progress", outcome |-> "none"]
<1>1. /\ jobs[j].st = "running" /\ jobs' = [jobs EXCEPT ![j].told = TRUE]
      /\ events' = Append(events, e)
      /\ UNCHANGED <<loop, mode, active, remotes, archives, nextId, background, plans>>
      /\ UNCHANGED registry
  BY DEF JobReports, Running, Send, registry
<1>2. /\ jobs' \in [Ids -> JobSet]
      /\ \A k \in Ids : /\ jobs'[k].task = jobs[k].task /\ jobs'[k].st = jobs[k].st
                        /\ k # j => jobs'[k] = jobs[k]
  <2>1. jobs \in [Ids -> JobSet] /\ jobs[j] \in JobSet  BY DEF JobsInv, ManagerType
  <2>2. /\ [jobs[j] EXCEPT !.told = TRUE] \in JobSet
        /\ [jobs[j] EXCEPT !.told = TRUE].st = jobs[j].st
        /\ [jobs[j] EXCEPT !.told = TRUE].task = jobs[j].task
    BY <2>1 DEF JobSet
  <2>3. jobs' = [jobs EXCEPT ![j] = [jobs[j] EXCEPT !.told = TRUE]]  BY <1>1
  <2> QED  BY <2>1, <2>2, <2>3
<1>3. /\ ModeType' /\ SlotsOK' /\ AsksOK' /\ OneJob'
      /\ background' \subseteq {k \in Ids : jobs'[k].task.op = "warm"}
  BY <1>1, <1>2, SlotsStay
<1>4. e \in Event /\ e.job = j /\ e.kind = "progress"  BY DEF Event
<1> HIDE DEF e
<1>5. /\ events' \in Seq(Event) /\ EventsOK'
      /\ \A k \in Ids, i \in DOMAIN events' : IsFinished(i, k)' =>
            \/ i \in DOMAIN events /\ IsFinished(i, k) /\ events[i] = events'[i]
            \/ k = j /\ events'[i] = e
  BY <1>1, <1>2, <1>4, ChannelGrows DEF JobsInv, ManagerType
<1>6. ManagerType'  BY <1>1, <1>2, <1>3, <1>5 DEF JobsInv, ManagerType
<1>7. Grows /\ RegistryType'  BY <1>1, GrowsSame DEF JobsInv, Grows
<1>8. ASSUME NEW k \in Ids, Succeeded(k)' PROVE Landed(k)'
  <2>1. \A i \in DOMAIN events' : IsFinished(i, k)' =>
          i \in DOMAIN events /\ IsFinished(i, k) /\ events[i] = events'[i]
    BY <1>4, <1>5 DEF IsFinished
  <2>2. Succeeded(k)  BY <1>8, <1>2, <2>1 DEF Succeeded
  <2> QED  BY <2>2, <1>1, <1>2, <1>7, ResultsStay
<1>9. NestingOK'  BY <1>1, <1>7, NestingStays DEF JobsInv
<1> QED  BY <1>3, <1>5, <1>6, <1>7, <1>8, <1>9 DEF JobsInv, ResultsOK

LEMMA EndsKeepJobs ==
    ASSUME JobsInv, NEW j \in Ids, JobEnds(j)
    PROVE  JobsInv'
<1>1. PICK outcome \in Outcomes(j) :
        jobs' = Step(j, "ended") /\ events' = Send(j, "finished", outcome)
  BY DEF JobEnds
<1>2. /\ jobs[j].st \in {"running", "done"}
      /\ UNCHANGED <<loop, mode, active, remotes, archives, nextId, background, plans>>
      /\ UNCHANGED registry
  BY DEF JobEnds, registry
<1>3. /\ outcome \in {"Completed", "Failed", "Cancelled"}
      /\ outcome = "Completed" /\ jobs[j].task.op \in {"connect", "archive", "scan"} =>
            jobs[j].st = "done"
  BY DEF Outcomes, FileOps
<1> DEFINE e == [job |-> j, kind |-> "finished", outcome |-> outcome]
<1>4. e \in Event /\ e.job = j /\ e.kind = "finished" /\ e.outcome = outcome  BY <1>3 DEF Event
<1>5. events' = Append(events, e)  BY <1>1 DEF Send
<1> HIDE DEF e
<1>6. /\ jobs' \in [Ids -> JobSet] /\ jobs'[j].st = "ended" /\ jobs'[j].task = jobs[j].task
      /\ \A k \in Ids : k # j => jobs'[k] = jobs[k]
  BY <1>1, StepIs DEF JobsInv
<1>7. /\ ModeType' /\ SlotsOK' /\ AsksOK' /\ OneJob'
      /\ background' \subseteq {k \in Ids : jobs'[k].task.op = "warm"}
  <2>1. \A k \in Ids : /\ jobs'[k].task = jobs[k].task
                       /\ jobs'[k].st = "none" <=> jobs[k].st = "none"
                       /\ jobs[k].st = "none" => jobs'[k] = jobs[k]
    <3> TAKE k \in Ids
    <3>1. CASE k = j  BY <3>1, <1>2, <1>6
    <3>2. CASE k # j  BY <3>2, <1>2, <1>6
    <3> QED  BY <3>1, <3>2
  <2> QED  BY <1>2, <1>6, <2>1, SlotsStay
<1>8. /\ events' \in Seq(Event) /\ EventsOK'
      /\ \A k \in Ids, i \in DOMAIN events' : IsFinished(i, k)' =>
            \/ i \in DOMAIN events /\ IsFinished(i, k) /\ events[i] = events'[i]
            \/ k = j /\ events'[i] = e
  <2>1. \A k \in Ids : k # j => (jobs'[k].st = "ended" <=> jobs[k].st = "ended")  BY <1>6
  <2>2. jobs[j].st # "ended" /\ events \in Seq(Event) /\ EventsOK
    BY <1>2 DEF JobsInv, ManagerType
  <2> QED  BY <1>4, <1>5, <1>6, <2>1, <2>2, ChannelGrows
<1>9. ManagerType'  BY <1>2, <1>6, <1>7, <1>8 DEF JobsInv, ManagerType
<1>10. Grows /\ RegistryType'  BY <1>2, GrowsSame DEF JobsInv, Grows
<1>11. ASSUME NEW k \in Ids, Succeeded(k)' PROVE Landed(k)'
  <2>1. CASE k # j
    <3>1. Succeeded(k)  BY <2>1, <1>11, <1>6, <1>8 DEF Succeeded
    <3> QED  BY <2>1, <3>1, <1>2, <1>6, <1>10, ResultsStay
  <2>2. CASE k = j /\ jobs[j].st = "done"
    <3>1. Succeeded(j)  BY <2>2 DEF Succeeded
    <3> QED  BY <2>2, <3>1, <1>2, <1>6, <1>10, ResultsStay
  <2>3. CASE k = j /\ jobs[j].st # "done"
    <3>1. PICK i \in DOMAIN events' : IsFinished(i, j)' /\ events'[i].outcome = "Completed"
      BY <2>3, <1>6, <1>11 DEF Succeeded
    <3>2. ~(i \in DOMAIN events /\ IsFinished(i, j))  BY <1>2 DEF JobsInv, EventsOK
    <3>3. outcome = "Completed"  BY <3>1, <3>2, <1>4, <1>8
    <3>4. jobs'[j].task.op \notin {"connect", "archive", "scan"}  BY <2>3, <3>3, <1>3, <1>6
    <3> QED  BY <2>3, <3>4 DEF Landed
  <2> QED  BY <2>1, <2>2, <2>3
<1>12. NestingOK'  BY <1>2, <1>10, NestingStays DEF JobsInv
<1> QED  BY <1>7, <1>8, <1>9, <1>10, <1>11, <1>12 DEF JobsInv, ResultsOK

LEMMA ProgressKeepsJobs ==
    ASSUME JobsInv, HandleProgress
    PROVE  JobsInv'
<1>1. /\ events # << >> /\ Head(events).kind = "progress" /\ events' = Tail(events)
      /\ UNCHANGED <<loop, mode, active, remotes, archives, jobs, nextId, background, plans>>
      /\ UNCHANGED registry
  BY DEF HandleProgress, NextIs, registry, manager
<1>2. /\ events' \in Seq(Event) /\ EventsOK'
      /\ \A j \in Ids, i \in DOMAIN events' : IsFinished(i, j)' =>
            \E k \in DOMAIN events : IsFinished(k, j) /\ events[k] = events'[i]
  BY <1>1, ChannelDrops DEF JobsInv, ManagerType
<1>3. ModeType' /\ ManagerType' /\ SlotsOK' /\ AsksOK' /\ OneJob'
  BY <1>1, <1>2 DEF JobsInv, ModeType, ManagerType, SlotsOK, Leads, AsksOK, OneJob
<1>4. Grows /\ RegistryType'  BY <1>1, GrowsSame DEF JobsInv, Grows
<1>5. ASSUME NEW k \in Ids, Succeeded(k)' PROVE Landed(k)'
  <2>1. Succeeded(k)  BY <1>5, <1>1, <1>2 DEF Succeeded
  <2> QED  BY <2>1, <1>1, <1>4, ResultsStay
<1>6. NestingOK'  BY <1>1, <1>4, NestingStays DEF JobsInv
<1> QED  BY <1>2, <1>3, <1>4, <1>5, <1>6 DEF JobsInv, ResultsOK

\* A job's Finished event is handled and its slot emptied; a warm-up may start.
Reaps ==
    /\ NextIs("finished") /\ events' = Tail(events)
    /\ jobs' \in [Ids -> JobSet] /\ jobs'[J] = NoJob /\ Grows /\ archives' = archives
    /\ plans' \in [Ids -> {"none", "empty", "some"}]
    /\ \A j \in Ids : j # J => plans'[j] = plans[j]
    /\ \/ /\ nextId' = nextId /\ background' = background \ {J}
          /\ \A j \in Ids : j # J => jobs'[j] = jobs[j]
       \/ /\ nextId < MaxJobs /\ nextId' = nextId + 1 /\ background' = background \cup {nextId}
          /\ J \notin background
          /\ jobs'[nextId].st = "running" /\ jobs'[nextId].task.op = "warm"
          /\ Leads(jobs'[nextId].task)
          /\ \A j \in Ids \ {nextId} : j # J => jobs'[j] = jobs[j]

LEMMA ReapedSlots ==
    ASSUME JobsInv, Reaps
    PROVE  /\ J \in Ids /\ jobs[J].st = "ended" /\ jobs'[J].st = "none"
           /\ \A j \in Ids : j # J =>
                 \/ jobs'[j] = jobs[j]
                 \/ /\ j = nextId /\ nextId < MaxJobs /\ nextId' = nextId + 1
                    /\ background' = background \cup {nextId} /\ J \notin background
                    /\ jobs'[j].st = "running" /\ jobs'[j].task.op = "warm"
                    /\ Leads(jobs'[j].task) /\ jobs[j] = NoJob
<1>1. events \in Seq(Event) /\ events # << >> /\ EventsOK  BY DEF JobsInv, ManagerType, Reaps, NextIs
<1>2. J \in Ids
  <2>1. Head(events) \in Event  BY <1>1, HeadTailProperties
  <2> QED  BY <2>1 DEF J, Event
<1>3. jobs[J].st = "ended"
  <2>1. 1 \in DOMAIN events /\ events[1] = Head(events)
    <3>1. events' = Tail(events)  BY DEF Reaps
    <3> QED  BY <1>1, <3>1, TailEvents
  <2>2. IsFinished(1, J)  BY <2>1 DEF Reaps, NextIs, IsFinished, J
  <2> QED  BY <1>1, <1>2, <2>1, <2>2 DEF EventsOK
<1>4. jobs'[J].st = "none"  BY NoJobIs DEF Reaps
<1>5. ASSUME NEW j \in Ids, j # J
      PROVE  \/ jobs'[j] = jobs[j]
             \/ /\ j = nextId /\ nextId < MaxJobs /\ nextId' = nextId + 1
                /\ background' = background \cup {nextId} /\ J \notin background
                /\ jobs'[j].st = "running" /\ jobs'[j].task.op = "warm"
                /\ Leads(jobs'[j].task) /\ jobs[j] = NoJob
  BY <1>5, NextIsFree DEF Reaps
<1> QED  BY <1>2, <1>3, <1>4, <1>5

LEMMA ReapKeepsJobs ==
    ASSUME JobsInv, Reaps
    PROVE  ManagerType' /\ RegistryType' /\ SlotsOK' /\ EventsOK' /\ ResultsOK' /\ NestingOK'
<1>1. /\ J \in Ids /\ jobs[J].st = "ended" /\ jobs'[J].st = "none" /\ jobs'[J] = NoJob
      /\ \A j \in Ids : j # J =>
            \/ jobs'[j] = jobs[j]
            \/ /\ j = nextId /\ nextId < MaxJobs /\ nextId' = nextId + 1
               /\ background' = background \cup {nextId} /\ J \notin background
               /\ jobs'[j].st = "running" /\ jobs'[j].task.op = "warm"
               /\ Leads(jobs'[j].task) /\ jobs[j] = NoJob
  BY ReapedSlots DEF Reaps
<1>2. /\ Grows /\ RegistryType' /\ archives' = archives
      /\ plans' \in [Ids -> {"none", "empty", "some"}]
      /\ \A j \in Ids : j # J => plans'[j] = plans[j]
      /\ jobs' \in [Ids -> JobSet]
  BY DEF Reaps, Grows
<1>3. nextId \in 0..MaxJobs /\ nextId' \in 0..MaxJobs /\ nextId' \in Nat /\ nextId' >= nextId
  BY BoundsAssumption DEF JobsInv, ManagerType, Reaps
<1>4. NoJob.st = "none" /\ NoJob.task.op = "none"  BY NoJobIs
<1>5. /\ events' \in Seq(Event) /\ EventsOK'
      /\ \A j \in Ids, i \in DOMAIN events' : IsFinished(i, j)' =>
            j # J /\ \E k \in DOMAIN events : IsFinished(k, j) /\ events[k] = events'[i]
  <2>1. \A j \in Ids : j # J => (jobs'[j].st = "ended" <=> jobs[j].st = "ended")
    BY <1>1, <1>4
  <2>2. /\ events \in Seq(Event) /\ EventsOK /\ events # << >> /\ Head(events).kind = "finished"
        /\ events' = Tail(events)
    BY DEF JobsInv, ManagerType, Reaps, NextIs
  <2> QED  BY <1>1, <2>1, <2>2, ChannelReaps
<1>6. background' \subseteq {j \in Ids : jobs'[j].task.op = "warm"}
  <2>1. background \subseteq {j \in Ids : jobs[j].task.op = "warm"}  BY DEF JobsInv, ManagerType
  <2>2. ASSUME NEW j \in background' PROVE j \in Ids /\ jobs'[j].task.op = "warm"
    <3>1. CASE background' = background \ {J}
      <4>1. j \in Ids /\ j # J /\ jobs[j].task.op = "warm"  BY <3>1, <2>1, <2>2
      <4> QED  BY <4>1, <1>1
    <3>2. CASE /\ background' = background \cup {nextId} /\ J \notin background
               /\ nextId < MaxJobs /\ jobs'[nextId].task.op = "warm"
      <4>1. nextId \in Ids  BY <3>2, NextIsFree
      <4>2. CASE j = nextId  BY <3>2, <4>1, <4>2
      <4>3. CASE j # nextId
        <5>1. j \in Ids /\ j # J /\ jobs[j].task.op = "warm"  BY <3>2, <4>3, <2>1, <2>2
        <5> QED  BY <5>1, <4>3, <1>1
      <4> QED  BY <4>2, <4>3
    <3> QED  BY <3>1, <3>2 DEF Reaps
  <2> QED  BY <2>2
<1>7. ManagerType'  BY <1>2, <1>3, <1>5, <1>6 DEF ManagerType
<1>8. SlotsOK'
  <2>1. ASSUME NEW j \in Ids
        PROVE  /\ jobs'[j].st = "none" => jobs'[j] = NoJob
               /\ j >= nextId' => jobs'[j].st = "none"
               /\ jobs'[j].st # "none" => Leads(jobs'[j].task)
    <3>1. CASE j = J  BY <3>1, <1>1
    <3>2. CASE j # J /\ jobs'[j] = jobs[j]
      <4>1. j >= nextId' => j >= nextId  BY <1>3 DEF Ids
      <4> QED  BY <3>2, <4>1 DEF JobsInv, SlotsOK
    <3>3. CASE /\ j = nextId /\ nextId' = nextId + 1 /\ jobs'[j].st = "running"
               /\ Leads(jobs'[j].task)
      <4>1. ~(j >= nextId')  BY <3>3, <1>3
      <4> QED  BY <3>3, <4>1
    <3> QED  BY <3>1, <3>2, <3>3, <1>1
  <2>2. \A t : Leads(t)' <=> Leads(t)  BY DEF Leads
  <2> QED  BY <2>1, <2>2 DEF SlotsOK
<1>9. ASSUME NEW j \in Ids, Succeeded(j)' PROVE Landed(j)'
  <2>1. jobs'[j].st # "none" /\ jobs'[j].st # "running"
    <3>1. jobs'[j].st \in {"done", "ended"}  BY <1>5, <1>9 DEF Succeeded, EventsOK
    <3> QED  BY <3>1
  <2>2. j # J /\ jobs'[j] = jobs[j]  BY <2>1, <1>1
  <2>3. Succeeded(j)  BY <2>2, <1>5, <1>9 DEF Succeeded
  <2> QED  BY <2>2, <2>3, <1>2, ResultsStay
<1>10. NestingOK'  BY <1>2, NestingStays DEF JobsInv
<1> QED  BY <1>2, <1>5, <1>7, <1>8, <1>9, <1>10 DEF ResultsOK

\* The user's job is reaped and its dialog closed.
LEMMA ClosingKeepsJobs ==
    ASSUME JobsInv, Reaps, IsCurrent, J \notin background,
           ModeType', AsksOK', mode'.is # "progress"
    PROVE  JobsInv'
<1>1. /\ J \in Ids /\ jobs[J].st = "ended" /\ jobs'[J].st = "none"
      /\ \A j \in Ids : j # J =>
            \/ jobs'[j] = jobs[j]
            \/ j = nextId /\ background' = background \cup {nextId}
  BY ReapedSlots
<1>2. OneJob'
  <2>1. SUFFICES ASSUME NEW j \in Ids, jobs'[j].st # "none", j \notin background' PROVE FALSE
    BY DEF OneJob
  <2>2. j # J  BY <2>1, <1>1
  <2>3. jobs'[j] = jobs[j] /\ j \notin background  BY <2>1, <2>2, <1>1 DEF Reaps
  <2>4. mode.job = j  BY <2>1, <2>3 DEF JobsInv, OneJob
  <2> QED  BY <2>2, <2>4 DEF IsCurrent
<1> QED  BY <1>2, ReapKeepsJobs DEF JobsInv

LEMMA ReapedIs ==
    ASSUME JobsInv, NextIs("finished"), jobs' = Reaped
    PROVE  /\ J \in Ids /\ jobs' \in [Ids -> JobSet] /\ jobs'[J] = NoJob
           /\ \A j \in Ids : j # J => jobs'[j] = jobs[j]
<1>1. jobs \in [Ids -> JobSet] /\ NoJob \in JobSet  BY NoJobIs DEF JobsInv, ManagerType
<1>2. J \in Ids
  <2>1. events \in Seq(Event) /\ events # << >>  BY DEF JobsInv, ManagerType, NextIs
  <2>2. Head(events) \in Event  BY <2>1, HeadTailProperties
  <2> QED  BY <2>2 DEF J, Event
<1> HIDE DEF J
<1> QED  BY <1>1, <1>2 DEF Reaped

LEMMA BackgroundKeepsJobs ==
    ASSUME JobsInv, FinishBackground
    PROVE  Grows /\ Reaps /\ JobsInv'
<1>1. /\ NextIs("finished") /\ J \in background /\ events' = Tail(events) /\ jobs' = Reaped
      /\ background' = background \ {J}
      /\ UNCHANGED <<loop, mode, active, archives, nextId, plans>>
  BY DEF FinishBackground
<1>2. /\ J \in Ids /\ jobs' \in [Ids -> JobSet] /\ jobs'[J] = NoJob
      /\ \A j \in Ids : j # J => jobs'[j] = jobs[j]
  BY <1>1, ReapedIs
<1>3. jobs[J].task.op = "warm"  BY <1>1 DEF JobsInv, ManagerType
<1>4. jobs[J].st # "none"
  <2>1. jobs[J].task.op # NoJob.task.op  BY <1>3, NoJobIs
  <2> QED  BY <2>1, <1>2 DEF JobsInv, SlotsOK
<1>5. Leads(jobs[J].task)  BY <1>2, <1>4 DEF JobsInv, SlotsOK
<1>6. jobs[J].task.dst.loc[1] \in Profiles  BY <1>3, <1>5, LeadsTo
<1>7. Grows
  <2> DEFINE p == jobs[J].task.dst.loc[1]
  <2>1. PICK found \in Findings :
          remotes' = IF \E s \in Sides : Uses(panels[s].at.loc, p) THEN Probed(p, found) ELSE remotes
    BY DEF FinishBackground
  <2> HIDE DEF p
  <2>2. CASE remotes' = Probed(p, found)  BY <2>2, <1>1, <1>6, GrowsProbed DEF JobsInv, p
  <2>3. CASE remotes' = remotes  BY <2>3, <1>1, GrowsSame DEF JobsInv, registry
  <2> QED  BY <2>1, <2>2, <2>3
<1>8. Reaps  BY <1>1, <1>2, <1>7 DEF Reaps, JobsInv, ManagerType
<1>9. ModeType' /\ AsksOK'  BY <1>1 DEF JobsInv, ModeType, AsksOK
<1>10. OneJob'
  <2>1. ASSUME mode.is = "progress"
        PROVE  /\ nextId < MaxJobs /\ mode.job \notin background'
               /\ jobs'[mode.job].st # "none" /\ jobs'[mode.job].task = mode.task
    <3>1. /\ nextId < MaxJobs /\ mode.job \notin background
          /\ jobs[mode.job].st # "none" /\ jobs[mode.job].task = mode.task
      BY <2>1 DEF JobsInv, OneJob
    <3>2. mode.job \in Ids  BY <2>1 DEF JobsInv, ModeType
    <3>3. mode.job # J  BY <3>1, <1>1
    <3> QED  BY <3>1, <3>2, <3>3, <1>1, <1>2
  <2>2. ASSUME NEW j \in Ids, jobs'[j].st # "none", j \notin background'
        PROVE  mode.is = "progress" /\ mode.job = j
    <3>1. j # J  BY <2>2, <1>2, NoJobIs
    <3>2. jobs[j].st # "none" /\ j \notin background  BY <2>2, <3>1, <1>1, <1>2
    <3> QED  BY <3>2 DEF JobsInv, OneJob
  <2> QED  BY <2>1, <2>2, <1>1 DEF OneJob
<1> QED  BY <1>7, <1>8, <1>9, <1>10, ReapKeepsJobs DEF JobsInv

LEMMA BrowsingIs ==
    ASSUME loop' \in {"on", "quit", "failed"}, active' \in Sides, mode' = Browsing
    PROVE  ModeType' /\ AsksOK' /\ mode'.is = "browsing"
<1>1. mode'.is = "browsing" /\ mode'.task = NoTask /\ mode'.job = NoId  BY DEF Browsing, Mode
<1> QED  BY <1>1, TasksAre DEF ModeType, AsksOK

LEMMA LostKeepsJobs ==
    ASSUME JobsInv, InputLost
    PROVE  JobsInv'
<1>1. /\ loop' = "failed" /\ mode' = Browsing /\ jobs' = [j \in Ids |-> NoJob] /\ nextId' = 0
      /\ events' = << >> /\ background' = {} /\ plans' = [j \in Ids |-> "none"]
      /\ UNCHANGED <<active, remotes, archives>> /\ UNCHANGED registry
  BY DEF InputLost, registry
<1>2. ModeType' /\ AsksOK' /\ mode'.is = "browsing"
  BY <1>1, BrowsingIs DEF JobsInv, ModeType
<1>3. \A j \in Ids : jobs'[j] = NoJob /\ jobs'[j].st = "none"  BY <1>1, NoJobIs
<1>4. DOMAIN events' = {}
  <2>1. DOMAIN << >> = {}  OBVIOUS
  <2> QED  BY <1>1, <2>1
<1>5. ManagerType'
  <2>1. jobs' \in [Ids -> JobSet]  BY <1>1, NoJobIs
  <2>2. nextId' \in 0..MaxJobs  BY <1>1, BoundsAssumption
  <2>3. events' \in Seq(Event)  BY <1>1
  <2> QED  BY <1>1, <2>1, <2>2, <2>3 DEF ManagerType
<1>6. SlotsOK'  BY <1>3 DEF SlotsOK
<1>7. OneJob'  BY <1>2, <1>3 DEF OneJob
<1>8. EventsOK'  BY <1>3, <1>4 DEF EventsOK
<1>9. ResultsOK'  BY <1>3, <1>4 DEF ResultsOK, Succeeded
<1>10. Grows /\ RegistryType'  BY <1>1, GrowsSame DEF JobsInv, Grows
<1>11. NestingOK'  BY <1>1, <1>10, NestingStays DEF JobsInv
<1> QED  BY <1>2, <1>5, <1>6, <1>7, <1>8, <1>9, <1>10, <1>11 DEF JobsInv

LEMMA InitJobs == Init => JobsInv
<1> SUFFICES ASSUME Init PROVE JobsInv  OBVIOUS
<1>1. /\ loop = "on" /\ mode = Browsing /\ active = "left" /\ remotes = [p \in Profiles |-> "none"]
      /\ archives = {} /\ jobs = [j \in Ids |-> NoJob] /\ nextId = 0 /\ events = << >>
      /\ background = {} /\ plans = [j \in Ids |-> "none"]
  BY DEF Init
<1>2. ModeType /\ AsksOK /\ mode.is = "browsing"
  <2>1. mode.is = "browsing" /\ mode.task = NoTask /\ mode.job = NoId  BY <1>1 DEF Browsing, Mode
  <2> QED  BY <1>1, <2>1, TasksAre DEF ModeType, AsksOK, Sides
<1>3. \A j \in Ids : jobs[j] = NoJob /\ jobs[j].st = "none"  BY <1>1, NoJobIs
<1>4. DOMAIN events = {}
  <2>1. DOMAIN << >> = {}  OBVIOUS
  <2> QED  BY <1>1, <2>1
<1>5. ManagerType
  <2>1. jobs \in [Ids -> JobSet]  BY <1>1, NoJobIs
  <2>2. nextId \in 0..MaxJobs  BY <1>1, BoundsAssumption
  <2>3. events \in Seq(Event)  BY <1>1
  <2> QED  BY <1>1, <2>1, <2>2, <2>3 DEF ManagerType
<1>6. SlotsOK  BY <1>3 DEF SlotsOK
<1>7. OneJob  BY <1>2, <1>3 DEF OneJob
<1>8. EventsOK  BY <1>3, <1>4 DEF EventsOK
<1>9. ResultsOK  BY <1>3, <1>4 DEF ResultsOK, Succeeded
<1>10. RegistryType  BY <1>1 DEF RegistryType
<1>11. NestingOK  BY <1>1 DEF NestingOK
<1> QED  BY <1>2, <1>5, <1>6, <1>7, <1>8, <1>9, <1>10, <1>11 DEF JobsInv

-----------------------------------------------------------------------------
(* Panels.                                                                 *)

LEMMA ReloadIs ==
    ASSUME NEW pn \in PanelSet, NEW listed
    PROVE  /\ Reload(pn, listed) \in PanelSet /\ Reload(pn, listed).at = pn.at
           /\ Reload(pn, listed).quic = pn.quic /\ Reload(pn, listed).sel = Nowhere
           /\ Reload(pn, listed).misses \in {"none", "all"}
<1> DEFINE new == IF listed THEN "none" ELSE "all"
<1>1. new \in {"none", "all"}  OBVIOUS
<1>2. Reload(pn, listed) = [pn EXCEPT !.sel = Nowhere, !.misses = new]  BY DEF Reload
<1> HIDE DEF new
<1> QED  BY <1>1, <1>2 DEF PanelSet

LEMMA ShowIs ==
    ASSUME NEW pn \in PanelSet, NEW place \in Places, NEW listed
    PROVE  /\ Show(pn, place, listed) \in PanelSet /\ Show(pn, place, listed).at = place
           /\ Show(pn, place, listed).quic = pn.quic /\ Show(pn, place, listed).sel = Nowhere
           /\ Show(pn, place, listed).misses \in {"none", "all"}
<1>1. /\ [pn EXCEPT !.at = place] \in PanelSet /\ [pn EXCEPT !.at = place].at = place
      /\ [pn EXCEPT !.at = place].quic = pn.quic
  BY DEF PanelSet
<1> QED  BY <1>1, ReloadIs DEF Show

LEMMA MissingIs ==
    ASSUME NEW pn \in PanelSet, NEW loc, NEW who \in {"job", "ui"}
    PROVE  /\ Missing(pn, loc, who) \in PanelSet /\ Missing(pn, loc, who).at = pn.at
           /\ Missing(pn, loc, who).quic = pn.quic /\ Missing(pn, loc, who).sel = pn.sel
           /\ Missing(pn, loc, who).misses \in {pn.misses, who}
<1>1. /\ [pn EXCEPT !.misses = who] \in PanelSet /\ [pn EXCEPT !.misses = who].at = pn.at
      /\ [pn EXCEPT !.misses = who].quic = pn.quic /\ [pn EXCEPT !.misses = who].sel = pn.sel
      /\ [pn EXCEPT !.misses = who].misses = who
  BY DEF PanelSet
<1> QED  BY <1>1 DEF Missing

LEMMA PanelsAre ==
    ASSUME PanelsType, NEW s \in Sides
    PROVE  /\ panels[s] \in PanelSet /\ panels[s].at \in Places /\ panels[s].at.loc \in Locations
           /\ panels[s].sel \in Places \cup {Nowhere} /\ panels[s].quic \in BOOLEAN
           /\ panels[s].at.dir \in Dirs
<1>1. panels[s] \in PanelSet  BY DEF PanelsType
<1>2. /\ panels[s].at \in Places /\ panels[s].sel \in Places \cup {Nowhere}
      /\ panels[s].quic \in BOOLEAN
  BY <1>1 DEF PanelSet
<1> QED  BY <1>1, <1>2, PlacesAre

LEMMA SidesAre ==
    ASSUME ModeType
    PROVE  active \in Sides /\ Other(active) \in Sides /\ Other(active) # active
BY DEF ModeType, Other, Sides

LEMMA PutPanel ==
    ASSUME PanelsType, NEW s \in Sides, NEW pn \in PanelSet, panels' = [panels EXCEPT ![s] = pn]
    PROVE  /\ panels' \in [Sides -> PanelSet] /\ panels'[s] = pn
           /\ \A t \in Sides : t # s => panels'[t] = panels[t]
BY DEF PanelsType

LEMMA BothReload ==
    ASSUME PanelsType, ReloadBoth
    PROVE  /\ panels' \in [Sides -> PanelSet]
           /\ \A s \in Sides :
                 /\ panels'[s].at = panels[s].at /\ panels'[s].quic = panels[s].quic
                 /\ panels'[s].sel = Nowhere /\ panels'[s].misses # "job"
<1>1. PICK listed \in [Sides -> BOOLEAN] : panels' = [s \in Sides |-> Reload(panels[s], listed[s])]
  BY DEF ReloadBoth
<1>2. ASSUME NEW s \in Sides
      PROVE  /\ panels'[s] \in PanelSet
             /\ panels'[s].at = panels[s].at /\ panels'[s].quic = panels[s].quic
             /\ panels'[s].sel = Nowhere /\ panels'[s].misses # "job"
  <2>1. panels[s] \in PanelSet /\ panels'[s] = Reload(panels[s], listed[s])  BY <1>1, PanelsAre
  <2> QED  BY <2>1, ReloadIs
<1>3. panels' = [s \in Sides |-> panels'[s]]  BY <1>1
<1> QED  BY <1>2, <1>3

\* No glyph has to change, or one changes to what is known of its connection.
LEMMA GlyphsStay ==
    ASSUME GlyphsOK, loop' = "on" => loop = "on",
           \A p \in Profiles : \/ remotes[p] # "unprobed" => remotes'[p] = remotes[p]
                               \/ \E j \in Ids : Renews(j, p)',
           \A p \in Profiles, j \in Ids : Renews(j, p) =>
              \/ \E k \in Ids : Renews(k, p)'
              \/ \A s \in Sides : Uses(panels'[s].at.loc, p) =>
                    /\ panels'[s].quic = QuicAvailable(panels'[s].at.loc, remotes')
                    /\ remotes'[p] # "unprobed",
           \A s \in Sides :
              \/ /\ \A p \in Profiles : Uses(panels'[s].at.loc, p) <=> Uses(panels[s].at.loc, p)
                 /\ panels'[s].quic = panels[s].quic
              \/ /\ panels'[s].quic = QuicAvailable(panels'[s].at.loc, remotes')
                 /\ \A p \in Profiles : Uses(panels'[s].at.loc, p) => remotes'[p] # "unprobed"
    PROVE  GlyphsOK'
<1> SUFFICES ASSUME EnableQuic, loop' = "on", NEW s \in Sides
             PROVE  /\ \A p \in Profiles : Uses(panels'[s].at.loc, p) =>
                          \/ remotes'[p] # "unprobed" /\ panels'[s].quic = (remotes'[p] = "agent")
                          \/ \E j \in Ids : Renews(j, p)'
                    /\ (\A p \in Profiles : ~Uses(panels'[s].at.loc, p)) => panels'[s].quic = FALSE
  BY DEF GlyphsOK, GlyphAt, Uses
<1>1. CASE /\ \A p \in Profiles : Uses(panels'[s].at.loc, p) <=> Uses(panels[s].at.loc, p)
           /\ panels'[s].quic = panels[s].quic
  <2>1. /\ \A p \in Profiles : Uses(panels[s].at.loc, p) =>
              \/ remotes[p] # "unprobed" /\ panels[s].quic = (remotes[p] = "agent")
              \/ \E j \in Ids : Renews(j, p)
        /\ (\A p \in Profiles : ~Uses(panels[s].at.loc, p)) => panels[s].quic = FALSE
    BY DEF GlyphsOK, GlyphAt
  <2>2. ASSUME NEW p \in Profiles, Uses(panels'[s].at.loc, p)
        PROVE  \/ remotes'[p] # "unprobed" /\ panels'[s].quic = (remotes'[p] = "agent")
               \/ \E j \in Ids : Renews(j, p)'
    <3>1. CASE remotes[p] # "unprobed" /\ panels[s].quic = (remotes[p] = "agent")
      BY <3>1, <2>2, <1>1
    <3>2. CASE \E j \in Ids : Renews(j, p)
      <4>1. \/ \E k \in Ids : Renews(k, p)'
            \/ /\ panels'[s].quic = QuicAvailable(panels'[s].at.loc, remotes')
               /\ remotes'[p] # "unprobed"
        BY <3>2, <2>2
      <4> QED  BY <4>1, <2>2, QuicIs
    <3> QED  BY <3>1, <3>2, <2>1, <2>2, <1>1
  <2>3. (\A p \in Profiles : ~Uses(panels'[s].at.loc, p)) => panels'[s].quic = FALSE
    BY <2>1, <1>1
  <2> QED  BY <2>2, <2>3
<1>2. CASE /\ panels'[s].quic = QuicAvailable(panels'[s].at.loc, remotes')
           /\ \A p \in Profiles : Uses(panels'[s].at.loc, p) => remotes'[p] # "unprobed"
  BY <1>2, QuicIs
<1> QED  BY <1>1, <1>2

LEMMA RenewsSame ==
    ASSUME jobs' = jobs, events' = events, NEW p, NEW j
    PROVE  Renews(j, p)' <=> Renews(j, p)
BY DEF Renews, Succeeded, IsFinished

\* Key presses that start no job, and what they do to the panels.
LEMMA QuietKeepsPanels ==
    ASSUME JobsInv, PanelsInv, Quiet, loop' = "on" => loop = "on",
           panels' \in [Sides -> PanelSet], CommandMatchesPanels',
           \A s \in Sides :
              /\ panels'[s].sel # Nowhere => panels'[s].sel = panels'[s].at
              /\ panels'[s].misses = "job" => panels[s].misses = "job"
              /\ Resolves(panels'[s].at.loc)
              /\ \A p \in Profiles : Uses(panels'[s].at.loc, p) <=> Uses(panels[s].at.loc, p)
              /\ panels'[s].quic = panels[s].quic
    PROVE  PanelsInv'
<1>1. UNCHANGED <<remotes, archives, jobs, events>> /\ mode.is # "progress"
  BY DEF Quiet, registry, manager
<1>2. PanelsResolve'  BY <1>1 DEF PanelsResolve, Resolves
<1>3. MissesOK'  BY <1>1 DEF PanelsInv, MissesOK
<1>4. \A p \in Profiles, j \in Ids : Renews(j, p) => Renews(j, p)'  BY <1>1, RenewsSame
<1>5. GlyphsOK'
  <2>1. \A p \in Profiles, j \in Ids : Renews(j, p) => \E k \in Ids : Renews(k, p)'  BY <1>4
  <2>2. GlyphsOK  BY DEF PanelsInv
  <2>3. \A s \in Sides :
          /\ \A p \in Profiles : Uses(panels'[s].at.loc, p) <=> Uses(panels[s].at.loc, p)
          /\ panels'[s].quic = panels[s].quic
    OBVIOUS
  <2> QED  BY <1>1, <2>1, <2>2, <2>3, GlyphsStay
<1> QED  BY <1>2, <1>3, <1>5 DEF PanelsInv, PanelsType, SelectionOK

\* The panels stay as they are, but for what their listings miss.
LEMMA PanelsStay ==
    ASSUME JobsInv, PanelsInv, Grows, loop' = loop, panels' = panels,
           CommandMatchesPanels', MissesOK',
           \A p \in Profiles : \/ remotes[p] # "unprobed" => remotes'[p] = remotes[p]
                               \/ \E j \in Ids : Renews(j, p)',
           \A p \in Profiles, j \in Ids : Renews(j, p) => \E k \in Ids : Renews(k, p)'
    PROVE  PanelsInv'
<1>1. PanelsType' /\ SelectionOK'  BY DEF PanelsInv, PanelsType, SelectionOK
<1>2. PanelsResolve'
  <2>1. ASSUME NEW s \in Sides PROVE Resolves(panels[s].at.loc)'
    <3>1. Resolves(panels[s].at.loc)  BY DEF PanelsInv, PanelsResolve
    <3> QED  BY <3>1 DEF Grows, Resolves, IsRemote
  <2> QED  BY <2>1 DEF PanelsResolve
<1>3. GlyphsOK'
  <2>1. GlyphsOK  BY DEF PanelsInv
  <2>2. \A s \in Sides :
          /\ \A p \in Profiles : Uses(panels'[s].at.loc, p) <=> Uses(panels[s].at.loc, p)
          /\ panels'[s].quic = panels[s].quic
    OBVIOUS
  <2> QED  BY <2>1, <2>2, GlyphsStay
<1> QED  BY <1>1, <1>2, <1>3 DEF PanelsInv

-----------------------------------------------------------------------------
(* Key presses keep the invariant, or start a job.                         *)

LEMMA ModeIs ==
    ASSUME NEW is, NEW task
    PROVE  Mode(is, task).is = is /\ Mode(is, task).task = task /\ Mode(is, task).job = NoId
BY DEF Mode

LEMMA HereIs ==
    ASSUME ModeType, PanelsType
    PROVE  /\ Here \in Places /\ There \in Places /\ Here.loc \in Locations
           /\ There.loc \in Locations /\ Here # Nowhere /\ There # Nowhere
           /\ Here = panels[active].at /\ There = panels[Other(active)].at
<1>1. active \in Sides /\ Other(active) \in Sides  BY SidesAre
<1> QED  BY <1>1, PanelsAre, PlacesAre DEF Here, There

LEMMA SelectedIs ==
    ASSUME ModeType, PanelsType, SelectionOK
    PROVE  SelectedItems = Here
<1>1. active \in Sides  BY SidesAre
<1> QED  BY <1>1 DEF SelectionOK, SelectedItems, Here

\* Keys of the browsing mode that leave it there.
LEMMA BrowsingKeys ==
    ASSUME JobsInv, PanelsInv, Key, UNCHANGED <<mode, registry, manager, events, background, plans>>,
           loop' \in {"on", "quit"}, active' \in Sides
    PROVE  Quiet /\ CommandMatchesPanels'
<1>1. mode.is = "browsing" /\ mode' = mode  BY DEF Key
<1>2. ModeType' /\ AsksOK'  BY <1>1 DEF JobsInv, ModeType, AsksOK
<1> QED  BY <1>1, <1>2 DEF Quiet, CommandMatchesPanels, UserTask

LEMMA SideKeys ==
    ASSUME JobsInv, PanelsInv, QuitKey \/ TabKey
    PROVE  Quiet /\ PanelsInv'
<1>1. /\ Key /\ UNCHANGED <<mode, panels, registry, manager, events, background, plans>>
      /\ loop' \in {"on", "quit"} /\ active' \in Sides /\ loop = "on"
  <2>1. active \in Sides /\ Other(active) \in Sides  BY SidesAre DEF JobsInv
  <2> QED  BY <2>1 DEF QuitKey, TabKey, Key
<1>2. Quiet /\ CommandMatchesPanels'  BY <1>1, BrowsingKeys
<1> QED  BY <1>1, <1>2, QuietKeepsPanels
     DEF PanelsInv, PanelsType, SelectionOK, PanelsResolve

\* A key that changes one panel.
LEMMA PanelKeys ==
    ASSUME JobsInv, PanelsInv, Key, NEW s \in Sides, NEW pn \in PanelSet,
           UNCHANGED <<loop, mode, active, registry, manager, events, background, plans>>,
           panels' = [panels EXCEPT ![s] = pn],
           pn.sel # Nowhere => pn.sel = pn.at, pn.misses = "job" => panels[s].misses = "job",
           Resolves(pn.at.loc), pn.quic = panels[s].quic,
           \A p \in Profiles : Uses(pn.at.loc, p) <=> Uses(panels[s].at.loc, p)
    PROVE  Quiet /\ PanelsInv'
<1>1. /\ panels' \in [Sides -> PanelSet] /\ panels'[s] = pn
      /\ \A t \in Sides : t # s => panels'[t] = panels[t]
  BY PutPanel DEF PanelsInv
<1>2. Quiet /\ CommandMatchesPanels'
  <2>1. loop' \in {"on", "quit"} /\ active' \in Sides  BY DEF Key, JobsInv, ModeType
  <2> QED  BY <2>1, BrowsingKeys
<1>3. ASSUME NEW t \in Sides
      PROVE  /\ panels'[t].sel # Nowhere => panels'[t].sel = panels'[t].at
             /\ panels'[t].misses = "job" => panels[t].misses = "job"
             /\ Resolves(panels'[t].at.loc)
             /\ \A p \in Profiles : Uses(panels'[t].at.loc, p) <=> Uses(panels[t].at.loc, p)
             /\ panels'[t].quic = panels[t].quic
  <2>1. CASE t = s  BY <2>1, <1>1
  <2>2. CASE t # s  BY <2>2, <1>1 DEF PanelsInv, SelectionOK, PanelsResolve
  <2> QED  BY <2>1, <2>2
<1> QED  BY <1>1, <1>2, <1>3, QuietKeepsPanels

LEMMA SelectKeys ==
    ASSUME JobsInv, PanelsInv, ToggleSelection
    PROVE  Quiet /\ PanelsInv'
<1>1. PICK some \in {Here, Nowhere} : panels' = [panels EXCEPT ![active].sel = some]
  BY DEF ToggleSelection
<1>2. active \in Sides /\ panels[active] \in PanelSet /\ Here \in Places /\ Here = panels[active].at
  BY SidesAre, PanelsAre, HereIs DEF JobsInv, PanelsInv
<1> DEFINE pn == [panels[active] EXCEPT !.sel = some]
<1>3. /\ pn \in PanelSet /\ pn.sel = some /\ pn.at = Here /\ pn.quic = panels[active].quic
      /\ pn.misses = panels[active].misses
  BY <1>2 DEF PanelSet
<1>4. panels' = [panels EXCEPT ![active] = pn]  BY <1>1
<1> HIDE DEF pn
<1>5. Resolves(pn.at.loc)  BY <1>2, <1>3 DEF PanelsInv, PanelsResolve
<1>6. Key /\ UNCHANGED <<loop, mode, active, registry, manager, events, background, plans>>
  BY DEF ToggleSelection
<1> QED  BY <1>1, <1>2, <1>3, <1>4, <1>5, <1>6, PanelKeys

\* A key that shows another place in the active panel.
LEMMA ShowKeys ==
    ASSUME JobsInv, PanelsInv, Key, NEW place \in Places,
           UNCHANGED <<loop, mode, active, registry, manager, events, background, plans>>,
           \E listed \in BOOLEAN : panels' = [panels EXCEPT ![active] = Show(@, place, listed)],
           Resolves(place.loc),
           \A p \in Profiles : Uses(place.loc, p) <=> Uses(Here.loc, p)
    PROVE  Quiet /\ PanelsInv'
<1>1. active \in Sides /\ panels[active] \in PanelSet /\ Here = panels[active].at
  BY SidesAre, PanelsAre, HereIs DEF JobsInv, PanelsInv
<1>4. PICK listed \in BOOLEAN : panels' = [panels EXCEPT ![active] = Show(@, place, listed)]
  OBVIOUS
<1> DEFINE pn == Show(panels[active], place, listed)
<1>2. /\ pn \in PanelSet /\ pn.at = place /\ pn.quic = panels[active].quic
      /\ pn.sel = Nowhere /\ pn.misses \in {"none", "all"}
  BY <1>1, ShowIs
<1>3. panels' = [panels EXCEPT ![active] = pn]  BY <1>4
<1> HIDE DEF pn
<1> QED  BY <1>1, <1>2, <1>3, PanelKeys

LEMMA WalkKeys ==
    ASSUME JobsInv, PanelsInv, Descend \/ Ascend
    PROVE  Quiet /\ PanelsInv'
<1>1. Key /\ UNCHANGED <<loop, mode, active, registry, manager, events, background, plans>>
  BY DEF Descend, Ascend
<1>2. Here \in Places /\ Here.loc \in Locations /\ Resolves(Here.loc)
  <2>1. active \in Sides /\ Here = panels[active].at /\ Here \in Places /\ Here.loc \in Locations
    BY SidesAre, HereIs DEF JobsInv, PanelsInv
  <2> QED  BY <2>1 DEF PanelsInv, PanelsResolve
<1>3. CASE Descend
  <2>1. \E listed \in BOOLEAN :
           panels' = [panels EXCEPT ![active] = Show(@, [Here EXCEPT !.dir = "sub"], listed)]
    BY <1>3 DEF Descend
  <2>2. [Here EXCEPT !.dir = "sub"] \in Places /\ [Here EXCEPT !.dir = "sub"].loc = Here.loc
    BY <1>2 DEF Places, Dirs
  <2> DEFINE place == [Here EXCEPT !.dir = "sub"]
  <2>3. place \in Places /\ place.loc = Here.loc  BY <2>2
  <2>4. \E listed \in BOOLEAN : panels' = [panels EXCEPT ![active] = Show(@, place, listed)]
    BY <2>1
  <2> HIDE DEF place
  <2> QED  BY <1>1, <1>2, <2>3, <2>4, ShowKeys
<1>4. CASE \E listed \in BOOLEAN :
              panels' = [panels EXCEPT ![active] = Show(@, Root(Here.loc), listed)]
  <2> DEFINE place == Root(Here.loc)
  <2>1. place \in Places /\ place.loc = Here.loc  BY <1>2, PlacesAre
  <2>2. \E listed \in BOOLEAN : panels' = [panels EXCEPT ![active] = Show(@, place, listed)]
    BY <1>4
  <2> HIDE DEF place
  <2> QED  BY <1>1, <1>2, <2>1, <2>2, ShowKeys
<1>5. CASE /\ IsArchive(Here.loc)
           /\ \E listed \in BOOLEAN :
                 panels' = [panels EXCEPT ![active] = Show(@, Root(Base(Here.loc)), listed)]
  <2>1. Base(Here.loc) \in Locations  BY <1>2, <1>5, LocationFacts
  <2> DEFINE place == Root(Base(Here.loc))
  <2>2. place \in Places /\ place.loc = Base(Here.loc)  BY <2>1, PlacesAre
  <2>3. \E listed \in BOOLEAN : panels' = [panels EXCEPT ![active] = Show(@, place, listed)]
    BY <1>5
  <2> HIDE DEF place
  <2>4. Here.loc \in archives
    <3>1. Here.loc # Local  BY <1>5 DEF IsArchive
    <3>2. ~IsRemote(Here.loc)  BY <1>5, ProfilesAssumption DEF IsArchive, IsRemote, Zip
    <3> QED  BY <3>1, <3>2, <1>2 DEF Resolves
  <2>5. Resolves(place.loc)  BY <2>2, <2>4 DEF JobsInv, NestingOK
  <2>6. \A p \in Profiles : Uses(place.loc, p) <=> Uses(Here.loc, p)
    BY <2>2, <1>2, <1>5, BaseUses
  <2> QED  BY <1>1, <2>2, <2>3, <2>5, <2>6, ShowKeys
<1> QED  BY <1>3, <1>4, <1>5 DEF Ascend

LEMMA EditKeeps ==
    ASSUME JobsInv, PanelsInv, EditKey
    PROVE  Quiet /\ PanelsInv'
<1>1. /\ Key /\ UNCHANGED <<loop, mode, active, registry, manager, events, background, plans>>
      /\ ReloadBoth
  BY DEF EditKey
<1>2. /\ panels' \in [Sides -> PanelSet]
      /\ \A s \in Sides :
            /\ panels'[s].at = panels[s].at /\ panels'[s].quic = panels[s].quic
            /\ panels'[s].sel = Nowhere /\ panels'[s].misses # "job"
  BY <1>1, BothReload DEF PanelsInv
<1>4. Quiet /\ CommandMatchesPanels'
  <2>1. loop' \in {"on", "quit"} /\ active' \in Sides  BY <1>1 DEF Key, JobsInv, ModeType
  <2> QED  BY <1>1, <2>1, BrowsingKeys
<1> QED  BY <1>1, <1>2, <1>4, QuietKeepsPanels DEF PanelsInv, PanelsResolve

\* A key that only changes the dialog.
LEMMA DialogKeys ==
    ASSUME JobsInv, PanelsInv, loop = "on", mode.is # "progress",
           UNCHANGED <<loop, panels, active, registry, manager, events, background, plans>>,
           ModeType', AsksOK', mode'.is # "progress", CommandMatchesPanels'
    PROVE  Quiet /\ PanelsInv'
<1>1. Quiet  BY DEF Quiet
<1> QED  BY <1>1, QuietKeepsPanels DEF PanelsInv, PanelsType, SelectionOK, PanelsResolve

LEMMA BackToPanels ==
    ASSUME JobsInv, loop' = loop, active' = active, mode' = Browsing
    PROVE  ModeType' /\ AsksOK' /\ mode'.is = "browsing" /\ CommandMatchesPanels'
<1>1. ModeType' /\ AsksOK' /\ mode'.is = "browsing"  BY BrowsingIs DEF JobsInv, ModeType
<1> QED  BY <1>1 DEF CommandMatchesPanels, UserTask

LEMMA AskKeys ==
    ASSUME JobsInv, PanelsInv, AskKey
    PROVE  Quiet /\ PanelsInv'
<1>1. /\ loop = "on" /\ mode.is = "browsing"
      /\ UNCHANGED <<loop, panels, active, registry, manager, events, background, plans>>
  BY DEF AskKey, Key
<1>2. PICK op \in {"copy", "move", "rename", "mkdir", "delete"} :
        mode' = Mode(IF op = "delete" THEN "confirm" ELSE "text",
                     Task(op, IF op = "mkdir" THEN Here ELSE SelectedItems, Nowhere, Nowhere))
  BY DEF AskKey
<1>3. Here \in Places /\ SelectedItems = Here  BY HereIs, SelectedIs DEF JobsInv, PanelsInv
<1> DEFINE t == Task(op, Here, Nowhere, Nowhere)
<1>4. op \in Ops  BY DEF Ops, FileOps
<1>5. /\ t \in Tasks /\ t.op = op /\ t.items = Here /\ t.src = Nowhere /\ t.dst = Nowhere
      /\ t.side = active
  BY <1>3, <1>4, TaskIs DEF JobsInv
<1>6. mode' = Mode(IF op = "delete" THEN "confirm" ELSE "text", t)  BY <1>2, <1>3
<1> HIDE DEF t
<1>7. /\ mode'.is = (IF op = "delete" THEN "confirm" ELSE "text") /\ mode'.task = t
      /\ mode'.job = NoId
  BY <1>6, ModeIs
<1>8. ModeType'  BY <1>1, <1>5, <1>7 DEF JobsInv, ModeType
<1>9. AsksOK'  BY <1>1, <1>5, <1>7 DEF AsksOK
<1>10. CommandMatchesPanels'  BY <1>1, <1>5, <1>7 DEF CommandMatchesPanels, Here
<1>11. mode'.is # "progress"  BY <1>7
<1> QED  BY <1>1, <1>8, <1>9, <1>10, <1>11, DialogKeys

LEMMA FormKeys ==
    ASSUME JobsInv, PanelsInv, FormKey
    PROVE  Quiet /\ PanelsInv'
<1>1. /\ loop = "on" /\ mode.is = "browsing"
      /\ UNCHANGED <<loop, panels, active, registry, manager, events, background, plans>>
  BY DEF FormKey, Key
<1>2. PICK is \in {"connect", "help"} : mode' = Mode(is, NoTask)  BY DEF FormKey
<1>3. mode'.is = is /\ mode'.task = NoTask /\ mode'.job = NoId  BY <1>2, ModeIs
<1>4. ModeType' /\ AsksOK'  BY <1>1, <1>3, TasksAre DEF JobsInv, ModeType, AsksOK
<1>5. CommandMatchesPanels' /\ mode'.is # "progress"
  BY <1>3 DEF CommandMatchesPanels, UserTask
<1> QED  BY <1>1, <1>4, <1>5, DialogKeys

LEMMA DismissKeys ==
    ASSUME JobsInv, PanelsInv, Dismiss
    PROVE  Quiet /\ PanelsInv'
<1>1. /\ loop = "on" /\ mode.is # "progress" /\ mode' = Browsing
      /\ UNCHANGED <<loop, panels, active, registry, manager, events, background, plans>>
  BY DEF Dismiss
<1> QED  BY <1>1, BackToPanels, DialogKeys

LEMMA MkdirKeys ==
    ASSUME JobsInv, PanelsInv, SubmitMkdir
    PROVE  Quiet /\ PanelsInv'
<1>1. /\ loop = "on" /\ mode.is # "progress" /\ mode' = Browsing
      /\ UNCHANGED <<loop, active, registry, manager, events, background, plans>>
  BY DEF SubmitMkdir
<1>2. ModeType' /\ AsksOK' /\ mode'.is = "browsing" /\ CommandMatchesPanels'
  BY <1>1, BackToPanels
<1>3. Quiet  BY <1>1, <1>2 DEF Quiet
<1>4. PICK made, listed \in BOOLEAN :
        panels' = [(IF made /\ Resolves(Here.loc) /\ There = Here
                    THEN [panels EXCEPT ![Other(active)] = Missing(@, Here.loc, "ui")]
                    ELSE panels) EXCEPT ![active] = Reload(@, listed)]
  BY Zenon DEF SubmitMkdir
<1> DEFINE after == IF made /\ Resolves(Here.loc) /\ There = Here
                    THEN [panels EXCEPT ![Other(active)] = Missing(@, Here.loc, "ui")] ELSE panels
<1>12. /\ after \in {[panels EXCEPT ![Other(active)] = Missing(@, Here.loc, "ui")], panels}
       /\ panels' = [after EXCEPT ![active] = Reload(@, listed)]
  BY <1>4
<1> HIDE DEF after
<1> DEFINE s == active  o == Other(active)
<1>5. s \in Sides /\ o \in Sides /\ o # s  BY SidesAre DEF JobsInv
<1>6. panels \in [Sides -> PanelSet]  BY DEF PanelsInv, PanelsType
<1>7. /\ after \in [Sides -> PanelSet]
      /\ \A t \in Sides : /\ after[t].at = panels[t].at /\ after[t].sel = panels[t].sel
                          /\ after[t].quic = panels[t].quic
                          /\ after[t].misses \in {panels[t].misses, "ui"}
  <2>1. CASE after = panels  BY <2>1, <1>6
  <2>2. CASE after = [panels EXCEPT ![o] = Missing(@, Here.loc, "ui")]
    <3> DEFINE pn == Missing(panels[o], Here.loc, "ui")
    <3>1. /\ pn \in PanelSet /\ pn.at = panels[o].at /\ pn.sel = panels[o].sel
          /\ pn.quic = panels[o].quic /\ pn.misses \in {panels[o].misses, "ui"}
      BY <1>5, <1>6, MissingIs
    <3>2. after = [panels EXCEPT ![o] = pn]  BY <2>2
    <3> HIDE DEF pn, o
    <3> QED  BY <3>1, <3>2, <1>5, <1>6
  <2> QED  BY <2>1, <2>2, <1>12
<1> DEFINE pn == Reload(after[s], listed)
<1>8. /\ pn \in PanelSet /\ pn.at = after[s].at /\ pn.quic = after[s].quic
      /\ pn.sel = Nowhere /\ pn.misses \in {"none", "all"}
  BY <1>5, <1>7, ReloadIs
<1>9. panels' = [after EXCEPT ![s] = pn]  BY <1>12
<1> HIDE DEF pn, s, o
<1>10. /\ panels' \in [Sides -> PanelSet] /\ panels'[s] = pn
       /\ \A t \in Sides : t # s => panels'[t] = after[t]
  BY <1>5, <1>7, <1>8, <1>9
<1>11. ASSUME NEW t \in Sides
       PROVE  /\ panels'[t].sel # Nowhere => panels'[t].sel = panels'[t].at
              /\ panels'[t].misses = "job" => panels[t].misses = "job"
              /\ Resolves(panels'[t].at.loc)
              /\ \A p \in Profiles : Uses(panels'[t].at.loc, p) <=> Uses(panels[t].at.loc, p)
              /\ panels'[t].quic = panels[t].quic
  <2>1. panels'[t].at = panels[t].at /\ panels'[t].quic = panels[t].quic
    BY <1>7, <1>8, <1>10
  <2>2. panels'[t].sel \in {Nowhere, panels[t].sel}
    BY <1>7, <1>8, <1>10
  <2>3. panels'[t].misses \in {"none", "all", "ui", panels[t].misses}
    BY <1>7, <1>8, <1>10
  <2> QED  BY <2>1, <2>2, <2>3 DEF PanelsInv, SelectionOK, PanelsResolve
<1> QED  BY <1>1, <1>2, <1>3, <1>10, <1>11, QuietKeepsPanels

-----------------------------------------------------------------------------
(* The commands that start a job.                                          *)

LEMMA CommandTask ==
    ASSUME JobsInv, PanelsInv, NEW op \in Ops \ {"warm"}, NEW items \in {Here, Nowhere},
           NEW dst \in Places
    PROVE  /\ Task(op, items, Here, dst) \in Tasks
           /\ Task(op, items, Here, dst).op = op /\ Task(op, items, Here, dst).items = items
           /\ Task(op, items, Here, dst).src = Here /\ Task(op, items, Here, dst).dst = dst
           /\ op \in {"copy", "move", "scan", "sync"} /\ dst = There => Matches(Task(op, items, Here, dst))
           /\ op \notin {"copy", "move", "scan", "sync"} => Matches(Task(op, items, Here, dst))
           /\ op \notin {"connect", "archive"} => Leads(Task(op, items, Here, dst))
<1>1. Here \in Places  BY HereIs DEF JobsInv, PanelsInv
<1> DEFINE t == Task(op, items, Here, dst)
<1>2. /\ t \in Tasks /\ t.op = op /\ t.items = items /\ t.src = Here /\ t.dst = dst
      /\ t.side = active
  BY <1>1, TaskIs DEF JobsInv
<1> HIDE DEF t
<1>3. op \in {"copy", "move", "scan", "sync"} /\ dst = There => Matches(t)
  BY <1>2 DEF Matches
<1>4. op \notin {"copy", "move", "scan", "sync"} => Matches(t)  BY <1>2 DEF Matches
<1>5. op \notin {"connect", "archive"} => Leads(t)  BY <1>2 DEF Leads
<1> QED  BY <1>2, <1>3, <1>4, <1>5 DEF t

LEMMA KeysStart ==
    ASSUME JobsInv, PanelsInv, OpenArchive \/ DeleteKey \/ SyncKey \/ SubmitConnect
    PROVE  \E task \in Tasks : Starts(task)
<1>1. loop = "on" /\ mode.is # "progress"
  BY DEF OpenArchive, DeleteKey, SyncKey, SubmitConnect, Key
<1>2. UNCHANGED <<loop, panels, active, registry, events, background, plans>>
  BY DEF OpenArchive, DeleteKey, SyncKey, SubmitConnect
<1>3. /\ Here \in Places /\ There \in Places /\ Here.loc \in Locations /\ SelectedItems = Here
  BY HereIs, SelectedIs DEF JobsInv, PanelsInv
<1>4. CASE OpenArchive
  <2> DEFINE t == Task("archive", Nowhere, Here, Root(Archive(Here.loc)))
  <2>1. Archive(Here.loc) \in Locations /\ Spawn(t)  BY <1>4 DEF OpenArchive
  <2>2. Root(Archive(Here.loc)) \in Places  BY <2>1, PlacesAre
  <2>3. "archive" \in Ops \ {"warm"}  BY DEF Ops
  <2>4. t \in Tasks /\ t.op = "archive" /\ t.src = Here /\ t.dst = Root(Archive(Here.loc)) /\ Matches(t)
    BY <2>2, <2>3, CommandTask
  <2> HIDE DEF t
  <2>5. Leads(t)  BY <1>3, <2>4 DEF Leads
  <2>6. Approved(t)  BY <2>4 DEF Approved
  <2> QED  BY <1>1, <1>2, <2>1, <2>4, <2>5, <2>6 DEF Starts
<1>5. CASE DeleteKey
  <2> DEFINE t == Task("delete", SelectedItems, Here, Here)
  <2>1. ~ConfirmDelete /\ Spawn(t)  BY <1>5 DEF DeleteKey
  <2>2. "delete" \in Ops \ {"warm"}  BY DEF Ops, FileOps
  <2>3. t \in Tasks /\ t.op = "delete" /\ Matches(t) /\ Leads(t)
    BY <1>3, <2>2, CommandTask
  <2> HIDE DEF t
  <2>4. Approved(t)  BY <2>1, <2>3 DEF Approved
  <2> QED  BY <1>1, <1>2, <2>1, <2>3, <2>4 DEF Starts
<1>6. CASE SyncKey
  <2> DEFINE t == Task("scan", Here, Here, There)
  <2>1. Spawn(t)  BY <1>6 DEF SyncKey
  <2>2. "scan" \in Ops \ {"warm"}  BY DEF Ops
  <2>3. t \in Tasks /\ t.op = "scan" /\ Matches(t) /\ Leads(t)
    BY <1>3, <2>2, CommandTask
  <2> HIDE DEF t
  <2>4. Approved(t)  BY <2>3 DEF Approved
  <2> QED  BY <1>1, <1>2, <2>1, <2>3, <2>4 DEF Starts
<1>7. CASE SubmitConnect
  <2>1. PICK p \in Profiles : Spawn(Task("connect", Nowhere, Here, Root(Remote(p))))
    BY <1>7 DEF SubmitConnect
  <2> DEFINE t == Task("connect", Nowhere, Here, Root(Remote(p)))
  <2>2. Root(Remote(p)) \in Places  BY RemoteFacts, PlacesAre
  <2>3. "connect" \in Ops \ {"warm"}  BY DEF Ops
  <2>4. t \in Tasks /\ t.op = "connect" /\ t.dst = Root(Remote(p)) /\ Matches(t)
    BY <2>2, <2>3, CommandTask
  <2>5. Spawn(t)  BY <2>1
  <2> HIDE DEF t
  <2>6. Leads(t)  BY <2>4 DEF Leads
  <2>7. Approved(t)  BY <2>4 DEF Approved
  <2> QED  BY <1>1, <1>2, <2>4, <2>5, <2>6, <2>7 DEF Starts
<1> QED  BY <1>4, <1>5, <1>6, <1>7

LEMMA ConfirmStarts ==
    ASSUME JobsInv, PanelsInv, Confirm
    PROVE  \E task \in Tasks : Starts(task)
<1>1. /\ loop = "on" /\ mode.is = "confirm" /\ mode.task.op \in {"delete", "sync"}
      /\ UNCHANGED <<loop, panels, active, registry, events, background, plans>>
  BY DEF Confirm, JobsInv, AsksOK
<1>2. /\ Here \in Places /\ mode.task \in Tasks /\ mode.task.items \in {Here, Nowhere}
      /\ Matches(mode.task)
  BY <1>1, HereIs DEF JobsInv, PanelsInv, ModeType, CommandMatchesPanels, UserTask, Matches
<1>3. CASE mode.task.op = "delete"
  <2> DEFINE t == Task("delete", mode.task.items, Here, Here)
  <2>1. Spawn(t)  BY <1>3 DEF Confirm
  <2>2. "delete" \in Ops \ {"warm"}  BY DEF Ops, FileOps
  <2>3. t \in Tasks /\ t.op = "delete" /\ t.items = mode.task.items /\ Matches(t) /\ Leads(t)
    BY <1>2, <2>2, CommandTask
  <2> HIDE DEF t
  <2>4. Approved(t)  BY <1>1, <1>3, <2>3 DEF Approved
  <2> QED  BY <1>1, <2>1, <2>3, <2>4 DEF Starts
<1>4. CASE mode.task.op = "sync"
  <2>1. Spawn(mode.task)  BY <1>4 DEF Confirm
  <2>2. Leads(mode.task) /\ Approved(mode.task)  BY <1>1, <1>4 DEF Leads, Approved
  <2> QED  BY <1>1, <1>2, <1>4, <2>1, <2>2 DEF Starts
<1> QED  BY <1>1, <1>3, <1>4

LEMMA SubmitStarts ==
    ASSUME JobsInv, PanelsInv, SubmitText
    PROVE  (\E task \in Tasks : Starts(task)) \/ (Quiet /\ PanelsInv')
<1>1. /\ loop = "on" /\ mode.is = "text" /\ mode.task.op \in {"copy", "move", "rename"}
      /\ UNCHANGED <<loop, panels, active, registry, events, background, plans>>
  BY DEF SubmitText, JobsInv, AsksOK
<1>2. /\ Here \in Places /\ There \in Places /\ mode.task \in Tasks
      /\ mode.task.items \in {Here, Nowhere}
  BY <1>1, HereIs DEF JobsInv, PanelsInv, ModeType, CommandMatchesPanels, UserTask
<1>3. CASE Spawn(Task("rename", mode.task.items, Here, Here))
  <2> DEFINE t == Task("rename", mode.task.items, Here, Here)
  <2>1. "rename" \in Ops \ {"warm"}  BY DEF Ops, FileOps
  <2>2. t \in Tasks /\ t.op = "rename" /\ Matches(t) /\ Leads(t)  BY <1>2, <2>1, CommandTask
  <2>3. Spawn(t)  BY <1>3
  <2> HIDE DEF t
  <2>4. Approved(t)  BY <2>2 DEF Approved
  <2> QED  BY <1>1, <2>2, <2>3, <2>4 DEF Starts
<1>4. CASE /\ Spawn(Task(mode.task.op, mode.task.items, Here, There))
           /\ mode.task.op \in {"copy", "move"}
  <2> DEFINE t == Task(mode.task.op, mode.task.items, Here, There)
  <2>1. mode.task.op \in Ops \ {"warm"}  BY <1>4 DEF Ops, FileOps
  <2>2. t \in Tasks /\ t.op \in {"copy", "move"} /\ Matches(t) /\ Leads(t)
    BY <1>2, <1>4, <2>1, CommandTask
  <2>3. Spawn(t)  BY <1>4
  <2> HIDE DEF t
  <2>4. Approved(t)  BY <2>2 DEF Approved
  <2> QED  BY <1>1, <2>2, <2>3, <2>4 DEF Starts
<1>5. CASE mode' = Browsing /\ UNCHANGED manager
  BY <1>1, <1>5, BackToPanels, DialogKeys
<1> QED  BY <1>1, <1>3, <1>4, <1>5 DEF SubmitText

LEMMA StartsKeepsPanels ==
    ASSUME JobsInv, PanelsInv, NEW task \in Tasks, Starts(task)
    PROVE  PanelsInv'
<1>1. /\ loop = "on" /\ mode.is # "progress" /\ Matches(task) /\ Spawn(task)
      /\ UNCHANGED <<loop, panels, active, remotes, archives, events>> /\ UNCHANGED registry
      /\ nextId < MaxJobs /\ jobs' = Spawned(task)
      /\ mode' = [is |-> "progress", task |-> task, job |-> nextId]
  <2>1. nextId \in Nat  BY DEF JobsInv, ManagerType
  <2>2. nextId + 1 < MaxJobs /\ MaxJobs \in Nat  BY BoundsAssumption DEF Starts, Spawn
  <2>3. nextId < MaxJobs  BY <2>1, <2>2
  <2> QED  BY <2>3 DEF Starts, Spawn, registry
<1>2. jobs[nextId] = NoJob /\ \A j \in Ids : j # nextId => jobs'[j] = jobs[j]
  BY <1>1, NextIsFree, SpawnedIs DEF JobsInv
<1>3. CommandMatchesPanels'  BY <1>1 DEF CommandMatchesPanels, Matches, Here, There
<1>4. MissesOK'  BY <1>1 DEF PanelsInv, MissesOK
<1>5. ASSUME NEW p \in Profiles, NEW j \in Ids, Renews(j, p) PROVE Renews(j, p)'
  <2>1. j # nextId  BY <1>2, <1>5, NoJobIs DEF Renews
  <2> QED  BY <2>1, <1>1, <1>2, <1>5 DEF Renews, Succeeded, IsFinished
<1>6. Grows  BY <1>1, GrowsSame DEF JobsInv
<1>7. \A p \in Profiles, j \in Ids : Renews(j, p) => \E k \in Ids : Renews(k, p)'  BY <1>5
<1> QED  BY <1>1, <1>3, <1>4, <1>6, <1>7, PanelsStay

-----------------------------------------------------------------------------
(* Job threads and the panels.                                             *)

LEMMA ModeStays ==
    ASSUME PanelsInv, UNCHANGED <<loop, mode, panels, active>>
    PROVE  CommandMatchesPanels' /\ MissesOK'
BY DEF PanelsInv, CommandMatchesPanels, UserTask, MissesOK, Here, There

LEMMA RenewsStays ==
    ASSUME NEW p, NEW j \in Ids, Renews(j, p), jobs'[j].task = jobs[j].task,
           jobs'[j].st # "none", Succeeded(j) => Succeeded(j)'
    PROVE  Renews(j, p)'
BY DEF Renews

LEMMA RenewsBusy ==
    ASSUME JobsInv, NEW p, NEW j \in Ids, Renews(j, p)
    PROVE  jobs[j].st # "none"
BY SucceededBusy DEF Renews, JobsInv

LEMMA CancelKeepsPanels ==
    ASSUME JobsInv, PanelsInv, CancelKey
    PROVE  PanelsInv'
<1>1. /\ mode.is = "progress" /\ jobs' = [jobs EXCEPT ![mode.job].cancel = TRUE]
      /\ UNCHANGED <<loop, mode, panels, active, remotes, archives, events>> /\ UNCHANGED registry
  BY DEF CancelKey, registry
<1>2. mode.job \in Ids /\ jobs \in [Ids -> JobSet]
  BY <1>1 DEF JobsInv, ModeType, ManagerType
<1>3. \A j \in Ids : jobs'[j].task = jobs[j].task /\ jobs'[j].st = jobs[j].st
  <2>1. /\ [jobs[mode.job] EXCEPT !.cancel = TRUE].st = jobs[mode.job].st
        /\ [jobs[mode.job] EXCEPT !.cancel = TRUE].task = jobs[mode.job].task
    BY <1>2 DEF JobSet
  <2>2. jobs' = [jobs EXCEPT ![mode.job] = [jobs[mode.job] EXCEPT !.cancel = TRUE]]  BY <1>1
  <2> QED  BY <1>2, <2>1, <2>2
<1>4. \A p \in Profiles, j \in Ids : Renews(j, p) => \E k \in Ids : Renews(k, p)'
  <2>1. ASSUME NEW p \in Profiles, NEW j \in Ids, Renews(j, p) PROVE Renews(j, p)'
    BY <2>1, <1>1, <1>3 DEF Renews, Succeeded, IsFinished
  <2> QED  BY <2>1
<1>5. CommandMatchesPanels' /\ MissesOK' /\ Grows
  BY <1>1, ModeStays, GrowsSame DEF JobsInv
<1> QED  BY <1>1, <1>4, <1>5, PanelsStay

LEMMA ChangesKeepPanels ==
    ASSUME JobsInv, PanelsInv, NEW j \in Ids, JobChanges(j)
    PROVE  PanelsInv'
<1>1. /\ jobs[j].st = "running" /\ jobs[j].task.op \in FileOps \cup {"sync"}
      /\ panels' = [s \in Sides |-> IF panels[s].at.loc \in Changed(jobs[j].task)
                                    THEN Missing(panels[s], panels[s].at.loc, "job")
                                    ELSE panels[s]]
      /\ UNCHANGED <<loop, mode, active, remotes, archives, jobs, events>>
  BY DEF JobChanges, Running, registry, manager
<1>2. mode.is = "progress" /\ mode.task.op \in FileOps \cup {"sync"}
  <2>1. j \notin background  BY <1>1 DEF JobsInv, ManagerType, FileOps
  <2>2. mode.is = "progress" /\ mode.job = j  BY <1>1, <2>1 DEF JobsInv, OneJob
  <2> QED  BY <1>1, <2>2 DEF JobsInv, OneJob
<1>3. \A s \in Sides :
        /\ panels'[s] \in PanelSet /\ panels'[s].at = panels[s].at
        /\ panels'[s].quic = panels[s].quic /\ panels'[s].sel = panels[s].sel
  <2> TAKE s \in Sides
  <2>1. panels[s] \in PanelSet  BY PanelsAre DEF PanelsInv
  <2>2. panels'[s] \in {Missing(panels[s], panels[s].at.loc, "job"), panels[s]}  BY <1>1
  <2> QED  BY <2>1, <2>2, MissingIs
<1>4. PanelsType'
  <2>1. panels' = [s \in Sides |-> panels'[s]]  BY <1>1
  <2> QED  BY <1>3, <2>1 DEF PanelsType
<1>5. SelectionOK'  BY <1>3 DEF PanelsInv, SelectionOK
<1>6. PanelsResolve'  BY <1>1, <1>3 DEF PanelsInv, PanelsResolve, Resolves
<1>7. CommandMatchesPanels'
  <2>1. Here' = Here /\ There' = There
    <3>1. active \in Sides /\ Other(active) \in Sides  BY SidesAre DEF JobsInv
    <3> QED  BY <1>1, <1>3, <3>1 DEF Here, There
  <2> QED  BY <1>1, <2>1 DEF PanelsInv, CommandMatchesPanels, UserTask
<1>8. MissesOK'  BY <1>1, <1>2 DEF MissesOK
<1>9. GlyphsOK'
  <2>1. GlyphsOK  BY DEF PanelsInv
  <2>2. \A p \in Profiles, k \in Ids : Renews(k, p) => Renews(k, p)'  BY <1>1, RenewsSame
  <2>3. \A p \in Profiles, k \in Ids : Renews(k, p) => \E l \in Ids : Renews(l, p)'  BY <2>2
  <2>4. \A s \in Sides :
          /\ \A p \in Profiles : Uses(panels'[s].at.loc, p) <=> Uses(panels[s].at.loc, p)
          /\ panels'[s].quic = panels[s].quic
    BY <1>3
  <2> QED  BY <1>1, <2>1, <2>3, <2>4, GlyphsStay
<1> QED  BY <1>4, <1>5, <1>6, <1>7, <1>8, <1>9 DEF PanelsInv

LEMMA ProbesKeepPanels ==
    ASSUME JobsInv, PanelsInv, NEW j \in Ids, JobProbes(j)
    PROVE  PanelsInv'
<1>1. UNCHANGED <<loop, mode, panels, active, archives, jobs, events>>
  BY DEF JobProbes, manager
<1>2. PICK p \in Profiles, found \in Findings : remotes' = Probed(p, found)  BY DEF JobProbes
<1>3. \A q \in Profiles : remotes[q] # "unprobed" => remotes'[q] = remotes[q]
  BY <1>2, ProbedIs DEF JobsInv
<1>4. \A q \in Profiles, k \in Ids : Renews(k, q) => Renews(k, q)'  BY <1>1, RenewsSame
<1>5. CommandMatchesPanels' /\ MissesOK' /\ Grows  BY <1>1, ModeStays, ProbesKeepJobs
<1>6. \A q \in Profiles, k \in Ids : Renews(k, q) => \E l \in Ids : Renews(l, q)'  BY <1>4
<1> QED  BY <1>1, <1>3, <1>5, <1>6, PanelsStay

LEMMA DoneKeepsPanels ==
    ASSUME JobsInv, PanelsInv, NEW j \in Ids, JobDone(j)
    PROVE  PanelsInv'
<1> DEFINE task == jobs[j].task
<1>1. /\ jobs[j].st = "running" /\ jobs' = Step(j, "done")
      /\ UNCHANGED <<loop, mode, panels, active, events>>
  BY DEF JobDone, Running
<1>2. /\ jobs'[j].st = "done" /\ jobs'[j].task = jobs[j].task
      /\ \A k \in Ids : k # j => jobs'[k] = jobs[k]
  BY <1>1, StepIs DEF JobsInv
<1>3. Leads(task)  BY <1>1 DEF JobsInv, SlotsOK
<1>4. ASSUME NEW p \in Profiles, NEW k \in Ids, Renews(k, p) PROVE Renews(k, p)'
  <2>1. CASE k # j  BY <2>1, <1>1, <1>2, <1>4 DEF Renews, Succeeded, IsFinished
  <2>2. CASE k = j
    <3>1. Succeeded(k)'  BY <2>2, <1>2 DEF Succeeded
    <3> QED  BY <2>2, <3>1, <1>2, <1>4, RenewsStays
  <2> QED  BY <2>1, <2>2
<1>5. ASSUME NEW p \in Profiles
      PROVE  \/ remotes[p] # "unprobed" => remotes'[p] = remotes[p]
             \/ \E k \in Ids : Renews(k, p)'
  <2>1. CASE task.op = "connect" /\ remotes' = [remotes EXCEPT ![task.dst.loc[1]] = "unprobed"]
    <3>1. task.dst.loc # Local  BY <2>1, <1>3, LeadsTo
    <3>2. CASE task.dst.loc[1] = p
      <4>1. Succeeded(j)'  BY <1>2 DEF Succeeded
      <4>2. Renews(j, p)'  BY <2>1, <3>1, <3>2, <4>1, <1>2 DEF Renews
      <4> QED  BY <4>2
    <3>3. CASE task.dst.loc[1] # p  BY <2>1, <3>3 DEF JobsInv, RegistryType
    <3> QED  BY <3>2, <3>3
  <2>2. CASE task.op = "warm" /\ \E found \in Findings : remotes' = Probed(task.dst.loc[1], found)
    <3>1. task.dst.loc[1] \in Profiles  BY <2>2, <1>3, LeadsTo
    <3> QED  BY <2>2, <3>1, ProbedIs DEF JobsInv
  <2>3. CASE remotes' = remotes  BY <2>3
  <2> QED  BY <2>1, <2>2, <2>3 DEF JobDone
<1>6. CommandMatchesPanels' /\ MissesOK' /\ Grows  BY <1>1, ModeStays, DoneKeepsJobs
<1>7. \A p \in Profiles, k \in Ids : Renews(k, p) => \E l \in Ids : Renews(l, p)'  BY <1>4
<1> HIDE DEF task
<1> QED  BY <1>1, <1>5, <1>6, <1>7, PanelsStay

LEMMA ReportsKeepPanels ==
    ASSUME JobsInv, PanelsInv, NEW j \in Ids, JobReports(j)
    PROVE  PanelsInv'
<1> DEFINE e == [job |-> j, kind |-> "progress", outcome |-> "none"]
<1>1. /\ jobs[j].st = "running" /\ jobs' = [jobs EXCEPT ![j].told = TRUE]
      /\ events' = Append(events, e)
      /\ UNCHANGED <<loop, mode, panels, active, remotes, archives>> /\ UNCHANGED registry
  BY DEF JobReports, Running, Send, registry
<1>2. \A k \in Ids : jobs'[k].task = jobs[k].task /\ jobs'[k].st = jobs[k].st
  <2>1. jobs \in [Ids -> JobSet] /\ jobs[j] \in JobSet  BY DEF JobsInv, ManagerType
  <2>2. /\ [jobs[j] EXCEPT !.told = TRUE].st = jobs[j].st
        /\ [jobs[j] EXCEPT !.told = TRUE].task = jobs[j].task
    BY <2>1 DEF JobSet
  <2>3. jobs' = [jobs EXCEPT ![j] = [jobs[j] EXCEPT !.told = TRUE]]  BY <1>1
  <2> QED  BY <2>1, <2>2, <2>3
<1>3. e \in Event /\ e.job = j /\ e.kind = "progress"  BY DEF Event
<1> HIDE DEF e
<1>4. \A k \in Ids, i \in DOMAIN events : IsFinished(i, k) =>
        i \in DOMAIN events' /\ IsFinished(i, k)' /\ events'[i] = events[i]
  BY <1>1, <1>2, <1>3, ChannelGrows DEF JobsInv, ManagerType
<1>5. ASSUME NEW p \in Profiles, NEW k \in Ids, Renews(k, p) PROVE Renews(k, p)'
  <2>1. Succeeded(k) => Succeeded(k)'  BY <1>2, <1>4 DEF Succeeded
  <2>2. jobs'[k].st # "none"  BY <1>2, <1>5, RenewsBusy
  <2> QED  BY <2>1, <2>2, <1>2, <1>5, RenewsStays
<1>6. CommandMatchesPanels' /\ MissesOK' /\ Grows
  BY <1>1, ModeStays, GrowsSame DEF JobsInv
<1>7. \A p \in Profiles, k \in Ids : Renews(k, p) => \E l \in Ids : Renews(l, p)'  BY <1>5
<1> QED  BY <1>1, <1>6, <1>7, PanelsStay

LEMMA EndsKeepPanels ==
    ASSUME JobsInv, PanelsInv, NEW j \in Ids, JobEnds(j)
    PROVE  PanelsInv'
<1>1. PICK outcome \in Outcomes(j) :
        jobs' = Step(j, "ended") /\ events' = Send(j, "finished", outcome)
  BY DEF JobEnds
<1>2. /\ jobs[j].st \in {"running", "done"}
      /\ UNCHANGED <<loop, mode, panels, active, remotes, archives>> /\ UNCHANGED registry
  BY DEF JobEnds, registry
<1>3. /\ outcome \in {"Completed", "Failed", "Cancelled"}
      /\ jobs[j].st = "done" => outcome = "Completed"
  BY DEF Outcomes
<1> DEFINE e == [job |-> j, kind |-> "finished", outcome |-> outcome]
<1>4. e \in Event /\ e.job = j /\ e.kind = "finished" /\ e.outcome = outcome  BY <1>3 DEF Event
<1>5. events' = Append(events, e)  BY <1>1 DEF Send
<1> HIDE DEF e
<1>6. /\ jobs'[j].st = "ended" /\ jobs'[j].task = jobs[j].task
      /\ \A k \in Ids : k # j => jobs'[k] = jobs[k]
  BY <1>1, StepIs DEF JobsInv
<1>7. /\ \A k \in Ids, i \in DOMAIN events : IsFinished(i, k) =>
            i \in DOMAIN events' /\ IsFinished(i, k)' /\ events'[i] = events[i]
      /\ \E i \in DOMAIN events' : events'[i] = e
  <2>1. \A k \in Ids : k # j => (jobs'[k].st = "ended" <=> jobs[k].st = "ended")  BY <1>6
  <2>2. jobs[j].st # "ended" /\ events \in Seq(Event) /\ EventsOK
    BY <1>2 DEF JobsInv, ManagerType
  <2> QED  BY <1>4, <1>5, <1>6, <2>1, <2>2, ChannelGrows
<1>8. ASSUME NEW p \in Profiles, NEW k \in Ids, Renews(k, p) PROVE Renews(k, p)'
  <2>1. CASE k # j
    <3>1. Succeeded(k) => Succeeded(k)'  BY <2>1, <1>6, <1>7 DEF Succeeded
    <3>2. jobs'[k].st # "none"  BY <2>1, <1>6, <1>8, RenewsBusy
    <3> QED  BY <2>1, <3>1, <3>2, <1>6, <1>8, RenewsStays
  <2>2. CASE k = j
    <3>1. ASSUME Succeeded(j) PROVE Succeeded(j)'
      <4>1. jobs[j].st \in {"done", "ended"}  BY <3>1, SucceededBusy DEF JobsInv
      <4>2. outcome = "Completed"  BY <4>1, <1>2, <1>3
      <4>3. PICK i \in DOMAIN events' : events'[i] = e  BY <1>7
      <4>4. IsFinished(i, j)' /\ events'[i].outcome = "Completed"
        BY <4>2, <4>3, <1>4 DEF IsFinished
      <4> QED  BY <4>4 DEF Succeeded
    <3> QED  BY <2>2, <3>1, <1>6, <1>8, RenewsStays
  <2> QED  BY <2>1, <2>2
<1>9. CommandMatchesPanels' /\ MissesOK' /\ Grows
  BY <1>2, ModeStays, GrowsSame DEF JobsInv
<1>10. \A p \in Profiles, k \in Ids : Renews(k, p) => \E l \in Ids : Renews(l, p)'  BY <1>8
<1> QED  BY <1>2, <1>9, <1>10, PanelsStay

LEMMA ProgressKeepsPanels ==
    ASSUME JobsInv, PanelsInv, HandleProgress
    PROVE  PanelsInv'
<1>1. /\ events # << >> /\ Head(events).kind = "progress" /\ events' = Tail(events)
      /\ UNCHANGED <<loop, mode, panels, active, remotes, archives, jobs>> /\ UNCHANGED registry
  BY DEF HandleProgress, NextIs, registry, manager
<1>2. \A j \in Ids, i \in DOMAIN events : IsFinished(i, j) =>
        \E k \in DOMAIN events' : IsFinished(k, j)' /\ events'[k] = events[i]
  BY <1>1, ChannelDrops DEF JobsInv, ManagerType
<1>3. ASSUME NEW p \in Profiles, NEW k \in Ids, Renews(k, p) PROVE Renews(k, p)'
  <2>1. Succeeded(k) => Succeeded(k)'  BY <1>1, <1>2 DEF Succeeded
  <2>2. jobs'[k].st # "none"  BY <1>1, <1>3, RenewsBusy
  <2> QED  BY <2>1, <2>2, <1>1, <1>3, RenewsStays
<1>4. CommandMatchesPanels' /\ MissesOK' /\ Grows
  BY <1>1, ModeStays, GrowsSame DEF JobsInv
<1>5. \A p \in Profiles, k \in Ids : Renews(k, p) => \E l \in Ids : Renews(l, p)'  BY <1>3
<1> QED  BY <1>1, <1>4, <1>5, PanelsStay

-----------------------------------------------------------------------------
(* Finished jobs and the panels.                                           *)

LEMMA ReapRenews ==
    ASSUME JobsInv, Reaps, NEW p, NEW j \in Ids, j # J, Renews(j, p)
    PROVE  Renews(j, p)'
<1>1. jobs'[j] = jobs[j]
  <2>1. jobs[j] # NoJob  BY NoJobIs DEF Renews
  <2> QED  BY <2>1, ReapedSlots
<1>2. Succeeded(j) => Succeeded(j)'
  <2>1. /\ events \in Seq(Event) /\ EventsOK /\ events # << >> /\ Head(events).kind = "finished"
        /\ events' = Tail(events)
    BY DEF JobsInv, ManagerType, Reaps, NextIs
  <2>2. jobs'[J].st = "none"  BY ReapedSlots
  <2>3. \A k \in Ids : k # J => (jobs'[k].st = "ended" <=> jobs[k].st = "ended")
    BY ReapedSlots, NoJobIs
  <2>4. \A i \in DOMAIN events : IsFinished(i, j) =>
          \E k \in DOMAIN events' : IsFinished(k, j)' /\ events'[k] = events[i]
    BY <2>1, <2>2, <2>3, ChannelReaps
  <2> QED  BY <1>1, <2>4 DEF Succeeded
<1>3. jobs'[j].st # "none"  BY <1>1, RenewsBusy
<1> QED  BY <1>1, <1>2, <1>3, RenewsStays

\* The user's job is reaped; its dialog closes or asks, the panels are updated.
LEMMA ClosingKeepsPanels ==
    ASSUME JobsInv, PanelsInv, Reaps, loop' = loop, CommandMatchesPanels',
           panels' \in [Sides -> PanelSet],
           \A s \in Sides :
              /\ panels'[s].sel # Nowhere => panels'[s].sel = panels'[s].at
              /\ panels'[s].misses # "job"
              /\ panels'[s].at = panels[s].at \/ Resolves(panels[s].at.loc)'
              /\ \/ panels'[s].at = panels[s].at /\ panels'[s].quic = panels[s].quic
                 \/ /\ panels'[s].quic = QuicAvailable(panels'[s].at.loc, remotes')
                    /\ \A p \in Profiles : Uses(panels'[s].at.loc, p) => remotes'[p] # "unprobed",
           \A p \in Profiles : remotes[p] # "unprobed" => remotes'[p] = remotes[p],
           \A p \in Profiles : EnableQuic /\ Renews(J, p) => \E k \in Ids : Renews(k, p)'
    PROVE  PanelsInv'
<1>1. PanelsType' /\ SelectionOK' /\ MissesOK'  BY DEF PanelsType, SelectionOK, MissesOK
<1>2. PanelsResolve'
  <2>1. ASSUME NEW s \in Sides PROVE Resolves(panels[s].at.loc)'
    <3>1. CASE panels'[s].at = panels[s].at
      <4>1. Resolves(panels[s].at.loc)  BY DEF PanelsInv, PanelsResolve
      <4> QED  BY <3>1, <4>1 DEF Reaps, Grows, Resolves, IsRemote
    <3> QED  BY <3>1
  <2> QED  BY <2>1 DEF PanelsResolve
<1>3. GlyphsOK'
  <2>1. CASE ~EnableQuic  BY <2>1 DEF GlyphsOK
  <2>2. CASE EnableQuic
    <3>1. ASSUME NEW p \in Profiles, NEW j \in Ids, Renews(j, p)
          PROVE  \E k \in Ids : Renews(k, p)'
      <4>1. CASE j = J  BY <4>1, <3>1, <2>2
      <4>2. CASE j # J
        <5>1. Renews(j, p)'  BY <4>2, <3>1, ReapRenews
        <5> QED  BY <5>1
      <4> QED  BY <4>1, <4>2
    <3>2. GlyphsOK  BY DEF PanelsInv
    <3>3. \A s \in Sides :
            \/ /\ \A p \in Profiles : Uses(panels'[s].at.loc, p) <=> Uses(panels[s].at.loc, p)
               /\ panels'[s].quic = panels[s].quic
            \/ /\ panels'[s].quic = QuicAvailable(panels'[s].at.loc, remotes')
               /\ \A p \in Profiles : Uses(panels'[s].at.loc, p) => remotes'[p] # "unprobed"
      OBVIOUS
    <3> QED  BY <3>1, <3>2, <3>3, GlyphsStay
  <2> QED  BY <2>1, <2>2
<1> QED  BY <1>1, <1>2, <1>3 DEF PanelsInv

LEMMA BackgroundKeepsPanels ==
    ASSUME JobsInv, PanelsInv, FinishBackground
    PROVE  PanelsInv'
<1> DEFINE p == jobs[J].task.dst.loc[1]
<1>1. /\ NextIs("finished") /\ J \in background
      /\ UNCHANGED <<loop, mode, active, archives>> /\ panels' = Glyphs(p, remotes')
  BY DEF FinishBackground
<1>2. PICK found \in Findings :
        remotes' = IF \E s \in Sides : Uses(panels[s].at.loc, p) THEN Probed(p, found) ELSE remotes
  BY DEF FinishBackground
<1>3. Grows /\ Reaps  BY BackgroundKeepsJobs
<1>4. J \in Ids /\ jobs[J].task.op = "warm" /\ jobs[J].st = "ended"
  BY <1>1, <1>3, ReapedSlots DEF JobsInv, ManagerType
<1>5. p \in Profiles
  <2>1. Leads(jobs[J].task)  BY <1>4 DEF JobsInv, SlotsOK
  <2> QED  BY <1>4, <2>1, LeadsTo
<1>6. \A q : Renews(J, q) => q = p  BY DEF Renews
<1> HIDE DEF p
<1>7. /\ \A q \in Profiles : remotes[q] # "unprobed" => remotes'[q] = remotes[q]
      /\ (\E s \in Sides : Uses(panels[s].at.loc, p)) => remotes'[p] # "unprobed"
  <2>1. CASE \E s \in Sides : Uses(panels[s].at.loc, p)
    <3>1. remotes' = Probed(p, found)  BY <1>2, <2>1
    <3> QED  BY <3>1, <1>5, ProbedIs DEF JobsInv
  <2>2. CASE ~\E s \in Sides : Uses(panels[s].at.loc, p)
    <3>1. remotes' = remotes  BY <1>2, <2>2
    <3> QED  BY <3>1, <2>2
  <2> QED  BY <2>1, <2>2
<1>8. \A s \in Sides :
        /\ panels'[s] \in PanelSet /\ panels'[s].at = panels[s].at
        /\ panels'[s].sel = panels[s].sel /\ panels'[s].misses = panels[s].misses
        /\ IF Uses(panels[s].at.loc, p)
           THEN panels'[s].quic = QuicAvailable(panels[s].at.loc, remotes')
           ELSE panels'[s].quic = panels[s].quic
  <2> TAKE s \in Sides
  <2>1. panels[s] \in PanelSet  BY PanelsAre DEF PanelsInv
  <2>2. panels'[s] = IF Uses(panels[s].at.loc, p)
                     THEN [panels[s] EXCEPT !.quic = QuicAvailable(panels[s].at.loc, remotes')]
                     ELSE panels[s]
    BY <1>1 DEF Glyphs
  <2> DEFINE b == QuicAvailable(panels[s].at.loc, remotes')
  <2>3. b \in BOOLEAN  BY QuicIs
  <2>4. panels'[s] = IF Uses(panels[s].at.loc, p) THEN [panels[s] EXCEPT !.quic = b] ELSE panels[s]
    BY <2>2
  <2> HIDE DEF b
  <2>5. /\ [panels[s] EXCEPT !.quic = b] \in PanelSet
        /\ [panels[s] EXCEPT !.quic = b].at = panels[s].at
        /\ [panels[s] EXCEPT !.quic = b].sel = panels[s].sel
        /\ [panels[s] EXCEPT !.quic = b].misses = panels[s].misses
        /\ [panels[s] EXCEPT !.quic = b].quic = b
    BY <2>1, <2>3 DEF PanelSet
  <2>6. CASE Uses(panels[s].at.loc, p)
    <3>1. panels'[s] = [panels[s] EXCEPT !.quic = b]  BY <2>4, <2>6
    <3> QED  BY <3>1, <2>5, <2>6 DEF b
  <2>7. CASE ~Uses(panels[s].at.loc, p)
    <3>1. panels'[s] = panels[s]  BY <2>4, <2>7
    <3> QED  BY <3>1, <2>1, <2>7
  <2> QED  BY <2>6, <2>7
<1>9. PanelsType'
  <2>1. panels' = [s \in Sides |-> panels'[s]]  BY <1>1 DEF Glyphs
  <2> QED  BY <1>8, <2>1 DEF PanelsType
<1>10. SelectionOK' /\ MissesOK'  BY <1>1, <1>8 DEF PanelsInv, SelectionOK, MissesOK
<1>11. PanelsResolve'
  <2>1. ASSUME NEW s \in Sides PROVE Resolves(panels[s].at.loc)'
    <3>1. Resolves(panels[s].at.loc) /\ panels'[s].at = panels[s].at
      BY <1>8 DEF PanelsInv, PanelsResolve
    <3> QED  BY <3>1, <1>3 DEF Grows, Resolves, IsRemote
  <2> QED  BY <2>1 DEF PanelsResolve
<1>12. CommandMatchesPanels'
  <2>1. Here' = Here /\ There' = There
    <3>1. active \in Sides /\ Other(active) \in Sides  BY SidesAre DEF JobsInv
    <3> QED  BY <1>1, <1>8, <3>1 DEF Here, There
  <2> QED  BY <1>1, <2>1 DEF PanelsInv, CommandMatchesPanels, UserTask
<1>13. GlyphsOK'
  <2>1. ASSUME NEW q \in Profiles, NEW j \in Ids, Renews(j, q)
        PROVE  \/ \E k \in Ids : Renews(k, q)'
               \/ \A s \in Sides : Uses(panels'[s].at.loc, q) =>
                     /\ panels'[s].quic = QuicAvailable(panels'[s].at.loc, remotes')
                     /\ remotes'[q] # "unprobed"
    <3>1. CASE j = J
      <4>1. q = p  BY <3>1, <2>1, <1>6
      <4> QED  BY <4>1, <1>7, <1>8
    <3>2. CASE j # J
      <4>1. Renews(j, q)'  BY <3>2, <2>1, <1>3, ReapRenews
      <4> QED  BY <4>1
    <3> QED  BY <3>1, <3>2
  <2>2. ASSUME NEW s \in Sides
        PROVE  \/ /\ \A q \in Profiles : Uses(panels'[s].at.loc, q) <=> Uses(panels[s].at.loc, q)
                  /\ panels'[s].quic = panels[s].quic
               \/ /\ panels'[s].quic = QuicAvailable(panels'[s].at.loc, remotes')
                  /\ \A q \in Profiles : Uses(panels'[s].at.loc, q) => remotes'[q] # "unprobed"
    <3>1. CASE ~Uses(panels[s].at.loc, p)  BY <3>1, <1>8
    <3>2. CASE Uses(panels[s].at.loc, p)
      <4>1. panels'[s].quic = QuicAvailable(panels'[s].at.loc, remotes')  BY <3>2, <1>8
      <4>2. remotes'[p] # "unprobed"  BY <3>2, <1>7
      <4>3. \A q \in Profiles : Uses(panels'[s].at.loc, q) => q = p  BY <3>2, <1>8, UsesOne
      <4> QED  BY <4>1, <4>2, <4>3
    <3> QED  BY <3>1, <3>2
  <2>3. GlyphsOK  BY DEF PanelsInv
  <2> QED  BY <1>1, <1>7, <2>1, <2>2, <2>3, GlyphsStay
<1> QED  BY <1>9, <1>10, <1>11, <1>12, <1>13 DEF PanelsInv

LEMMA FinishIs ==
    ASSUME JobsInv, NEW ops, Finish(ops)
    PROVE  /\ NextIs("finished") /\ J \in Ids /\ J \notin background /\ events' = Tail(events)
           /\ IsCurrent /\ mode.is = "progress" /\ mode.job = J
           /\ jobs[J].task = mode.task /\ jobs[J].st = "ended" /\ mode.task.op \in ops
           /\ Leads(mode.task) /\ mode.task \in Tasks /\ loop = "on"
           /\ 1 \in DOMAIN events /\ events[1] = Head(events) /\ IsFinished(1, J)
<1>1. /\ NextIs("finished") /\ J \notin background /\ events' = Tail(events) /\ IsCurrent
      /\ mode.is = "progress" /\ mode.job = J /\ jobs[J].task.op \in ops /\ loop = "on"
  BY DEF Finish, IsCurrent, NextIs
<1>2. events \in Seq(Event) /\ events # << >> /\ EventsOK
  BY <1>1 DEF JobsInv, ManagerType, NextIs
<1>3. 1 \in DOMAIN events /\ events[1] = Head(events) /\ Head(events) \in Event
  BY <1>1, <1>2, TailEvents
<1>4. J \in Ids  BY <1>3 DEF J, Event
<1>5. IsFinished(1, J)  BY <1>1, <1>3 DEF IsFinished, NextIs, J
<1>6. jobs[J].st = "ended"  BY <1>2, <1>3, <1>4, <1>5 DEF EventsOK
<1>7. jobs[J].task = mode.task  BY <1>1 DEF JobsInv, OneJob
<1>8. Leads(mode.task)  BY <1>4, <1>6, <1>7 DEF JobsInv, SlotsOK
<1>9. mode.task \in Tasks  BY DEF JobsInv, ModeType
<1> QED  BY <1>1, <1>3, <1>4, <1>5, <1>6, <1>7, <1>8, <1>9

\* A closing that starts nothing.
LEMMA PlainReaps ==
    ASSUME JobsInv, NEW ops, Finish(ops), jobs' = Reaped, nextId' = nextId, background' = background,
           Grows, archives' = archives, plans' \in [Ids -> {"none", "empty", "some"}],
           \A j \in Ids : j # J => plans'[j] = plans[j]
    PROVE  Reaps
<1>1. NextIs("finished") /\ J \notin background /\ events' = Tail(events)  BY FinishIs
<1>2. /\ jobs' \in [Ids -> JobSet] /\ jobs'[J] = NoJob
      /\ \A j \in Ids : j # J => jobs'[j] = jobs[j]
  BY <1>1, ReapedIs
<1>3. background' = background \ {J}  BY <1>1
<1> QED  BY <1>1, <1>2, <1>3 DEF Reaps

LEMMA FileOpCloses ==
    ASSUME JobsInv, PanelsInv, FinishFileOp
    PROVE  Reaps /\ JobsInv' /\ PanelsInv'
<1> DEFINE ops == FileOps \cup {"sync"}
<1>1. /\ Finish(ops) /\ mode' = Browsing /\ jobs' = Reaped
      /\ ReloadBoth
      /\ UNCHANGED <<loop, active, remotes, archives, nextId, background, plans>> /\ UNCHANGED registry
  BY DEF FinishFileOp, registry
<1>2. /\ J \in Ids /\ J \notin background /\ IsCurrent /\ mode.task.op \in ops
      /\ jobs[J].task = mode.task
  BY <1>1, FinishIs
<1> HIDE DEF ops
<1>3. Grows  BY <1>1, GrowsSame DEF JobsInv
<1>4. Reaps  BY <1>1, <1>3, PlainReaps DEF JobsInv, ManagerType
<1>5. ModeType' /\ AsksOK' /\ mode'.is = "browsing" /\ CommandMatchesPanels'
  BY <1>1, BackToPanels
<1>6. JobsInv'  BY <1>2, <1>4, <1>5, ClosingKeepsJobs
<1>7. /\ panels' \in [Sides -> PanelSet]
      /\ \A s \in Sides :
            /\ panels'[s].at = panels[s].at /\ panels'[s].quic = panels[s].quic
            /\ panels'[s].sel = Nowhere /\ panels'[s].misses # "job"
  BY <1>1, BothReload DEF PanelsInv
<1>9. \A p : ~Renews(J, p)  BY <1>2 DEF Renews, ops, FileOps
<1>10. PanelsInv'
  BY <1>1, <1>4, <1>5, <1>7, <1>9, ClosingKeepsPanels
<1> QED  BY <1>4, <1>6, <1>10

LEMMA NoneMissed ==
    ASSUME PanelsInv, loop = "on", mode.is = "progress", mode.task.op \notin FileOps \cup {"sync"}
    PROVE  \A s \in Sides : panels[s].misses # "job"
BY DEF PanelsInv, MissesOK

LEMMA ScanCloses ==
    ASSUME JobsInv, PanelsInv, FinishScan
    PROVE  Reaps /\ JobsInv' /\ PanelsInv'
<1>1. /\ Finish({"scan"}) /\ jobs' = Reaped
      /\ plans' = [plans EXCEPT ![J] = IF Completed THEN "none" ELSE @]
      /\ UNCHANGED <<loop, panels, active, remotes, archives, nextId, background>>
      /\ UNCHANGED registry
  BY DEF FinishScan, registry
<1>2. /\ J \in Ids /\ J \notin background /\ IsCurrent /\ mode.task.op = "scan"
      /\ jobs[J].task = mode.task /\ mode.is = "progress" /\ mode.task \in Tasks /\ loop = "on"
  BY <1>1, FinishIs
<1>3. Grows  BY <1>1, GrowsSame DEF JobsInv
<1>4. /\ plans' \in [Ids -> {"none", "empty", "some"}]
      /\ \A j \in Ids : j # J => plans'[j] = plans[j]
  <2>1. plans \in [Ids -> {"none", "empty", "some"}]  BY DEF JobsInv, ManagerType
  <2>2. plans' = [plans EXCEPT ![J] = IF Completed THEN "none" ELSE plans[J]]  BY <1>1
  <2>3. (IF Completed THEN "none" ELSE plans[J]) \in {"none", "empty", "some"}  BY <1>2, <2>1
  <2> DEFINE new == IF Completed THEN "none" ELSE plans[J]
  <2>4. plans' = [plans EXCEPT ![J] = new] /\ new \in {"none", "empty", "some"}  BY <2>2, <2>3
  <2> HIDE DEF new
  <2> QED  BY <1>2, <2>1, <2>4
<1>5. Reaps  BY <1>1, <1>3, <1>4, PlainReaps
<1>6. ModeType' /\ AsksOK' /\ mode'.is # "progress" /\ CommandMatchesPanels'
  <2>1. CASE mode' = Browsing  BY <1>1, <2>1, BackToPanels
  <2>2. CASE mode' = Mode("confirm", [mode.task EXCEPT !.op = "sync"])
    <3> DEFINE t == [mode.task EXCEPT !.op = "sync"]
    <3>1. /\ t \in Tasks /\ t.op = "sync" /\ t.items = mode.task.items /\ t.src = mode.task.src
          /\ t.dst = mode.task.dst /\ t.side = mode.task.side
      BY <1>2 DEF Tasks, Ops
    <3>2. mode' = Mode("confirm", t)  BY <2>2
    <3> HIDE DEF t
    <3>3. mode'.is = "confirm" /\ mode'.task = t /\ mode'.job = NoId  BY <3>2, ModeIs
    <3>4. ModeType' /\ AsksOK'  BY <1>1, <1>2, <3>1, <3>3 DEF JobsInv, ModeType, AsksOK
    <3>5. CommandMatchesPanels'
      BY <1>1, <1>2, <3>1, <3>3 DEF PanelsInv, CommandMatchesPanels, UserTask, Here, There
    <3> QED  BY <3>3, <3>4, <3>5
  <2> QED  BY <2>1, <2>2 DEF FinishScan
<1>7. JobsInv'  BY <1>2, <1>5, <1>6, ClosingKeepsJobs
<1>8. \A s \in Sides :
        /\ panels'[s].sel # Nowhere => panels'[s].sel = panels'[s].at
        /\ panels'[s].misses # "job" /\ panels'[s].at = panels[s].at
        /\ panels'[s].quic = panels[s].quic
  <2>1. \A s \in Sides : panels[s].misses # "job"  BY <1>2, NoneMissed DEF FileOps
  <2> QED  BY <1>1, <2>1 DEF PanelsInv, SelectionOK
<1>9. \A p : ~Renews(J, p)  BY <1>2 DEF Renews
<1>10. panels' \in [Sides -> PanelSet]  BY <1>1 DEF PanelsInv, PanelsType
<1>11. PanelsInv'
  BY <1>1, <1>5, <1>6, <1>8, <1>9, <1>10, ClosingKeepsPanels
<1> QED  BY <1>5, <1>7, <1>11

\* One panel shows where the job has led, with the glyph of that place.
LEMMA ShowPlace ==
    ASSUME PanelsInv, NEW side \in Sides, NEW place \in Places,
           side = mode.task.side, \E listed \in BOOLEAN : panels' = Switched(place, listed),
           \A loc : loc = place.loc => Resolves(loc)',
           \A p \in Profiles : Uses(place.loc, p) => remotes'[p] # "unprobed",
           \A s \in Sides : panels[s].misses # "job"
    PROVE  /\ panels' \in [Sides -> PanelSet]
           /\ \A s \in Sides :
                 /\ panels'[s].sel # Nowhere => panels'[s].sel = panels'[s].at
                 /\ panels'[s].misses # "job"
                 /\ panels'[s].at = panels[s].at \/ Resolves(panels[s].at.loc)'
                 /\ \/ panels'[s].at = panels[s].at /\ panels'[s].quic = panels[s].quic
                    \/ /\ panels'[s].quic = QuicAvailable(panels'[s].at.loc, remotes')
                       /\ \A p \in Profiles : Uses(panels'[s].at.loc, p) => remotes'[p] # "unprobed"
<1>8. PICK listed \in BOOLEAN : panels' = Switched(place, listed)  OBVIOUS
<1> DEFINE b == QuicAvailable(place.loc, remotes')
           shown == Show(panels[side], place, listed)
           pn == [shown EXCEPT !.quic = b]
<1>1. b \in BOOLEAN  BY QuicIs
<1>2. panels[side] \in PanelSet  BY PanelsAre DEF PanelsInv
<1>3. /\ shown \in PanelSet /\ shown.at = place /\ shown.sel = Nowhere
      /\ shown.misses \in {"none", "all"}
  BY <1>2, ShowIs
<1>4. panels' = [panels EXCEPT ![side] = pn]  BY <1>8 DEF Switched
<1> HIDE DEF b, shown
<1>5. /\ pn \in PanelSet /\ pn.at = place /\ pn.sel = Nowhere /\ pn.misses # "job"
      /\ pn.quic = b
  BY <1>1, <1>3 DEF PanelSet
<1> HIDE DEF pn
<1>6. /\ panels' \in [Sides -> PanelSet] /\ panels'[side] = pn
      /\ \A s \in Sides : s # side => panels'[s] = panels[s]
  BY <1>4, <1>5, PutPanel DEF PanelsInv
<1>7. ASSUME NEW s \in Sides
      PROVE  /\ panels'[s].sel # Nowhere => panels'[s].sel = panels'[s].at
             /\ panels'[s].misses # "job"
             /\ panels'[s].at = panels[s].at \/ Resolves(panels[s].at.loc)'
             /\ \/ panels'[s].at = panels[s].at /\ panels'[s].quic = panels[s].quic
                \/ /\ panels'[s].quic = QuicAvailable(panels'[s].at.loc, remotes')
                   /\ \A p \in Profiles : Uses(panels'[s].at.loc, p) => remotes'[p] # "unprobed"
  <2>1. CASE s # side  BY <2>1, <1>6 DEF PanelsInv, SelectionOK
  <2>2. CASE s = side
    <3>1. panels'[s].at = place /\ panels'[s].quic = b /\ panels'[s].sel = Nowhere
          /\ panels'[s].misses # "job"
      BY <2>2, <1>5, <1>6
    <3>2. Resolves(panels[s].at.loc)'
      <4>1. panels'[s].at.loc = place.loc  BY <3>1
      <4> QED  BY <4>1 DEF Resolves
    <3> QED  BY <3>1, <3>2 DEF b
  <2> QED  BY <2>1, <2>2
<1> QED  BY <1>6, <1>7

LEMMA ConnectCloses ==
    ASSUME JobsInv, PanelsInv, FinishConnect
    PROVE  Reaps /\ JobsInv' /\ PanelsInv'
<1>1. Finish({"connect"}) /\ mode' = Browsing /\ UNCHANGED <<loop, active, archives, plans>>
  BY DEF FinishConnect
<1>2. /\ J \in Ids /\ J \notin background /\ IsCurrent /\ mode.is = "progress" /\ mode.job = J
      /\ mode.task.op = "connect" /\ jobs[J].task = mode.task /\ jobs[J].st = "ended"
      /\ Leads(mode.task) /\ mode.task \in Tasks /\ loop = "on" /\ NextIs("finished")
      /\ events' = Tail(events)
      /\ 1 \in DOMAIN events /\ events[1] = Head(events) /\ IsFinished(1, J)
  BY <1>1, FinishIs
<1>3. ModeType' /\ AsksOK' /\ mode'.is = "browsing" /\ CommandMatchesPanels'
  BY <1>1, BackToPanels
<1>4. \A s \in Sides : panels[s].misses # "job"  BY <1>2, NoneMissed DEF FileOps
<1>5. CASE ~Completed
  <2>1. jobs' = Reaped /\ UNCHANGED <<panels, remotes, nextId, background>>
    BY <1>5 DEF FinishConnect
  <2>2. Grows  BY <1>1, <2>1, GrowsSame DEF JobsInv, registry
  <2>3. Reaps  BY <1>1, <2>1, <2>2, PlainReaps DEF JobsInv, ManagerType
  <2>4. JobsInv'  BY <1>2, <1>3, <2>3, ClosingKeepsJobs
  <2>5. ~Succeeded(J)
    <3>1. ASSUME NEW i \in DOMAIN events, IsFinished(i, J) PROVE events[i].outcome # "Completed"
      <4>1. i = 1  BY <3>1, <1>2 DEF JobsInv, EventsOK
      <4> QED  BY <4>1, <1>2, <1>5 DEF Completed
    <3> QED  BY <3>1, <1>2 DEF Succeeded
  <2>6. \A p : ~Renews(J, p)  BY <2>5, <1>2 DEF Renews
  <2>7. panels' \in [Sides -> PanelSet]  BY <2>1 DEF PanelsInv, PanelsType
  <2>8. \A s \in Sides :
          /\ panels'[s].sel # Nowhere => panels'[s].sel = panels'[s].at
          /\ panels'[s].misses # "job" /\ panels'[s].at = panels[s].at
          /\ panels'[s].quic = panels[s].quic
    BY <1>4, <2>1 DEF PanelsInv, SelectionOK
  <2>9. PanelsInv'
    BY <1>1, <1>3, <2>1, <2>3, <2>6, <2>7, <2>8, ClosingKeepsPanels
  <2> QED  BY <2>3, <2>4, <2>9
<1>6. CASE Completed
  <2> DEFINE place == mode.task.dst
             p == place.loc[1]
             warm == [Task("warm", Nowhere, place, place) EXCEPT !.side = mode.task.side]
  <2>1. /\ \E found \in Findings : remotes' = Probed(p, found)
        /\ \E listed \in BOOLEAN : panels' = Switched(place, listed)
        /\ IF EnableQuic
           THEN /\ jobs' = [Spawned(warm) EXCEPT ![J] = NoJob]
                /\ nextId' = nextId + 1 /\ background' = background \cup {nextId}
           ELSE jobs' = Reaped /\ UNCHANGED <<nextId, background>>
    BY <1>6 DEF FinishConnect
  <2>2. /\ p \in Profiles /\ place = Root(Remote(p)) /\ place.loc = Remote(p)
        /\ place.loc # Local /\ place.loc \in Locations /\ place \in Places
    <3>1. PICK q \in Profiles : place = Root(Remote(q)) /\ place.loc = Remote(q)
                                /\ place.loc[1] = q /\ place.loc # Local
      BY <1>2, LeadsTo
    <3> QED  BY <3>1, RemoteFacts, PlacesAre
  <2>3. PICK found \in Findings : remotes' = Probed(p, found)  BY <2>1
  <2>4. mode.task.side \in Sides  BY <1>2, TasksAre
  <2>5. /\ warm \in Tasks /\ warm.op = "warm" /\ warm.dst = place
    <3> DEFINE t == Task("warm", Nowhere, place, place)
    <3>1. "warm" \in Ops  BY DEF Ops
    <3>2. t \in Tasks /\ t.op = "warm" /\ t.dst = place  BY <2>2, <3>1, TaskIs DEF JobsInv
    <3>3. warm = [t EXCEPT !.side = mode.task.side]  OBVIOUS
    <3> HIDE DEF t
    <3> QED  BY <2>4, <3>2, <3>3 DEF Tasks
  <2>6. Succeeded(J) /\ remotes[p] # "none"
    <3>1. Succeeded(J)  BY <1>2, <1>6 DEF Succeeded, Completed
    <3>2. Landed(J)  BY <3>1, <1>2 DEF JobsInv, ResultsOK
    <3> QED  BY <3>1, <3>2, <1>2 DEF Landed
  <2>8. Leads(warm)  BY <2>2, <2>5 DEF Leads
  <2>9. \A s \in Sides : panels[s].misses # "job"  BY <1>4
  <2>10. \E listed \in BOOLEAN : panels' = Switched(place, listed)  BY <2>1
  <2> HIDE DEF place, p, warm
  <2>11. Grows  BY <1>1, <2>2, <2>3, GrowsProbed DEF JobsInv
  <2>12. /\ remotes'[p] # "unprobed" /\ remotes'[p] # "none"
         /\ \A q \in Profiles : remotes[q] # "unprobed" => remotes'[q] = remotes[q]
    BY <2>2, <2>3, <2>6, ProbedIs DEF JobsInv
  <2>13. \A loc : loc = place.loc => Resolves(loc)'
    <3> TAKE loc
    <3>1. IsRemote(Remote(p)) /\ Remote(p)[1] = p  BY <2>2, RemoteFacts
    <3> QED  BY <3>1, <2>2, <2>12 DEF Resolves
  <2>14. \A q \in Profiles : Uses(place.loc, q) => remotes'[q] # "unprobed"
    BY <2>2, <2>12, RemoteFacts
  <2>15. /\ panels' \in [Sides -> PanelSet]
         /\ \A s \in Sides :
               /\ panels'[s].sel # Nowhere => panels'[s].sel = panels'[s].at
               /\ panels'[s].misses # "job"
               /\ panels'[s].at = panels[s].at \/ Resolves(panels[s].at.loc)'
               /\ \/ panels'[s].at = panels[s].at /\ panels'[s].quic = panels[s].quic
                  \/ /\ panels'[s].quic = QuicAvailable(panels'[s].at.loc, remotes')
                     /\ \A q \in Profiles : Uses(panels'[s].at.loc, q) => remotes'[q] # "unprobed"
    BY <2>2, <2>4, <2>9, <2>10, <2>13, <2>14, ShowPlace
  <2>16. CASE ~EnableQuic
    <3>1. jobs' = Reaped /\ UNCHANGED <<nextId, background>>  BY <2>1, <2>16
    <3>2. Reaps  BY <1>1, <2>11, <3>1, PlainReaps DEF JobsInv, ManagerType
    <3>3. JobsInv'  BY <1>2, <1>3, <3>2, ClosingKeepsJobs
    <3>4. PanelsInv'
      BY <1>1, <1>3, <2>12, <2>15, <2>16, <3>2, ClosingKeepsPanels
    <3> QED  BY <3>2, <3>3, <3>4
  <2>17. CASE EnableQuic
    <3>1. /\ jobs' = [Spawned(warm) EXCEPT ![J] = NoJob]
          /\ nextId' = nextId + 1 /\ background' = background \cup {nextId}
      BY <2>1, <2>17
    <3>2. nextId < MaxJobs  BY <1>2 DEF JobsInv, OneJob
    <3>3. /\ nextId \in Ids /\ Spawned(warm) \in [Ids -> JobSet]
          /\ Spawned(warm)[nextId].task = warm /\ Spawned(warm)[nextId].st = "running"
          /\ \A j \in Ids : j # nextId => Spawned(warm)[j] = jobs[j]
      BY <2>5, <3>2, SpawnedIs DEF JobsInv
    <3>4. nextId # J  BY <1>2, <3>2, NextIsFree
    <3> DEFINE f == Spawned(warm)
    <3>5. jobs' = [f EXCEPT ![J] = NoJob]  BY <3>1
    <3> HIDE DEF f
    <3>6. /\ jobs' \in [Ids -> JobSet] /\ jobs'[J] = NoJob
          /\ jobs'[nextId].task = warm /\ jobs'[nextId].st = "running"
          /\ \A j \in Ids \ {nextId} : j # J => jobs'[j] = jobs[j]
      <4>1. f \in [Ids -> JobSet] /\ NoJob \in JobSet  BY <3>3, NoJobIs DEF f
      <4>2. /\ f[nextId].task = warm /\ f[nextId].st = "running"
            /\ \A j \in Ids : j # nextId => f[j] = jobs[j]
        BY <3>3 DEF f
      <4>3. /\ jobs' \in [Ids -> JobSet] /\ jobs'[J] = NoJob
            /\ \A j \in Ids : j # J => jobs'[j] = f[j]
        BY <1>2, <3>5, <4>1
      <4> QED  BY <3>3, <3>4, <4>2, <4>3
    <3>7. Reaps
      BY <1>1, <1>2, <2>5, <2>8, <2>11, <3>1, <3>2, <3>6 DEF Reaps, JobsInv, ManagerType
    <3>8. JobsInv'  BY <1>2, <1>3, <3>7, ClosingKeepsJobs
    <3>9. \A q \in Profiles : Renews(J, q) => \E k \in Ids : Renews(k, q)'
      <4>1. ASSUME NEW q \in Profiles, Renews(J, q), NEW k \in Ids, k = nextId
            PROVE  Renews(k, q)'
        <5>1. q = p  BY <4>1, <1>2 DEF Renews, p, place
        <5>2. /\ jobs'[k].task.op = "warm" /\ jobs'[k].st # "none"
              /\ jobs'[k].task.dst.loc # Local /\ jobs'[k].task.dst.loc[1] = p
          BY <4>1, <2>2, <2>5, <3>6 DEF p
        <5> QED  BY <5>1, <5>2 DEF Renews
      <4>2. PICK k \in Ids : k = nextId  BY <3>3
      <4> QED  BY <4>1, <4>2
    <3>10. PanelsInv'
      BY <1>1, <1>3, <2>12, <2>15, <3>7, <3>9, ClosingKeepsPanels
    <3> QED  BY <3>7, <3>8, <3>10
  <2> QED  BY <2>16, <2>17
<1> QED  BY <1>5, <1>6

LEMMA ArchiveCloses ==
    ASSUME JobsInv, PanelsInv, FinishArchive
    PROVE  Reaps /\ JobsInv' /\ PanelsInv'
<1>1. /\ Finish({"archive"}) /\ mode' = Browsing /\ jobs' = Reaped
      /\ UNCHANGED <<loop, active, archives, nextId, background, plans>>
  BY DEF FinishArchive
<1>2. /\ J \in Ids /\ J \notin background /\ IsCurrent /\ mode.is = "progress"
      /\ mode.task.op = "archive" /\ jobs[J].task = mode.task
      /\ mode.task \in Tasks /\ loop = "on" /\ Leads(mode.task)
      /\ 1 \in DOMAIN events /\ events[1] = Head(events) /\ IsFinished(1, J)
  BY <1>1, FinishIs
<1>3. ModeType' /\ AsksOK' /\ mode'.is = "browsing" /\ CommandMatchesPanels'
  BY <1>1, BackToPanels
<1>4. \A s \in Sides : panels[s].misses # "job"  BY <1>2, NoneMissed DEF FileOps
<1>5. \A p : ~Renews(J, p)  BY <1>2 DEF Renews
<1>6. CASE ~Completed
  <2>1. UNCHANGED <<panels, remotes>>  BY <1>6 DEF FinishArchive
  <2>2. Grows  BY <1>1, <2>1, GrowsSame DEF JobsInv, registry
  <2>3. Reaps  BY <1>1, <2>2, PlainReaps DEF JobsInv, ManagerType
  <2>4. JobsInv'  BY <1>2, <1>3, <2>3, ClosingKeepsJobs
  <2>5. panels' \in [Sides -> PanelSet]  BY <2>1 DEF PanelsInv, PanelsType
  <2>6. \A s \in Sides :
          /\ panels'[s].sel # Nowhere => panels'[s].sel = panels'[s].at
          /\ panels'[s].misses # "job" /\ panels'[s].at = panels[s].at
          /\ panels'[s].quic = panels[s].quic
    BY <1>4, <2>1 DEF PanelsInv, SelectionOK
  <2>7. PanelsInv'
    BY <1>1, <1>3, <1>5, <2>1, <2>3, <2>5, <2>6, ClosingKeepsPanels
  <2> QED  BY <2>3, <2>4, <2>7
<1>7. CASE Completed
  <2> DEFINE place == mode.task.dst  p == place.loc[1]
  <2>1. /\ \E found \in Findings :
              remotes' = IF p \in Profiles THEN Probed(p, found) ELSE remotes
        /\ \E listed \in BOOLEAN : panels' = Switched(place, listed)
    BY <1>7 DEF FinishArchive
  <2>2. PICK found \in Findings : remotes' = IF p \in Profiles THEN Probed(p, found) ELSE remotes
    BY <2>1
  <2>3. place.loc \in archives
    <3>1. Succeeded(J)  BY <1>2, <1>7 DEF Succeeded, Completed
    <3>2. Landed(J)  BY <3>1, <1>2 DEF JobsInv, ResultsOK
    <3> QED  BY <3>2, <1>2 DEF Landed
  <2>4. place \in Places
    <3>1. mode.task.src.loc \in Locations /\ place = Root(Archive(mode.task.src.loc))
      BY <1>2 DEF Leads
    <3>2. place \in Places \cup {Nowhere}  BY <1>2, TasksAre
    <3>3. place # Nowhere  BY <3>1 DEF Root, Nowhere
    <3> QED  BY <3>2, <3>3
  <2>5. mode.task.side \in Sides  BY <1>2, TasksAre
  <2>6. IsArchive(place.loc)  BY <2>3 DEF JobsInv, NestingOK
  <2>7. \A q \in Profiles : Uses(place.loc, q) => q = p  BY DEF Uses
  <2>8. \E listed \in BOOLEAN : panels' = Switched(place, listed)  BY <2>1
  <2> HIDE DEF place, p
  <2>9. /\ Grows
        /\ \A q \in Profiles : remotes[q] # "unprobed" => remotes'[q] = remotes[q]
        /\ p \in Profiles => remotes'[p] # "unprobed"
    <3>1. CASE p \in Profiles
      <4>1. remotes' = Probed(p, found)  BY <2>2, <3>1
      <4>2. Grows  BY <1>1, <3>1, <4>1, GrowsProbed DEF JobsInv
      <4> QED  BY <3>1, <4>1, <4>2, ProbedIs DEF JobsInv
    <3>2. CASE p \notin Profiles
      <4>1. remotes' = remotes  BY <2>2, <3>2
      <4>2. Grows  BY <1>1, <4>1, GrowsSame DEF JobsInv, registry
      <4> QED  BY <3>2, <4>1, <4>2
    <3> QED  BY <3>1, <3>2
  <2>10. \A loc : loc = place.loc => Resolves(loc)'
    BY <1>1, <2>3, <2>6 DEF Resolves
  <2>11. \A q \in Profiles : Uses(place.loc, q) => remotes'[q] # "unprobed"  BY <2>7, <2>9
  <2>12. Reaps  BY <1>1, <2>9, PlainReaps DEF JobsInv, ManagerType
  <2>13. JobsInv'  BY <1>2, <1>3, <2>12, ClosingKeepsJobs
  <2>14. /\ panels' \in [Sides -> PanelSet]
         /\ \A s \in Sides :
               /\ panels'[s].sel # Nowhere => panels'[s].sel = panels'[s].at
               /\ panels'[s].misses # "job"
               /\ panels'[s].at = panels[s].at \/ Resolves(panels[s].at.loc)'
               /\ \/ panels'[s].at = panels[s].at /\ panels'[s].quic = panels[s].quic
                  \/ /\ panels'[s].quic = QuicAvailable(panels'[s].at.loc, remotes')
                     /\ \A q \in Profiles : Uses(panels'[s].at.loc, q) => remotes'[q] # "unprobed"
    BY <1>4, <2>4, <2>5, <2>8, <2>10, <2>11, ShowPlace
  <2>15. PanelsInv'
    BY <1>1, <1>3, <1>5, <2>9, <2>12, <2>14, ClosingKeepsPanels
  <2> QED  BY <2>12, <2>13, <2>15
<1> QED  BY <1>6, <1>7

-----------------------------------------------------------------------------
(* The invariant holds.                                                    *)

LEMMA LostKeepsPanels ==
    ASSUME JobsInv, PanelsInv, InputLost
    PROVE  PanelsInv'
<1>1. /\ loop' = "failed" /\ mode' = Browsing
      /\ UNCHANGED <<panels, active, remotes, archives>>
  BY DEF InputLost, registry
<1>2. mode'.is = "browsing"  BY <1>1, ModeIs DEF Browsing
<1>3. PanelsType' /\ SelectionOK' /\ PanelsResolve'
  BY <1>1 DEF PanelsInv, PanelsType, SelectionOK, PanelsResolve, Resolves
<1>4. CommandMatchesPanels' /\ MissesOK' /\ GlyphsOK'
  BY <1>1, <1>2 DEF CommandMatchesPanels, UserTask, MissesOK, GlyphsOK
<1> QED  BY <1>3, <1>4 DEF PanelsInv

LEMMA InitPanels == Init => PanelsInv
<1> SUFFICES ASSUME Init PROVE PanelsInv  OBVIOUS
<1>1. PICK left \in Dirs, right \in Dirs :
        panels = [s \in Sides |->
                    Panel([loc |-> Local, dir |-> IF s = "left" THEN left ELSE right])]
  BY DEF Init
<1>2. mode = Browsing /\ remotes = [p \in Profiles |-> "none"]  BY DEF Init
<1>3. mode.is = "browsing"  BY <1>2, ModeIs DEF Browsing
<1>4. \A pl \in Places : /\ Panel(pl) \in PanelSet /\ Panel(pl).at = pl /\ Panel(pl).sel = Nowhere
                         /\ Panel(pl).quic = FALSE /\ Panel(pl).misses = "none"
  BY DEF Panel, PanelSet
<1>5. \A s \in Sides :
        /\ panels[s] \in PanelSet /\ panels[s].at.loc = Local /\ panels[s].sel = Nowhere
        /\ panels[s].quic = FALSE /\ panels[s].misses = "none"
  <2> TAKE s \in Sides
  <2> DEFINE pl == [loc |-> Local, dir |-> IF s = "left" THEN left ELSE right]
  <2>1. pl \in Places /\ pl.loc = Local  BY LocalFacts, PlacesAre
  <2>2. panels[s] = Panel(pl)  BY <1>1
  <2> HIDE DEF pl
  <2> QED  BY <2>1, <2>2, <1>4
<1>6. PanelsType
  <2>1. panels = [s \in Sides |-> panels[s]]  BY <1>1
  <2> QED  BY <1>5, <2>1 DEF PanelsType
<1>7. PanelsResolve /\ SelectionOK  BY <1>5 DEF PanelsResolve, Resolves, SelectionOK
<1>8. CommandMatchesPanels /\ MissesOK  BY <1>3, <1>5 DEF CommandMatchesPanels, UserTask, MissesOK
<1>9. GlyphsOK  BY <1>5, LocalFacts DEF GlyphsOK, GlyphAt
<1> QED  BY <1>6, <1>7, <1>8, <1>9 DEF PanelsInv

LEMMA Invariance == Init => IInv
BY InitJobs, InitPanels DEF IInv

LEMMA StutterKeeps ==
    ASSUME IInv, UNCHANGED vars
    PROVE  IInv'
<1>1. /\ UNCHANGED <<loop, mode, panels, active, registry, manager, events, background, plans>>
      /\ UNCHANGED <<loop, mode, panels, active, remotes, archives, jobs, nextId, events>>
  BY DEF vars, registry, manager
<1>2. JobsInv'  BY <1>1, JobsUnchanged DEF IInv
<1>3. PanelsType' /\ SelectionOK' /\ PanelsResolve'
  BY <1>1 DEF IInv, PanelsInv, PanelsType, SelectionOK, PanelsResolve, Resolves
<1>4. CommandMatchesPanels' /\ MissesOK'  BY <1>1, ModeStays DEF IInv
<1>5. GlyphsOK'
  <2>1. GlyphsOK  BY DEF IInv, PanelsInv
  <2>2. \A p \in Profiles, j \in Ids : Renews(j, p) => Renews(j, p)'  BY <1>1, RenewsSame
  <2>3. \A p \in Profiles, j \in Ids : Renews(j, p) => \E k \in Ids : Renews(k, p)'  BY <2>2
  <2> QED  BY <1>1, <2>1, <2>3, GlyphsStay
<1> QED  BY <1>2, <1>3, <1>4, <1>5 DEF IInv, PanelsInv

\* Every key press that starts no job is quiet, every other one starts a job
\* or only cancels the one that runs.
LEMMA KeyPresses ==
    ASSUME IInv, BrowsingKey \/ DialogKey
    PROVE  \/ Quiet /\ PanelsInv'
           \/ \E task \in Tasks : Starts(task)
           \/ CancelKey
<1>1. JobsInv /\ PanelsInv  BY DEF IInv
<1>2. CASE QuitKey \/ TabKey  BY <1>1, <1>2, SideKeys
<1>3. CASE ToggleSelection  BY <1>1, <1>3, SelectKeys
<1>4. CASE Descend \/ Ascend  BY <1>1, <1>4, WalkKeys
<1>5. CASE OpenArchive \/ DeleteKey \/ SyncKey \/ SubmitConnect  BY <1>1, <1>5, KeysStart
<1>6. CASE AskKey  BY <1>1, <1>6, AskKeys
<1>7. CASE FormKey  BY <1>1, <1>7, FormKeys
<1>8. CASE EditKey  BY <1>1, <1>8, EditKeeps
<1>9. CASE Dismiss  BY <1>1, <1>9, DismissKeys
<1>10. CASE Confirm  BY <1>1, <1>10, ConfirmStarts
<1>11. CASE SubmitText  BY <1>1, <1>11, SubmitStarts
<1>12. CASE SubmitMkdir  BY <1>1, <1>12, MkdirKeys
<1>13. CASE CancelKey  BY <1>13
<1> QED
  BY <1>2, <1>3, <1>4, <1>5, <1>6, <1>7, <1>8, <1>9, <1>10, <1>11, <1>12, <1>13
  DEF BrowsingKey, DialogKey

LEMMA Consecution ==
    ASSUME IInv, [Next]_vars
    PROVE  IInv'
<1>1. JobsInv /\ PanelsInv  BY DEF IInv
<1>2. CASE BrowsingKey \/ DialogKey
  <2>1. CASE Quiet /\ PanelsInv'  BY <1>1, <2>1, QuietKeepsJobs DEF IInv
  <2>2. ASSUME NEW task \in Tasks, Starts(task) PROVE IInv'
    BY <1>1, <2>2, StartsKeepsJobs, StartsKeepsPanels DEF IInv
  <2>3. CASE CancelKey  BY <1>1, <2>3, CancelKeepsJobs, CancelKeepsPanels DEF IInv
  <2> QED  BY <1>2, <2>1, <2>2, <2>3, KeyPresses
<1>3. CASE HandleEvent
  <2>1. CASE HandleProgress  BY <1>1, <2>1, ProgressKeepsJobs, ProgressKeepsPanels DEF IInv
  <2>2. CASE FinishBackground  BY <1>1, <2>2, BackgroundKeepsJobs, BackgroundKeepsPanels DEF IInv
  <2>3. CASE FinishFileOp  BY <1>1, <2>3, FileOpCloses DEF IInv
  <2>4. CASE FinishConnect  BY <1>1, <2>4, ConnectCloses DEF IInv
  <2>5. CASE FinishArchive  BY <1>1, <2>5, ArchiveCloses DEF IInv
  <2>6. CASE FinishScan  BY <1>1, <2>6, ScanCloses DEF IInv
  <2> QED  BY <1>3, <2>1, <2>2, <2>3, <2>4, <2>5, <2>6 DEF HandleEvent
<1>4. CASE InputLost  BY <1>1, <1>4, LostKeepsJobs, LostKeepsPanels DEF IInv
<1>5. CASE Over \/ UNCHANGED vars  BY <1>5, StutterKeeps DEF Over
<1>6. ASSUME NEW j \in Ids, JobThread(j) PROVE IInv'
  <2>1. CASE JobChanges(j)
    <3>1. JobsInv'  BY <1>1, <2>1, JobsUnchanged DEF JobChanges
    <3> QED  BY <1>1, <2>1, <3>1, ChangesKeepPanels DEF IInv
  <2>2. CASE JobProbes(j)  BY <1>1, <2>2, ProbesKeepJobs, ProbesKeepPanels DEF IInv
  <2>3. CASE JobDone(j)  BY <1>1, <2>3, DoneKeepsJobs, DoneKeepsPanels DEF IInv
  <2>4. CASE JobReports(j)  BY <1>1, <2>4, ReportsKeepJobs, ReportsKeepPanels DEF IInv
  <2>5. CASE JobEnds(j)  BY <1>1, <2>5, EndsKeepJobs, EndsKeepPanels DEF IInv
  <2> QED  BY <1>6, <2>1, <2>2, <2>3, <2>4, <2>5 DEF JobThread
<1> QED  BY <1>2, <1>3, <1>4, <1>5, <1>6 DEF Next

LEMMA Inductive == Spec => []IInv
<1>1. Init => IInv  BY Invariance
<1>2. IInv /\ [Next]_vars => IInv'  BY Consecution
<1> QED  BY <1>1, <1>2, PTL DEF Spec

-----------------------------------------------------------------------------
(* The invariants the run checks.                                          *)

\* Every variable holds a value of its kind; a background job is a warm-up, and
\* only a progress dialog names a job.
THEOREM TypeCorrect == Spec => []TypeOK
<1>1. IInv => TypeOK
  <2> SUFFICES ASSUME IInv PROVE TypeOK  OBVIOUS
  <2>1. ModeType /\ RegistryType /\ ManagerType /\ PanelsType  BY DEF IInv, JobsInv, PanelsInv
  <2>2. /\ loop \in {"on", "quit", "failed"} /\ active \in Sides
        /\ mode.is \in {"browsing", "text", "confirm", "connect", "help", "progress"}
        /\ mode.task \in Tasks /\ mode.job \in Ids \cup {NoId}
        /\ mode.job # NoId <=> mode.is = "progress"
    BY <2>1, Zenon DEF ModeType
  <2>3. /\ remotes \in [Profiles -> {"none", "unprobed"} \cup Findings]
        /\ archives \subseteq Locations
    BY <2>1, Zenon DEF RegistryType
  <2>4. /\ jobs \in [Ids -> JobSet] /\ nextId \in 0..MaxJobs
        /\ background \subseteq {j \in Ids : jobs[j].task.op = "warm"}
        /\ plans \in [Ids -> {"none", "empty", "some"}]
    BY <2>1, Zenon DEF ManagerType
  <2>5. panels \in [Sides -> PanelSet]  BY <2>1, Zenon DEF PanelsType
  <2> QED  BY <2>2, <2>3, <2>4, <2>5, Zenon DEF TypeOK, JobSet, PanelSet
<1> QED  BY <1>1, Inductive, PTL

\* What a dialog or a running job is about is what the panels still show, through
\* every key that could have moved them since.
THEOREM CommandMatchesTheorem == Spec => []CommandMatchesPanels
<1>1. IInv => CommandMatchesPanels  BY Zenon DEF IInv, PanelsInv
<1> QED  BY <1>1, Inductive, PTL

\* A progress dialog's job runs, or its end is on its way to the loop; no other
\* job of the user's exists.
THEOREM ProgressIsLiveTheorem == Spec => []ProgressIsLive
<1>1. IInv => ProgressIsLive
  <2> SUFFICES ASSUME IInv PROVE ProgressIsLive  OBVIOUS
  <2>1. ModeType /\ ManagerType /\ OneJob /\ EventsOK  BY DEF IInv, JobsInv
  <2>2. ASSUME mode.is = "progress"
        PROVE  \/ jobs[mode.job].st \in {"running", "done"}
               \/ jobs[mode.job].st = "ended" /\ EventsOf(mode.job, "finished") # {}
    <3>1. mode.job \in Ids  BY <2>1, <2>2 DEF ModeType
    <3>2. jobs[mode.job].st \in {"running", "done", "ended"}
      BY <2>1, <2>2, <3>1, JobsAre DEF OneJob
    <3>3. ASSUME jobs[mode.job].st = "ended" PROVE EventsOf(mode.job, "finished") # {}
      <4>1. PICK i \in DOMAIN events : IsFinished(i, mode.job)  BY <2>1, <3>1, <3>3 DEF EventsOK
      <4> QED  BY <4>1 DEF IsFinished, EventsOf
    <3> QED  BY <3>2, <3>3
  <2>3. \A j \in Ids \ background : jobs[j].st # "none" => mode.is = "progress" /\ mode.job = j
    BY <2>1 DEF OneJob
  <2> QED  BY <2>2, <2>3 DEF ProgressIsLive
<1> QED  BY <1>1, Inductive, PTL

\* A scan's plan is in its cell before the loop can read of its completion.
THEOREM PlanReadyTheorem == Spec => []PlanReady
<1>1. IInv => PlanReady
  <2> SUFFICES ASSUME IInv PROVE PlanReady  OBVIOUS
  <2>1. ManagerType /\ ResultsOK  BY DEF IInv, JobsInv
  <2>2. ASSUME NEW i \in DOMAIN events, events[i].kind = "finished",
               events[i].outcome = "Completed", jobs[events[i].job].task.op = "scan"
        PROVE  plans[events[i].job] # "none"
    <3>1. events[i] \in Event  BY <2>1, <2>2 DEF ManagerType
    <3>2. PICK j \in Ids : j = events[i].job  BY <3>1 DEF Event
    <3>3. Succeeded(j)  BY <2>2, <3>2 DEF Succeeded, IsFinished
    <3> QED  BY <2>1, <2>2, <3>2, <3>3 DEF ResultsOK, Landed
  <2> QED  BY <2>2 DEF PlanReady
<1> QED  BY <1>1, Inductive, PTL

\* No panel is ever at a connection or an archive that is not open.
THEOREM PanelsResolveTheorem == Spec => []PanelsResolve
<1>1. IInv => PanelsResolve  BY Zenon DEF IInv, PanelsInv
<1> QED  BY <1>1, Inductive, PTL

\* When no job has the mode, no panel shows a listing from before a job's changes.
THEOREM FreshAfterJobsTheorem == Spec => []FreshAfterJobs
<1>1. IInv => FreshAfterJobs  BY DEF IInv, PanelsInv, MissesOK, FreshAfterJobs
<1> QED  BY <1>1, Inductive, PTL

\* With no job left, each panel's glyph says what is known of its own agent.
THEOREM GlyphsSettleTheorem == Spec => []GlyphsSettle
<1>1. IInv => GlyphsSettle
  <2> SUFFICES ASSUME IInv, loop = "on", EnableQuic, \A j \in Ids : jobs[j] = NoJob, NEW s \in Sides
               PROVE  panels[s].quic = QuicAvailable(panels[s].at.loc, remotes)
    BY DEF GlyphsSettle
  <2> DEFINE loc == panels[s].at.loc
  <2>1. GlyphAt(loc, panels[s].quic)  BY DEF IInv, PanelsInv, GlyphsOK
  <2>2. \A p \in Profiles, j \in Ids : ~Renews(j, p)  BY RenewsBusy, NoJobIs DEF IInv
  <2> HIDE DEF loc
  <2>3. ASSUME NEW p \in Profiles, Uses(loc, p)
        PROVE  panels[s].quic = QuicAvailable(loc, remotes)
    <3>1. panels[s].quic = (remotes[p] = "agent")  BY <2>1, <2>2, <2>3, Zenon DEF GlyphAt
    <3>2. QuicAvailable(loc, remotes) = (remotes[p] = "agent")  BY <2>3, QuicIs, Zenon
    <3> QED  BY <3>1, <3>2, Zenon
  <2>4. ASSUME \A p \in Profiles : ~Uses(loc, p)
        PROVE  panels[s].quic = QuicAvailable(loc, remotes)
    BY <2>1, <2>4, QuicIs, Zenon DEF GlyphAt
  <2> QED  BY <2>3, <2>4, Zenon DEF loc
<1> QED  BY <1>1, Inductive, PTL

-----------------------------------------------------------------------------
(* What no step may do.                                                    *)

\* The jobs a step starts: the command that was approved, or a warm-up.
LEMMA OnlyApproved ==
    ASSUME IInv, [Next]_vars, NEW j \in Ids, jobs[j].st = "none", jobs'[j].st = "running"
    PROVE  Approved(jobs'[j].task)
<1>1. JobsInv /\ PanelsInv /\ ManagerType  BY DEF IInv, JobsInv
<1>2. jobs' = jobs => FALSE  OBVIOUS
<1>3. Reaps => Approved(jobs'[j].task)
  <2> SUFFICES ASSUME Reaps PROVE Approved(jobs'[j].task)  OBVIOUS
  <2>1. j # J  BY <1>1, ReapedSlots
  <2>2. jobs'[j].task.op = "warm"  BY <1>1, <1>2, <2>1, ReapedSlots
  <2> QED  BY <2>2 DEF Approved
<1>4. CASE BrowsingKey \/ DialogKey
  <2>1. CASE Quiet  BY <1>2, <2>1 DEF Quiet, manager
  <2>2. ASSUME NEW task \in Tasks, Starts(task) PROVE Approved(jobs'[j].task)
    <3>1. nextId < MaxJobs /\ jobs' = Spawned(task)
      <4>1. nextId + 1 < MaxJobs /\ jobs' = Spawned(task)  BY <2>2, Zenon DEF Starts, Spawn
      <4>2. nextId \in Nat /\ MaxJobs \in Nat  BY <1>1, BoundsAssumption DEF ManagerType
      <4> QED  BY <4>1, <4>2
    <3>2. j = nextId /\ jobs'[j].task = task  BY <1>1, <3>1, SpawnedIs
    <3> QED  BY <2>2, <3>2 DEF Starts
  <2>3. CASE CancelKey
    <3>1. mode.job \in Ids  BY <1>1, <2>3 DEF CancelKey, JobsInv, ModeType
    <3>2. jobs'[j].st = jobs[j].st  BY <1>1, <2>3, <3>1 DEF CancelKey, ManagerType, JobSet
    <3> QED  BY <3>2
  <2> QED  BY <1>4, <2>1, <2>2, <2>3, KeyPresses
<1>5. CASE HandleEvent
  <2>1. CASE HandleProgress  BY <1>2, <2>1 DEF HandleProgress, manager
  <2>2. CASE ~HandleProgress
    BY <1>1, <1>3, <1>5, <2>2, BackgroundKeepsJobs, FileOpCloses, ConnectCloses, ArchiveCloses,
       ScanCloses DEF HandleEvent
  <2> QED  BY <2>1, <2>2
<1>6. CASE InputLost  BY <1>6, NoJobIs DEF InputLost
<1>7. CASE Over \/ UNCHANGED vars  BY <1>2, <1>7 DEF Over, vars
<1>8. ASSUME NEW k \in Ids, JobThread(k) PROVE FALSE
  <2>1. CASE JobChanges(k) \/ JobProbes(k)  BY <1>2, <2>1 DEF JobChanges, JobProbes, manager
  <2>2. CASE JobDone(k) \/ JobReports(k) \/ JobEnds(k)
    <3>1. jobs[k].st # "none"  BY <2>2 DEF JobDone, JobReports, JobEnds, Running
    <3>2. \A i \in Ids : i # k => jobs'[i] = jobs[i]
      BY <1>1, <2>2 DEF JobDone, JobReports, JobEnds, Step, ManagerType
    <3> QED  BY <3>1, <3>2
  <2> QED  BY <1>8, <2>1, <2>2 DEF JobThread
<1> QED  BY <1>4, <1>5, <1>6, <1>7, <1>8 DEF Next

\* A sync, and a delete where it has to be confirmed, starts only from the dialog
\* that asked about just that: no other key and no event starts one.
THEOREM ApprovedFirstTheorem == Spec => ApprovedFirst
<1>1. IInv /\ [Next]_vars =>
         [\A j \in Ids :
             jobs[j].st = "none" /\ jobs'[j].st = "running"
             /\ (jobs'[j].task.op = "sync" \/ (ConfirmDelete /\ jobs'[j].task.op = "delete"))
               => /\ mode.is = "confirm" /\ mode.task.op = jobs'[j].task.op
                  /\ mode.task.items = jobs'[j].task.items]_vars
  BY OnlyApproved DEF Approved
<1> QED  BY <1>1, Inductive, PTL DEF Spec, ApprovedFirst

-----------------------------------------------------------------------------
(* The contract with the user.                                             *)

SessionFor(how, is) ==
    /\ how = "quit" => Session = "over"
    /\ how = "failed" => Session = "lost"
    /\ how = "on" /\ is = "browsing" => Session = "idle"
    /\ how = "on" /\ is = "progress" => Session = "working"
    /\ how = "on" /\ is \in {"text", "confirm", "connect", "help"} => Session = "asking"
\* The state of the session, and whether the job of the dialog is alive.
SessionFacts ==
    /\ SessionFor(loop, mode.is)
    /\ mode.is # "progress" => Alive = FALSE
    /\ mode.is = "progress" =>
          /\ mode.job \in Ids /\ mode.job \notin background
          /\ Alive <=> jobs[mode.job].st \in {"running", "done"}

LEMMA SessionIs == IInv => SessionFacts
<1> SUFFICES ASSUME IInv PROVE SessionFacts  OBVIOUS
<1>1. ModeType /\ OneJob  BY DEF IInv, JobsInv
<1>2. SessionFor(loop, mode.is)  BY DEF SessionFor, Session
<1>3. \A j \in Ids \ background : jobs[j].st \in {"running", "done"} =>
          mode.is = "progress" /\ mode.job = j
  BY <1>1 DEF OneJob
<1>4. mode.is # "progress" => Alive = FALSE
  <2>1. mode.is # "progress" => ~Alive  BY <1>3 DEF Alive
  <2>2. Alive \in BOOLEAN  BY DEF Alive
  <2> QED  BY <2>1, <2>2
<1>5. ASSUME mode.is = "progress"
      PROVE  /\ mode.job \in Ids /\ mode.job \notin background
             /\ Alive <=> jobs[mode.job].st \in {"running", "done"}
  <2>1. mode.job \in Ids  BY <1>1, <1>5 DEF ModeType
  <2>2. mode.job \notin background  BY <1>1, <1>5 DEF OneJob
  <2> QED  BY <2>1, <2>2, <1>3, Zenon DEF Alive
<1> QED  BY <1>2, <1>4, <1>5, Zenon DEF SessionFacts

LEMMA SessionThen == IInv' => SessionFacts'
BY SessionIs, PTL

\* A step that leaves the mode and the loop alone keeps the state of the session.
LEMMA SessionSame ==
    ASSUME UNCHANGED <<loop, mode>>
    PROVE  Session' = Session
BY DEF Session

LEMMA AliveSame ==
    ASSUME background' = background,
           \A j \in Ids : jobs'[j].st \in {"running", "done"} <=> jobs[j].st \in {"running", "done"}
    PROVE  Alive' = Alive
<1>1. (\E j \in Ids \ background : jobs'[j].st \in {"running", "done"}) =
      (\E j \in Ids \ background : jobs[j].st \in {"running", "done"})
  BY Zenon
<1> QED  BY <1>1 DEF Alive

\* Key presses ask, dismiss, start one job, or quit with none alive.
LEMMA KeysKeepContract ==
    ASSUME IInv, IInv', BrowsingKey \/ DialogKey
    PROVE  [Contract!ContractNext]_<<Session, Alive>>
<1> USE DEF Contract!ContractNext
<1>1. SessionFacts /\ SessionFacts' /\ ModeType /\ ModeType' /\ JobsInv
  BY SessionIs, SessionThen DEF IInv, JobsInv
<1>2. loop = "on" /\ (loop' = "on" \/ QuitKey)
  <2>1. CASE BrowsingKey
    BY <2>1, Zenon DEF BrowsingKey, Key, TabKey, ToggleSelection, Descend, Ascend, OpenArchive,
       AskKey, FormKey, DeleteKey, SyncKey, EditKey, QuitKey
  <2>2. CASE DialogKey
    BY <2>2, Zenon DEF DialogKey, Dismiss, Confirm, SubmitText, SubmitMkdir, SubmitConnect, CancelKey
  <2> QED  BY <2>1, <2>2
<1>3. CASE QuitKey
  <2>1. mode.is = "browsing" /\ mode'.is = "browsing" /\ loop' = "quit"
    BY <1>3 DEF QuitKey, Key
  <2>2. Session = "idle" /\ Alive = FALSE /\ Session' = "over" /\ Alive' = FALSE
    BY <1>1, <1>2, <2>1 DEF SessionFacts, SessionFor
  <2> QED  BY <2>2, Zenon DEF Contract!Quit
<1>4. CASE Quiet /\ loop' = "on"
  <2>1. mode.is # "progress" /\ mode'.is # "progress"  BY <1>4 DEF Quiet
  <2>2. Alive = FALSE /\ Alive' = FALSE  BY <1>1, <2>1 DEF SessionFacts
  <2>3. Session \in {"idle", "asking"} /\ Session' \in {"idle", "asking"}
    BY <1>1, <1>2, <1>4, <2>1 DEF SessionFacts, SessionFor, ModeType
  <2>4. UNCHANGED Alive  BY <2>2, Zenon
  <2> QED  BY <2>3, <2>4 DEF Contract!Ask, Contract!Dismiss
<1>5. ASSUME NEW task \in Tasks, Starts(task) PROVE Contract!Start
  <2>1. mode.is # "progress"  BY <1>5 DEF Starts
  <2>2. Session \in {"idle", "asking"} /\ ~Alive
    BY <1>1, <1>2, <2>1 DEF SessionFacts, SessionFor, ModeType
  <2>3. mode'.is = "progress" /\ mode'.job = nextId /\ loop' = "on"
    BY <1>2, <1>5 DEF Starts, Spawn
  <2>4. jobs'[nextId].st = "running"
    <3>1. nextId + 1 < MaxJobs /\ jobs' = Spawned(task)  BY <1>5, Zenon DEF Starts, Spawn
    <3>2. nextId \in Nat /\ MaxJobs \in Nat /\ ManagerType
      BY <1>1, BoundsAssumption DEF JobsInv, ManagerType
    <3>3. nextId < MaxJobs  BY <3>1, <3>2
    <3> QED  BY <3>1, <3>2, <3>3, SpawnedIs
  <2>5. Session' = "working"  BY <1>1, <2>3 DEF SessionFacts, SessionFor
  <2>6. Alive' = TRUE
    <3>1. Alive'  BY <1>1, <2>3, <2>4 DEF SessionFacts
    <3>2. Alive' \in BOOLEAN  BY DEF Alive
    <3> QED  BY <3>1, <3>2
  <2> QED  BY <2>2, <2>5, <2>6, Zenon DEF Contract!Start
<1>6. CASE CancelKey
  <2>1. UNCHANGED <<loop, mode, background>>  BY <1>6, Zenon DEF CancelKey
  <2>2. \A j \in Ids : jobs'[j].st = jobs[j].st
    <3>1. mode.job \in Ids  BY <1>1, <1>6 DEF CancelKey, ModeType
    <3> QED  BY <1>1, <1>6, <3>1 DEF CancelKey, JobsInv, ManagerType, JobSet
  <2> QED  BY <2>1, <2>2, SessionSame, AliveSame
<1> QED  BY <1>2, <1>3, <1>4, <1>5, <1>6, KeyPresses, Zenon

\* A job's thread can only end what is alive.
LEMMA ThreadsKeepContract ==
    ASSUME IInv, NEW k \in Ids, JobThread(k)
    PROVE  [Contract!ContractNext]_<<Session, Alive>>
<1>1. ManagerType  BY DEF IInv, JobsInv
<1>2. UNCHANGED <<loop, mode, background>>
  BY Zenon DEF JobThread, JobChanges, JobProbes, JobDone, JobReports, JobEnds
<1>3. Session' = Session  BY <1>2, SessionSame
<1>4. CASE JobChanges(k) \/ JobProbes(k)
  BY <1>2, <1>3, <1>4, AliveSame DEF JobChanges, JobProbes, manager
<1>5. CASE JobDone(k) \/ JobReports(k)
  <2>1. jobs[k].st = "running"  BY <1>5 DEF JobDone, JobReports, Running
  <2>2. jobs'[k].st \in {"running", "done"} /\ \A j \in Ids : j # k => jobs'[j] = jobs[j]
    BY <1>1, <1>5, <2>1 DEF JobDone, JobReports, Step, ManagerType, JobSet
  <2> QED  BY <1>2, <1>3, <2>1, <2>2, AliveSame
<1>6. CASE JobEnds(k)
  <2>1. \A j \in Ids : jobs'[j].st \in {"running", "done"} => jobs[j].st \in {"running", "done"}
    BY <1>1, <1>6, StepIs DEF JobEnds
  <2>2. Alive' => Alive  BY <1>2, <2>1 DEF Alive
  <2>3. Alive \in BOOLEAN /\ Alive' \in BOOLEAN  BY DEF Alive
  <2>4. Alive' = Alive \/ (Alive /\ Alive' = FALSE)  BY <2>2, <2>3, Zenon
  <2> QED  BY <1>3, <2>4 DEF Contract!ContractNext, Contract!JobOver
<1> QED  BY <1>4, <1>5, <1>6 DEF JobThread

\* The loop gives the session back when its job is over; a warm-up's end is not
\* the user's business.
LEMMA EventsKeepContract ==
    ASSUME IInv, IInv', HandleEvent
    PROVE  [Contract!ContractNext]_<<Session, Alive>>
<1>1. SessionFacts /\ SessionFacts' /\ JobsInv /\ PanelsInv
  BY SessionIs, SessionThen DEF IInv
<1>2. CASE HandleProgress
  <2>1. UNCHANGED <<loop, mode, background, jobs>>  BY <1>2 DEF HandleProgress, manager
  <2> QED  BY <2>1, SessionSame, AliveSame
<1>3. CASE FinishBackground
  <2>1. UNCHANGED <<loop, mode>> /\ J \in background  BY <1>3 DEF FinishBackground
  <2>2. Reaps  BY <1>1, <1>3, BackgroundKeepsJobs
  <2>3. CASE mode.is # "progress"
    <3>1. Alive = FALSE /\ Alive' = FALSE  BY <1>1, <2>1, <2>3 DEF SessionFacts
    <3> QED  BY <2>1, <3>1, SessionSame, Zenon
  <2>4. CASE mode.is = "progress"
    <3>1. mode'.is = "progress" /\ mode'.job = mode.job  BY <2>1, <2>4
    <3>2. PICK k \in Ids : k = mode.job  BY <1>1, <2>4 DEF SessionFacts
    <3>3. k # J  BY <1>1, <2>1, <2>4, <3>2 DEF SessionFacts
    <3>4. jobs'[k] = jobs[k]  BY <1>1, <2>1, <2>2, <3>3, ReapedSlots
    <3>5. (Alive <=> jobs[k].st \in {"running", "done"})
          /\ (Alive' <=> jobs'[k].st \in {"running", "done"})
      BY <1>1, <2>4, <3>1, <3>2 DEF SessionFacts
    <3>6. Alive \in BOOLEAN /\ Alive' \in BOOLEAN  BY DEF Alive
    <3>7. Alive' = Alive  BY <3>4, <3>5, <3>6, Zenon
    <3> QED  BY <2>1, <3>7, SessionSame
  <2> QED  BY <2>3, <2>4
<1>4. CASE FinishFileOp \/ FinishConnect \/ FinishArchive \/ FinishScan
  <2>1. \E ops : Finish(ops)
    BY <1>4, Zenon DEF FinishFileOp, FinishConnect, FinishArchive, FinishScan
  <2>2. mode.is = "progress" /\ mode.job = J /\ jobs[J].st = "ended" /\ loop = "on"
    BY <1>1, <2>1, FinishIs
  <2>3. loop' = "on" /\ mode'.is \in {"browsing", "confirm"}
    <3>1. loop' = loop
      BY <1>4, Zenon DEF FinishFileOp, FinishConnect, FinishArchive, FinishScan
    <3>2. mode' = Browsing \/ \E task : mode' = Mode("confirm", task)
      BY <1>4, Zenon DEF FinishFileOp, FinishConnect, FinishArchive, FinishScan
    <3> QED  BY <2>2, <3>1, <3>2, ModeIs DEF Browsing
  <2>4. Session = "working" /\ ~Alive  BY <1>1, <2>2 DEF SessionFacts, SessionFor
  <2>5. Session' \in {"idle", "asking"} /\ Alive' = FALSE  BY <1>1, <2>3 DEF SessionFacts, SessionFor
  <2>6. UNCHANGED Alive
    <3>1. Alive \in BOOLEAN  BY DEF Alive
    <3> QED  BY <2>4, <2>5, <3>1
  <2> QED  BY <2>4, <2>5, <2>6, Zenon DEF Contract!ContractNext, Contract!GiveBack
<1> QED  BY <1>2, <1>3, <1>4 DEF HandleEvent

\* The safety of the contract: one command at a time, worked on by one job; the
\* session comes back only when that job is over and ends with no job alive,
\* unless the terminal is lost.
THEOREM KeepsSession == Spec => Contract!ContractSafety
<1>1. Init => Contract!ContractInit
  <2> SUFFICES ASSUME Init PROVE Contract!ContractInit  OBVIOUS
  <2>1. SessionFacts  BY Invariance, SessionIs
  <2>2. loop = "on" /\ mode.is = "browsing"  BY ModeIs DEF Init, Browsing
  <2>3. Session = "idle" /\ Alive = FALSE  BY <2>1, <2>2 DEF SessionFacts, SessionFor
  <2> QED  BY <2>3, Zenon DEF Contract!ContractInit
<1>2. IInv /\ IInv' /\ [Next]_vars => [Contract!ContractNext]_<<Session, Alive>>
  <2> SUFFICES ASSUME IInv, IInv', [Next]_vars
               PROVE  [Contract!ContractNext]_<<Session, Alive>>
    OBVIOUS
  <2>1. CASE InputLost
    <3>1. loop' = "failed" /\ mode'.is # "progress"  BY <2>1, ModeIs DEF InputLost, Browsing
    <3>2. Session' = "lost" /\ Alive' = FALSE  BY <3>1, SessionThen DEF SessionFacts, SessionFor
    <3> QED  BY <3>2, Zenon DEF Contract!ContractNext, Contract!Lose
  <2>2. CASE Over \/ UNCHANGED vars
    <3>1. UNCHANGED <<loop, mode, background, jobs>>  BY <2>2 DEF Over, vars
    <3> QED  BY <3>1, SessionSame, AliveSame
  <2> QED
    BY <2>1, <2>2, KeysKeepContract, ThreadsKeepContract, EventsKeepContract DEF Next
<1> QED  BY <1>1, <1>2, Inductive, PTL DEF Spec, Contract!ContractSafety
=============================================================================
