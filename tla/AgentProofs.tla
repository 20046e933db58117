---------------------------- MODULE AgentProofs ----------------------------
(* What AgentSession does in every configuration: no agent is left without *)
(* somebody to kill it, and none is killed while a copy goes through it.   *)
EXTENDS AgentSession, TLAPS

\* What a thread's place says of its connection and of the registry.
Places ==
    /\ app = "exited" => \A t \in Threads : th[t].at = "free"
    /\ registered = None => \A t \in Threads : th[t].at \in {"free", "dial", "insert", "failed"}
    /\ th["job"].at = "dial" => conns < MaxConns
    /\ registered <= conns /\ \A t \in Threads : th[t].conn <= conns
    /\ th["job"].at \in {"insert", "drop"} => th["job"].conn \in Conns
    /\ via # None => app = "exited" \/ th["job"].at = "transfer"

\* Who holds which connection.
Holding ==
    /\ \A c \in Conns : "registry" \in held[c] => c = registered
    /\ registered # None => "registry" \in held[registered]
    /\ \A t \in Threads : th[t].at \in {"probe", "transfer"} => th[t].conn \in Conns /\ t \in held[th[t].conn]
    /\ th["job"].at = "insert" => held[th["job"].conn] = {"job"}
    /\ Locked => held[th["job"].conn] = {}

\* Who deploys: one thread for each connection at most, and it holds it.
Deploying ==
    /\ \A t \in Threads :
          /\ dep[t].step # "none" => th[t].at = "probe" /\ cell[th[t].conn] = "busy"
          /\ dep[t].proc # None => dep[t].step \in {"lines", "hello", "kill"}
          /\ dep[t].step \in {"hello", "kill"} => dep[t].proc # None
    /\ \A t, u \in Threads :
          dep[t].step # "none" /\ dep[u].step # "none" /\ th[t].conn = th[u].conn => t = u
    /\ \A c \in Conns : cell[c] = "agent" <=> handle[c] # None

\* Every agent is in one hand only.
Distinct ==
    /\ \A c \in Conns : handle[c] <= started
    /\ \A t \in Threads : dep[t].proc <= started
    /\ \A c, d \in Conns : handle[c] # None /\ handle[c] = handle[d] => c = d
    /\ \A t, u \in Threads : dep[t].proc # None /\ dep[t].proc = dep[u].proc => t = u
    /\ \A t \in Threads, c \in Conns : dep[t].proc # None => dep[t].proc # handle[c]

\* A connection has to be there to have an agent.  The agent of one somebody holds runs, unless it has died by itself;
\* and a copy goes through the agent of the connection it holds.
InUse ==
    /\ \A c \in Conns : handle[c] # None => c <= conns
    /\ \A c \in Conns : handle[c] # None /\ held[c] # {} =>
          procs[handle[c]] = "up" \/ handle[c] \in crashed
    /\ via # None /\ app = "on" => via = handle[th["job"].conn]

\* The two properties and what makes them inductive.
Inv == TypeOK /\ Places /\ Holding /\ Deploying /\ Distinct /\ InUse /\ KeptWhileUsed /\ AgentsOwned

-----------------------------------------------------------------------------
(* What the parts of an action do.                                         *)

LEMMA Names ==
    /\ "ui" \in Threads /\ "job" \in Threads /\ Warms \subseteq Threads
    /\ "registry" \notin Threads /\ "job" \notin Warms /\ "ui" \notin Warms
BY WarmsAssumption DEF Threads

LEMMA Numbers == Conns \subseteq Nat \ {None} /\ Procs \subseteq Nat \ {None}
BY BoundsAssumption DEF Conns, Procs, None

LEMMA Counters ==
    ASSUME TypeOK
    PROVE  /\ started \in Nat /\ conns \in Nat /\ None \in Nat
           /\ \A c \in Conns : handle[c] \in Nat
           /\ \A t \in Threads : dep[t].proc \in Nat
<1>1. Conns \subseteq Nat /\ Procs \subseteq Nat /\ None \in Nat
  BY BoundsAssumption DEF Conns, Procs, None
<1>2. started \in Nat /\ conns \in Nat
  BY <1>1 DEF TypeOK
<1>3. \A c \in Conns : handle[c] \in Nat
  BY <1>1 DEF TypeOK
<1>4. \A t \in Threads : dep[t].proc \in Nat
  <2> SUFFICES ASSUME NEW t \in Threads PROVE dep[t].proc \in Nat
    OBVIOUS
  <2>1. dep[t].proc \in Procs \cup {None}
    BY DEF TypeOK
  <2> QED BY <1>1, <2>1
<1> QED BY <1>1, <1>2, <1>3, <1>4

\* A thread goes on to another place; nobody else moves.
LEMMA RunDoes ==
    ASSUME TypeOK, NEW t \in Threads, NEW where \in Whereabouts, Run(t, where)
    PROVE  /\ th' \in [Threads -> [at : Whereabouts, conn : Conns \cup {None}, event : Events]]
           /\ th'[t].at = where /\ th'[t].conn = th[t].conn
           /\ \A u \in Threads : u # t => th'[u] = th[u]
<1> DEFINE R == [at : Whereabouts, conn : Conns \cup {None}, event : Events]
           new == [th[t] EXCEPT !.at = where]
<1>1. th \in [Threads -> R]
  BY DEF TypeOK
<1>2. th[t] \in R
  BY <1>1
<1>3. new \in R /\ new.at = where /\ new.conn = th[t].conn
  BY <1>2
<1>4. th' = [th EXCEPT ![t] = new]
  BY DEF Run
<1> HIDE DEF R, new
<1>5. th' \in [Threads -> R] /\ th'[t] = new /\ \A u \in Threads : u # t => th'[u] = th[u]
  BY <1>1, <1>3, <1>4
<1> QED BY <1>3, <1>5 DEF R

\* A deployment goes on, or is given up.
LEMMA AdvanceDoes ==
    ASSUME TypeOK, NEW t \in Threads, NEW step \in Steps, Advance(t, step)
    PROVE  /\ dep' \in [Threads -> [step : Steps, proc : Procs \cup {None}]]
           /\ dep'[t].step = step /\ dep'[t].proc = dep[t].proc
           /\ \A u \in Threads : u # t => dep'[u] = dep[u]
           /\ UNCHANGED <<cell, handle>>
BY DEF TypeOK, Advance

LEMMA GiveUpDoes ==
    ASSUME TypeOK, NEW t \in Threads, th[t].conn \in Conns, GiveUp(t)
    PROVE  /\ dep' \in [Threads -> [step : Steps, proc : Procs \cup {None}]]
           /\ dep'[t].step = "none" /\ dep'[t].proc = None
           /\ \A u \in Threads : u # t => dep'[u] = dep[u]
           /\ cell' \in [Conns -> {"empty", "busy", "none", "agent"}]
           /\ cell'[th[t].conn] = "none" /\ \A c \in Conns : c # th[t].conn => cell'[c] = cell[c]
           /\ UNCHANGED handle
BY DEF TypeOK, GiveUp, Idle, Steps

\* After Kill the agent is gone or lost, and no other is touched.
LEMMA KillDoes ==
    ASSUME TypeOK, NEW p \in Procs \cup {None}, Kill(p)
    PROVE  /\ procs' \in [Procs -> {"none", "up", "gone"}] /\ lost' \in SUBSET Procs
           /\ \A q \in Procs : q # p => procs'[q] = procs[q]
           /\ \A q \in Procs : procs'[q] = "up" => procs[q] = "up" /\ (q = p => q \in lost')
           /\ lost \subseteq lost'
BY Numbers DEF TypeOK, Kill

LEMMA ReleaseDoes ==
    ASSUME TypeOK, NEW t \in Threads, NEW c \in Conns, Release(t, c)
    PROVE  /\ procs' \in [Procs -> {"none", "up", "gone"}] /\ lost' \in SUBSET Procs
           /\ held' \in [Conns -> SUBSET Holders]
           /\ held'[c] = held[c] \ {t} /\ \A d \in Conns : d # c => held'[d] = held[d]
           /\ \A q \in Procs : q # handle[c] \/ held[c] # {t} => procs'[q] = procs[q]
           /\ \A q \in Procs : procs'[q] = "up" =>
                 procs[q] = "up" /\ (q = handle[c] /\ held[c] = {t} => q \in lost')
           /\ lost \subseteq lost'
<1>1. handle[c] \in Procs \cup {None} /\ held[c] \in SUBSET Holders
  BY DEF TypeOK
<1>2. held' = [held EXCEPT ![c] = @ \ {t}]
  BY DEF Release
<1>3. /\ held' \in [Conns -> SUBSET Holders] /\ held'[c] = held[c] \ {t}
      /\ \A d \in Conns : d # c => held'[d] = held[d]
  BY <1>1, <1>2 DEF TypeOK
<1>4. CASE held[c] = {t}
  BY <1>1, <1>3, <1>4, KillDoes DEF Release
<1>5. CASE held[c] # {t}
  BY <1>3, <1>5 DEF Release, TypeOK
<1> QED BY <1>4, <1>5

\* Whoever deploys holds the connection, which has no agent yet.
LEMMA DeployerIs ==
    ASSUME Inv, NEW t \in Threads, dep[t].step # "none"
    PROVE  /\ th[t].at = "probe" /\ th[t].conn \in Conns /\ t \in held[th[t].conn]
           /\ cell[th[t].conn] = "busy" /\ handle[th[t].conn] = None /\ app = "on"
<1>1. th[t].at = "probe" /\ cell[th[t].conn] = "busy"
  BY DEF Inv, Deploying
<1>2. th[t].conn \in Conns /\ t \in held[th[t].conn]
  BY <1>1 DEF Inv, Holding
<1>3. handle[th[t].conn] = None
  BY <1>1, <1>2 DEF Inv, Deploying
<1>4. app = "on"
  BY <1>1 DEF Inv, TypeOK, Places
<1> QED BY <1>1, <1>2, <1>3, <1>4

-----------------------------------------------------------------------------
(* Deploying.                                                              *)

\* One that goes on with a deployment, or gives it up, disturbs nobody else's.
LEMMA StepKeeps ==
    ASSUME Inv, NEW t \in Threads, dep[t].step # "none", NEW step \in Steps \ {"none"},
           \/ /\ Advance(t, step)
              /\ dep[t].proc # None => step \in {"lines", "hello", "kill"}
              /\ step \in {"hello", "kill"} => dep[t].proc # None
           \/ GiveUp(t),
           UNCHANGED <<app, th, connections, started, via>>
    PROVE  /\ dep' \in [Threads -> [step : Steps, proc : Procs \cup {None}]]
           /\ cell' \in [Conns -> {"empty", "busy", "none", "agent"}] /\ UNCHANGED handle
           /\ Places' /\ Holding' /\ Deploying' /\ Distinct'
           /\ \A u \in Threads : u # t => dep'[u] = dep[u]
           /\ dep'[t].proc = IF Advance(t, step) THEN dep[t].proc ELSE None
<1>1. /\ dep' \in [Threads -> [step : Steps, proc : Procs \cup {None}]]
      /\ cell' \in [Conns -> {"empty", "busy", "none", "agent"}] /\ UNCHANGED handle
      /\ \A u \in Threads : u # t => dep'[u] = dep[u]
      /\ \A c \in Conns : cell'[c] = "agent" <=> cell[c] = "agent"
      /\ \A c \in Conns : c # th[t].conn => cell'[c] = cell[c]
  BY DeployerIs, AdvanceDoes, GiveUpDoes DEF Inv, TypeOK
<1>2. \/ dep'[t].step = step /\ dep'[t].proc = dep[t].proc /\ UNCHANGED cell
         /\ (dep[t].proc # None => step \in {"lines", "hello", "kill"})
         /\ (step \in {"hello", "kill"} => dep[t].proc # None)
      \/ dep'[t].step = "none" /\ dep'[t].proc = None
  BY DeployerIs, AdvanceDoes, GiveUpDoes DEF Inv
<1>3. Places'
  BY DEF Inv, Places, connections
<1>4. Holding'
  BY DEF Inv, Holding, Locked, connections
<1>5. Deploying'
  BY <1>1, <1>2, DeployerIs DEF Inv, Deploying
<1>6. Distinct'
  <2>1. \A u \in Threads : dep'[u].proc \in {None, dep[u].proc}
    BY <1>1, <1>2
  <2>2. None <= started
    BY DEF Inv, TypeOK, Procs, None
  <2> QED BY <1>1, <2>1, <2>2 DEF Inv, Distinct
<1>7. dep'[t].proc = IF Advance(t, step) THEN dep[t].proc ELSE None
  BY DeployerIs, AdvanceDoes, GiveUpDoes DEF Inv
<1> QED BY <1>1, <1>3, <1>4, <1>5, <1>6, <1>7

\* Up to the start of the agent nothing is there to be killed.
LEMMA EarlyStepKeeps ==
    ASSUME Inv, NEW t \in Threads, dep[t].step \in {"probe", "open", "write"},
           NEW step \in {"open", "write", "exec"},
           Advance(t, step) \/ GiveUp(t),
           image' \in [whole : BOOLEAN, by : Threads \cup {"other", "nobody"}],
           UNCHANGED <<app, th, connections, remote, other, link>>
    PROVE  Inv'
<1>1. dep[t].step # "none" /\ step \in Steps \ {"none"} /\ dep[t].proc = None
  BY DEF Inv, Deploying, Steps
<1>2. /\ dep' \in [Threads -> [step : Steps, proc : Procs \cup {None}]]
      /\ cell' \in [Conns -> {"empty", "busy", "none", "agent"}] /\ UNCHANGED handle
      /\ Places' /\ Holding' /\ Deploying' /\ Distinct'
      /\ \A u \in Threads : dep'[u].proc = dep[u].proc
  BY <1>1, StepKeeps DEF remote, link
<1>3. TypeOK'
  BY <1>2 DEF Inv, TypeOK, connections, remote, link
<1>4. InUse' /\ KeptWhileUsed'
  BY <1>2 DEF Inv, InUse, KeptWhileUsed, connections, remote, link
<1>5. AgentsOwned'
  BY <1>2 DEF Inv, AgentsOwned, Owned, Locked, connections, remote, link
<1> QED BY <1>2, <1>3, <1>4, <1>5 DEF Inv

LEMMA BeginDeployKeeps == ASSUME Inv, NEW t \in Threads, BeginDeploy(t) PROVE Inv'
<1> DEFINE c == th[t].conn
<1>1. th[t].at = "probe" /\ c \in Conns /\ cell[c] = "empty" /\ dep[t].step = "none"
  BY DEF Inv, Holding, Deploying, BeginDeploy
<1>2. /\ cell' \in [Conns -> {"empty", "busy", "none", "agent"}]
      /\ cell'[c] = "busy" /\ \A d \in Conns : d # c => cell'[d] = cell[d]
  BY <1>1 DEF Inv, TypeOK, BeginDeploy
<1>3. /\ dep' \in [Threads -> [step : Steps, proc : Procs \cup {None}]]
      /\ dep'[t].step = "probe" /\ dep'[t].proc = dep[t].proc /\ dep'[t].proc = None
      /\ \A u \in Threads : u # t => dep'[u] = dep[u]
  BY <1>1 DEF Inv, TypeOK, Deploying, BeginDeploy, Steps
<1> HIDE DEF c
<1>4. UNCHANGED <<app, th, connections, handle, remote, file, link>>
  BY DEF BeginDeploy
<1>5. TypeOK'
  BY <1>2, <1>3, <1>4 DEF Inv, TypeOK, connections, remote, file, link
<1>6. Places' /\ Holding'
  BY <1>4 DEF Inv, Places, Holding, Locked, connections, remote, link
<1>7. Deploying'
  BY <1>1, <1>2, <1>3, <1>4 DEF Inv, Deploying, Holding, c
<1>8. Distinct'
  <2>1. \A u \in Threads : dep'[u].proc = dep[u].proc
    BY <1>3
  <2> QED BY <1>4, <2>1 DEF Inv, Distinct, remote
<1>9. InUse' /\ KeptWhileUsed'
  BY <1>4 DEF Inv, InUse, KeptWhileUsed, connections, remote, link
<1>10. AgentsOwned'
  BY <1>3, <1>4 DEF Inv, AgentsOwned, Owned, Locked, connections, remote
<1> QED BY <1>5, <1>6, <1>7, <1>8, <1>9, <1>10 DEF Inv

LEMMA CheckHostKeeps == ASSUME Inv, NEW t \in Threads, CheckHost(t) PROVE Inv'
BY EarlyStepKeeps DEF CheckHost, Inv, TypeOK, file

LEMMA OpenImageKeeps == ASSUME Inv, NEW t \in Threads, OpenImage(t) PROVE Inv'
<1>1. image' \in [whole : BOOLEAN, by : Threads \cup {"other", "nobody"}]
  <2>1. image' \in {image, [whole |-> FALSE, by |-> t]}
    BY DEF OpenImage
  <2>2. [whole |-> FALSE, by |-> t] \in [whole : BOOLEAN, by : Threads \cup {"other", "nobody"}]
    OBVIOUS
  <2> QED BY Zenon, <2>1, <2>2 DEF Inv, TypeOK
<1> QED BY <1>1, EarlyStepKeeps DEF OpenImage

LEMMA WriteImageKeeps == ASSUME Inv, NEW t \in Threads, WriteImage(t) PROVE Inv'
<1>1. image' \in [whole : BOOLEAN, by : Threads \cup {"other", "nobody"}]
  BY DEF WriteImage, Inv, TypeOK
<1> QED BY <1>1, EarlyStepKeeps DEF WriteImage

LEMMA ExecAgentKeeps == ASSUME Inv, NEW t \in Threads, ExecAgent(t) PROVE Inv'
<1>1. dep[t].step = "exec" /\ dep[t].proc = None /\ started \in Nat
  BY Counters DEF ExecAgent, Inv, Deploying
<1>2. UNCHANGED <<app, th, connections, cell, handle, crashed, lost, file, link>>
  BY DEF ExecAgent
<1>3. CASE UNCHANGED <<procs, started>> /\ dep' = [dep EXCEPT ![t].step = "lines"]
  <2>1. Advance(t, "lines") /\ UNCHANGED remote
    BY <1>2, <1>3 DEF Advance, remote
  <2>2. /\ dep' \in [Threads -> [step : Steps, proc : Procs \cup {None}]]
        /\ Places' /\ Holding' /\ Deploying' /\ Distinct'
        /\ \A u \in Threads : dep'[u].proc = dep[u].proc
    BY <1>1, <1>2, <2>1, StepKeeps DEF remote, link, Steps
  <2>3. TypeOK'
    BY <1>2, <2>1, <2>2 DEF Inv, TypeOK, connections, remote, file, link
  <2>4. InUse' /\ KeptWhileUsed'
    BY <1>2, <2>1 DEF Inv, InUse, KeptWhileUsed, connections, remote, link
  <2>5. AgentsOwned'
    BY <1>2, <2>1, <2>2 DEF Inv, AgentsOwned, Owned, Locked, connections, remote
  <2> QED BY <2>2, <2>3, <2>4, <2>5 DEF Inv
<1>4. CASE /\ started < MaxProcs /\ started' = started + 1
           /\ procs' = [procs EXCEPT ![started + 1] = "up"]
           /\ dep' = [dep EXCEPT ![t] = [step |-> "lines", proc |-> started + 1]]
  <2> DEFINE p == started + 1
  <2>1. p \in Procs /\ p # None /\ p > started
    BY <1>1, <1>4, BoundsAssumption DEF Procs, None
  <2>2. /\ dep' \in [Threads -> [step : Steps, proc : Procs \cup {None}]]
        /\ dep'[t].step = "lines" /\ dep'[t].proc = p
        /\ \A u \in Threads : u # t => dep'[u] = dep[u]
    BY <1>4, <2>1 DEF Inv, TypeOK, Steps
  <2>3. procs' \in [Procs -> {"none", "up", "gone"}] /\ \A q \in Procs : q # p => procs'[q] = procs[q]
    BY <1>4, <2>1 DEF Inv, TypeOK
  <2>4. TypeOK'
    BY <1>2, <1>4, <2>1, <2>2, <2>3 DEF Inv, TypeOK, connections, file, link
  <2>5. Places' /\ Holding'
    BY <1>2 DEF Inv, Places, Holding, Locked, connections, link
  <2>6. Deploying'
    BY <1>1, <1>2, <2>2 DEF Inv, Deploying
  <2>7. /\ \A c \in Conns : handle[c] \in Nat /\ handle[c] <= started
        /\ \A u \in Threads : dep[u].proc \in Nat /\ dep[u].proc <= started
    BY Counters DEF Inv, Distinct
  <2>8. Distinct'
    BY <1>1, <1>2, <1>4, <2>1, <2>2, <2>7 DEF Inv, Distinct
  <2>9. InUse' /\ KeptWhileUsed'
    <3>1. \A c \in Conns : handle[c] # p
      BY <1>1, <2>1, <2>7
    <3>2. procs'[p] = "up"
      BY <1>4, <2>1 DEF Inv, TypeOK
    <3> QED BY <1>2, <2>3, <3>1, <3>2 DEF Inv, TypeOK, InUse, KeptWhileUsed, connections, link
  <2>10. AgentsOwned'
    <3> SUFFICES ASSUME NEW q \in Procs, procs'[q] = "up" PROVE q \in Owned' \cup lost'
      BY DEF AgentsOwned
    <3>1. CASE q = p
      BY <2>2, <3>1 DEF Owned
    <3>2. CASE q # p
      <4>1. q \in Owned \cup lost /\ q # None
        BY <2>3, <3>2, Numbers DEF Inv, AgentsOwned
      <4> QED BY <1>1, <1>2, <2>2, <4>1 DEF Owned, Locked, connections
    <3> QED BY <3>1, <3>2
  <2> QED BY <2>4, <2>5, <2>6, <2>8, <2>9, <2>10 DEF Inv
<1> QED BY <1>3, <1>4 DEF ExecAgent

LEMMA ReadStartupKeeps == ASSUME Inv, NEW t \in Threads, ReadStartup(t) PROVE Inv'
<1> DEFINE p == dep[t].proc
<1>1. dep[t].step = "lines" /\ UNCHANGED <<app, th, connections, procs, started, crashed, file, link>>
  BY DEF ReadStartup
<1>2. \/ p # None /\ Advance(t, "hello") /\ UNCHANGED lost
      \/ GiveUp(t) /\ lost' = IF p # None THEN lost \cup {p} ELSE lost
  BY DEF ReadStartup
<1>3. p \in Procs \cup {None}
  BY DEF Inv, TypeOK
<1>4. /\ dep' \in [Threads -> [step : Steps, proc : Procs \cup {None}]]
      /\ cell' \in [Conns -> {"empty", "busy", "none", "agent"}] /\ UNCHANGED handle
      /\ Places' /\ Holding' /\ Deploying' /\ Distinct'
      /\ \A u \in Threads : u # t => dep'[u] = dep[u]
      /\ dep'[t].proc = IF Advance(t, "hello") THEN dep[t].proc ELSE None
  BY <1>1, <1>2, StepKeeps DEF link, Steps
<1>5. lost' \in SUBSET Procs /\ lost \subseteq lost' /\ (p = None \/ p = dep'[t].proc \/ p \in lost')
  BY <1>2, <1>3, <1>4 DEF Inv, TypeOK
<1> HIDE DEF p
<1>6. TypeOK'
  BY <1>1, <1>4, <1>5 DEF Inv, TypeOK, connections, file, link
<1>7. InUse' /\ KeptWhileUsed'
  BY <1>1, <1>4 DEF Inv, InUse, KeptWhileUsed, connections, link
<1>8. AgentsOwned'
  BY <1>1, <1>4, <1>5, Numbers DEF Inv, AgentsOwned, Owned, Locked, connections, p
<1> QED BY <1>4, <1>6, <1>7, <1>8 DEF Inv

LEMMA HandshakeKeeps == ASSUME Inv, NEW t \in Threads, Handshake(t) PROVE Inv'
<1> DEFINE p == dep[t].proc
           c == th[t].conn
<1>1. dep[t].step = "hello" /\ UNCHANGED <<app, th, connections, remote, file, link>>
  BY DEF Handshake
<1>2. /\ p \in Procs /\ p # None /\ p <= started
      /\ c \in Conns /\ t \in held[c] /\ cell[c] = "busy" /\ handle[c] = None /\ c <= conns
  BY <1>1, DeployerIs DEF Inv, TypeOK, Places, Deploying, Distinct
<1>3. CASE Advance(t, "kill")
  <2>1. /\ dep' \in [Threads -> [step : Steps, proc : Procs \cup {None}]]
        /\ cell' \in [Conns -> {"empty", "busy", "none", "agent"}] /\ UNCHANGED handle
        /\ Places' /\ Holding' /\ Deploying' /\ Distinct'
        /\ \A u \in Threads : dep'[u].proc = dep[u].proc
    BY <1>1, <1>2, <1>3, StepKeeps DEF remote, link, Steps
  <2>2. TypeOK'
    BY <1>1, <2>1 DEF Inv, TypeOK, connections, remote, file, link
  <2>3. InUse' /\ KeptWhileUsed'
    BY <1>1, <2>1 DEF Inv, InUse, KeptWhileUsed, connections, remote, link
  <2>4. AgentsOwned'
    BY <1>1, <2>1 DEF Inv, AgentsOwned, Owned, Locked, connections, remote
  <2> QED BY <2>1, <2>2, <2>3, <2>4 DEF Inv
<1>4. CASE /\ procs[p] = "up" /\ dep' = [dep EXCEPT ![t] = Idle]
           /\ cell' = [cell EXCEPT ![c] = "agent"] /\ handle' = [handle EXCEPT ![c] = p]
  <2>1. /\ dep' \in [Threads -> [step : Steps, proc : Procs \cup {None}]]
        /\ dep'[t].step = "none" /\ dep'[t].proc = None
        /\ \A u \in Threads : u # t => dep'[u] = dep[u]
    BY <1>4 DEF Inv, TypeOK, Idle, Steps
  <2>2. /\ cell' \in [Conns -> {"empty", "busy", "none", "agent"}]
        /\ cell'[c] = "agent" /\ \A d \in Conns : d # c => cell'[d] = cell[d]
        /\ handle' \in [Conns -> Procs \cup {None}]
        /\ handle'[c] = p /\ \A d \in Conns : d # c => handle'[d] = handle[d]
    BY <1>2, <1>4 DEF Inv, TypeOK
  <2>3. /\ \A d \in Conns : d # c => handle[d] # p
        /\ \A u \in Threads : u # t => dep[u].proc # p
    BY <1>2 DEF Inv, Distinct
  <2>4. TypeOK'
    BY <1>1, <2>1, <2>2 DEF Inv, TypeOK, connections, remote, file, link
  <2>5. Places' /\ Holding'
    BY <1>1 DEF Inv, Places, Holding, Locked, connections, link
  <2>6. Deploying'
    <3>1. \A u \in Threads : u # t /\ dep[u].step # "none" => th[u].conn # c /\ th[u].conn \in Conns
      BY <1>1, DeployerIs DEF Inv, Deploying
    <3> HIDE DEF p, c
    <3> QED BY <1>1, <1>2, <2>1, <2>2, <3>1 DEF Inv, Deploying
  <2>7. Distinct'
    <3> HIDE DEF p, c
    <3>1. None <= started'
      BY <1>1, Counters DEF Inv, TypeOK, None, remote
    <3>2. started' = started /\ \A u \in Threads : dep'[u].proc \in {None, dep[u].proc}
      BY <1>1, <2>1 DEF remote
    <3> QED BY <1>2, <2>1, <2>2, <2>3, <3>1, <3>2 DEF Inv, Distinct
  <2>8. InUse' /\ KeptWhileUsed'
    <3>1. UNCHANGED <<app, th, connections, procs, crashed, via>>
      BY <1>1 DEF remote, link
    <3>2. via # None /\ app = "on" => th["job"].conn # c
      BY <1>2, DeployerIs DEF Inv, InUse
    <3>3. via # None /\ app = "on" => th["job"].conn \in Conns
      BY Names DEF Inv, Places, Holding, TypeOK
    <3> HIDE DEF p, c
    <3>4. InUse'
      BY <1>2, <1>4, <2>2, <3>1, <3>2, <3>3 DEF Inv, InUse, connections, p
    <3>5. KeptWhileUsed'
      BY <3>1 DEF Inv, KeptWhileUsed
    <3> QED BY <3>4, <3>5
  <2>9. AgentsOwned'
    <3> HIDE DEF p, c
    <3> SUFFICES ASSUME NEW q \in Procs, procs'[q] = "up" PROVE q \in Owned' \cup lost'
      BY DEF AgentsOwned
    <3>1. CASE q = p
      <4>1. c \in Conns /\ held'[c] # {} /\ handle'[c] = q
        BY <1>1, <1>2, <2>2, <3>1 DEF connections
      <4> QED BY <4>1 DEF Owned
    <3>2. CASE q # p
      <4>1. q \in Owned \cup lost /\ q # None
        BY <1>1, Numbers DEF Inv, AgentsOwned, remote
      <4>2. CASE \E d \in Conns : held[d] # {} /\ handle[d] = q
        BY <1>1, <1>2, <2>2, <4>1, <4>2 DEF Owned, connections
      <4>3. CASE \E u \in Threads : dep[u].proc = q
        BY <2>1, <3>2, <4>3 DEF Owned, p
      <4>4. CASE Locked /\ q = handle[th["job"].conn]
        <5>1. th["job"].conn \in Conns
          BY <4>4 DEF Inv, Places, Locked
        <5> QED BY <1>1, <1>2, <2>2, <4>1, <4>4, <5>1 DEF Owned, Locked
      <4>5. CASE q \in lost
        BY <1>1, <4>5 DEF remote
      <4> QED BY <4>1, <4>2, <4>3, <4>4, <4>5 DEF Owned
    <3> QED BY <3>1, <3>2
  <2> QED BY <2>4, <2>5, <2>6, <2>7, <2>8, <2>9 DEF Inv
<1> QED BY <1>3, <1>4 DEF Handshake

LEMMA KillUnreachedKeeps == ASSUME Inv, NEW t \in Threads, KillUnreached(t) PROVE Inv'
<1> DEFINE p == dep[t].proc
<1>1. /\ dep[t].step = "kill" /\ GiveUp(t) /\ Kill(p)
      /\ UNCHANGED <<app, th, connections, started, crashed, file, link>>
  BY DEF KillUnreached
<1>2. p \in Procs /\ p # None /\ \A c \in Conns : handle[c] # p
  BY <1>1 DEF Inv, TypeOK, Deploying, Distinct
<1>3. /\ dep' \in [Threads -> [step : Steps, proc : Procs \cup {None}]]
      /\ cell' \in [Conns -> {"empty", "busy", "none", "agent"}] /\ UNCHANGED handle
      /\ Places' /\ Holding' /\ Deploying' /\ Distinct'
      /\ \A u \in Threads : u # t => dep'[u] = dep[u]
  BY <1>1, StepKeeps DEF link, Steps
<1>4. /\ procs' \in [Procs -> {"none", "up", "gone"}] /\ lost' \in SUBSET Procs
      /\ \A q \in Procs : q # p => procs'[q] = procs[q]
      /\ \A q \in Procs : procs'[q] = "up" => procs[q] = "up" /\ (q = p => q \in lost')
      /\ lost \subseteq lost'
  BY <1>1, <1>2, KillDoes DEF Inv
<1>5. TypeOK'
  BY <1>1, <1>3, <1>4 DEF Inv, TypeOK, connections, file, link
<1>6. InUse'
  <2>1. \A c \in Conns : handle[c] # None => handle[c] \in Procs /\ procs'[handle[c]] = procs[handle[c]]
    BY <1>2, <1>4 DEF Inv, TypeOK
  <2> QED BY <1>1, <1>3, <2>1 DEF Inv, InUse, connections, link
<1>7. KeptWhileUsed'
  <2>1. via # None => via # p /\ via \in Procs
    <3>1. via # None => th["job"].conn \in Conns /\ via = handle[th["job"].conn]
      BY <1>1, Names, DeployerIs DEF Inv, Places, Holding, InUse
    <3> QED BY <1>2, <3>1 DEF Inv, TypeOK
  <2> QED BY <1>1, <1>4, <2>1 DEF Inv, KeptWhileUsed, link
<1>8. AgentsOwned'
  <2> SUFFICES ASSUME NEW q \in Procs, procs'[q] = "up", q # p PROVE q \in Owned' \cup lost'
    BY <1>4 DEF AgentsOwned
  <2>1. q \in Owned \cup lost
    BY <1>4 DEF Inv, AgentsOwned
  <2> QED BY <1>1, <1>3, <1>4, <2>1 DEF Owned, Locked, connections
<1> QED BY <1>3, <1>5, <1>6, <1>7, <1>8 DEF Inv

-----------------------------------------------------------------------------
(* Letting go of a connection, and taking hold of one.                     *)

\* The places at which a thread has a connection of its own.
Engaged == {"probe", "transfer", "insert", "drop"}

\* A thread that lets go of its connection takes no agent from anybody else.
LEMMA LettingGo ==
    ASSUME Inv, NEW t \in Threads, th[t].at \in {"probe", "transfer"}, dep[t].step = "none",
           Release(t, th[t].conn),
           th' \in [Threads -> [at : Whereabouts, conn : Conns \cup {None}, event : Events]],
           th'[t].at \notin Engaged,
           \A u \in Threads : u # t /\ (th[u].at \in Engaged \/ th'[u].at \in Engaged) => th'[u] = th[u],
           via' \in {via, None}, t = "job" => via' = None,
           UNCHANGED <<app, dep, conns, registered, cell, handle, started, crashed, cut, file>>
    PROVE  TypeOK' /\ Holding' /\ Deploying' /\ Distinct' /\ InUse' /\ KeptWhileUsed' /\ AgentsOwned'
<1> DEFINE c == th[t].conn
<1>1. c \in Conns /\ t \in held[c] /\ t # "registry"
  BY Names DEF Inv, Holding
<1>2. /\ procs' \in [Procs -> {"none", "up", "gone"}] /\ lost' \in SUBSET Procs
      /\ held' \in [Conns -> SUBSET Holders]
      /\ held'[c] = held[c] \ {t} /\ \A d \in Conns : d # c => held'[d] = held[d]
      /\ \A q \in Procs : q # handle[c] \/ held[c] # {t} => procs'[q] = procs[q]
      /\ \A q \in Procs : procs'[q] = "up" =>
            procs[q] = "up" /\ (q = handle[c] /\ held[c] = {t} => q \in lost')
      /\ lost \subseteq lost'
  BY <1>1, ReleaseDoes DEF Inv
<1>3. TypeOK'
  BY <1>2 DEF Inv, TypeOK, file
<1>4. "job" \in Threads /\ (th["job"].at \in {"insert", "drop"} \/ th'["job"].at \in {"insert", "drop"}
                                => t # "job" /\ th'["job"] = th["job"])
  BY Names DEF Engaged
<1>5. Holding'
  <2>1. th'["job"].at = "insert" => held'[th'["job"].conn] = {"job"}
    <3> SUFFICES ASSUME th["job"].at = "insert", t # "job" PROVE held'[th["job"].conn] = {"job"}
      BY <1>4
    <3>1. th["job"].conn \in Conns /\ held[th["job"].conn] = {"job"}
      BY DEF Inv, Places, Holding
    <3> QED BY <1>1, <1>2, <3>1
  <2>2. Locked' => held'[th'["job"].conn] = {}
    <3> SUFFICES ASSUME Locked, t # "job" PROVE held'[th["job"].conn] = {}
      BY <1>4 DEF Locked
    <3>1. th["job"].conn \in Conns /\ held[th["job"].conn] = {}
      BY DEF Inv, Places, Holding, Locked
    <3> QED BY <1>1, <1>2, <3>1
  <2>3. \A d \in Conns : "registry" \in held'[d] <=> "registry" \in held[d]
    BY <1>1, <1>2
  <2>4. \A u \in Threads : th'[u].at \in {"probe", "transfer"} => th'[u].conn \in Conns /\ u \in held'[th'[u].conn]
    BY <1>2 DEF Inv, Holding, Engaged
  <2>5. registered # None => registered \in Conns
    BY DEF Inv, TypeOK
  <2> QED BY <2>1, <2>2, <2>3, <2>4, <2>5 DEF Inv, Holding
<1>6. Deploying' /\ Distinct'
  <2>1. \A u \in Threads : dep[u].step # "none" => th'[u] = th[u]
    BY DeployerIs DEF Engaged
  <2>2. Deploying'
    BY <2>1 DEF Inv, Deploying
  <2> QED BY <2>2 DEF Inv, Distinct
<1>7. via' # None /\ app = "on" => /\ via' = via /\ t # "job" /\ th["job"].at = "transfer" /\ th'["job"] = th["job"]
                                   /\ th["job"].conn \in Conns /\ "job" \in held[th["job"].conn]
                                   /\ via = handle[th["job"].conn]
  BY Names DEF Inv, Places, Holding, InUse, Engaged
<1>8. \A d \in Conns : handle[d] # None /\ held'[d] # {} => procs'[handle[d]] = procs[handle[d]]
  <2> SUFFICES ASSUME NEW d \in Conns, handle[d] # None, held'[d] # {}, handle[d] = handle[c], held[c] = {t}
               PROVE  FALSE
    BY <1>2 DEF Inv, TypeOK
  <2>1. c = d
    BY <1>1 DEF Inv, Distinct
  <2> QED BY <1>2, <2>1
<1>9. InUse'
  <2>1. \A d \in Conns : held'[d] # {} => held[d] # {}
    BY <1>2
  <2> QED BY <1>7, <1>8, <2>1 DEF Inv, InUse
<1>10. KeptWhileUsed'
  <2>1. app = "on"
    BY DEF Inv, TypeOK, Places
  <2>2. via' # None => held'[th["job"].conn] # {}
    BY <1>1, <1>2, <1>7, <2>1
  <2> QED BY <1>7, <1>8, <2>1, <2>2 DEF Inv, KeptWhileUsed
<1>11. AgentsOwned'
  <2> SUFFICES ASSUME NEW q \in Procs, procs'[q] = "up" PROVE q \in Owned' \cup lost'
    BY DEF AgentsOwned
  <2>1. q \in Owned \cup lost /\ procs[q] = "up"
    BY <1>2 DEF Inv, AgentsOwned
  <2>2. ASSUME NEW d \in Conns, held[d] # {}, q = handle[d] PROVE q \in Owned' \cup lost'
    <3>1. CASE held'[d] # {}
      BY <2>2, <3>1 DEF Owned
    <3>2. CASE held'[d] = {}
      <4>1. d = c /\ held[c] = {t}
        BY <1>1, <1>2, <2>2, <3>2
      <4> QED BY <1>2, <2>2, <4>1
    <3> QED BY <3>1, <3>2
  <2>3. Locked => Locked' /\ th'["job"] = th["job"]
    BY <1>4 DEF Locked, Engaged
  <2> QED BY <1>2, <2>1, <2>2, <2>3 DEF Owned
<1> QED BY <1>3, <1>5, <1>6, <1>9, <1>10, <1>11

LEMMA TransferKeeps == ASSUME Inv, Transfer PROVE Inv'
<1>1. /\ th["job"].at = "transfer" /\ via' = None /\ Run("job", "ended") /\ Release("job", th["job"].conn)
      /\ UNCHANGED <<app, dep, conns, registered, cell, handle, started, crashed, file, cut>>
  BY DEF Transfer
<1>2. /\ th' \in [Threads -> [at : Whereabouts, conn : Conns \cup {None}, event : Events]]
      /\ th'["job"].at = "ended" /\ th'["job"].conn = th["job"].conn
      /\ \A u \in Threads : u # "job" => th'[u] = th[u]
  BY <1>1, RunDoes, Names DEF Inv, Whereabouts
<1>3. dep["job"].step = "none"
  BY <1>1, DeployerIs, Names
<1>4. TypeOK' /\ Holding' /\ Deploying' /\ Distinct' /\ InUse' /\ KeptWhileUsed' /\ AgentsOwned'
  BY <1>1, <1>2, <1>3, LettingGo, Names DEF Engaged
<1>5. Places'
  BY <1>1, <1>2, Names DEF Inv, Places
<1> QED BY <1>4, <1>5 DEF Inv

LEMMA WarmDoneKeeps == ASSUME Inv, NEW w \in Warms, WarmDone(w) PROVE Inv'
<1>1. /\ th[w].at = "probe" /\ cell[th[w].conn] \in {"none", "agent"}
      /\ Run(w, "ended") /\ Release(w, th[w].conn)
      /\ UNCHANGED <<app, dep, conns, registered, cell, handle, started, crashed, file, cut, via>>
  BY DEF WarmDone, Probed, link
<1>2. w \in Threads /\ w # "job" /\ dep[w].step = "none"
  BY <1>1, DeployerIs, Names
<1>3. /\ th' \in [Threads -> [at : Whereabouts, conn : Conns \cup {None}, event : Events]]
      /\ th'[w].at = "ended" /\ th'[w].conn = th[w].conn
      /\ \A u \in Threads : u # w => th'[u] = th[u]
  BY <1>1, <1>2, RunDoes DEF Inv, Whereabouts
<1>4. TypeOK' /\ Holding' /\ Deploying' /\ Distinct' /\ InUse' /\ KeptWhileUsed' /\ AgentsOwned'
  BY <1>1, <1>2, <1>3, LettingGo DEF Engaged
<1>5. Places'
  BY <1>1, <1>2, <1>3, Names DEF Inv, Places, TypeOK
<1> QED BY <1>4, <1>5 DEF Inv

LEMMA UiProbedKeeps == ASSUME Inv, UiProbed PROVE Inv'
<1>1. /\ th["ui"].at = "probe" /\ cell[th["ui"].conn] \in {"none", "agent"} /\ Release("ui", th["ui"].conn)
      /\ UNCHANGED <<app, dep, conns, registered, cell, handle, started, crashed, file, cut, via>>
  BY DEF UiProbed, Probed, link
<1>2. "ui" \in Threads /\ dep["ui"].step = "none" /\ registered # None /\ app = "on"
  BY <1>1, DeployerIs, Names DEF Inv, Places, TypeOK
<1>3. PICK w \in FreeWarms :
          th' = [th EXCEPT !["ui"] = Free,
                           ![w] = IF EnableQuic /\ th["ui"].event = "connect"
                                  THEN At("resolve", None, "warm") ELSE @]
  BY DEF UiProbed
<1>4. w \in Threads /\ w # "ui" /\ w # "job" /\ th[w] = Free
  BY Names DEF FreeWarms
<1>5. /\ Free \in [at : Whereabouts, conn : Conns \cup {None}, event : Events]
      /\ At("resolve", None, "warm") \in [at : Whereabouts, conn : Conns \cup {None}, event : Events]
      /\ Free.at = "free" /\ Free.conn = None
      /\ At("resolve", None, "warm").at = "resolve" /\ At("resolve", None, "warm").conn = None
  BY DEF Free, At, Whereabouts, Events
<1>6. /\ th'["ui"] = Free /\ th'[w] \in {Free, At("resolve", None, "warm")}
      /\ \A u \in Threads \ {"ui", w} : th'[u] = th[u]
      /\ th' \in [Threads -> [at : Whereabouts, conn : Conns \cup {None}, event : Events]]
  BY <1>2, <1>3, <1>4, <1>5 DEF Inv, TypeOK
<1>7. th'["ui"].at = "free" /\ th[w].at \notin Engaged /\ th'[w].at \notin Engaged /\ th'["ui"].at \notin Engaged
  BY <1>4, <1>5, <1>6 DEF Engaged
<1>8. TypeOK' /\ Holding' /\ Deploying' /\ Distinct' /\ InUse' /\ KeptWhileUsed' /\ AgentsOwned'
  BY <1>1, <1>2, <1>6, <1>7, LettingGo
<1>9. Places'
  <2>1. \A u \in Threads : th'[u].conn = None \/ th'[u].conn = th[u].conn
    BY <1>5, <1>6
  <2>2. None <= conns'
    BY <1>1, Counters DEF Inv, TypeOK, None
  <2>3. th'["job"] = th["job"]
    BY <1>4, <1>6, Names
  <2> QED BY <1>1, <1>2, <2>1, <2>2, <2>3 DEF Inv, Places
<1> QED BY <1>8, <1>9 DEF Inv

LEMMA ResolveKeeps == ASSUME Inv, NEW t \in Threads, Resolve(t) PROVE Inv'
<1> DEFINE c == registered
<1>1. /\ t # "job" /\ th[t].at = "resolve" /\ ~Locked
      /\ UNCHANGED <<app, dep, conns, registered, cell, handle, remote, file, link>>
  BY DEF Resolve
<1>2. c \in Conns /\ app = "on" /\ dep[t].step = "none" /\ "registry" \in held[c] /\ c <= conns
  BY <1>1, DeployerIs DEF Inv, TypeOK, Places, Holding
<1>3. /\ th' \in [Threads -> [at : Whereabouts, conn : Conns \cup {None}, event : Events]]
      /\ th'[t].at = "probe" /\ th'[t].conn = c
      /\ \A u \in Threads : u # t => th'[u] = th[u]
  <2> DEFINE R == [at : Whereabouts, conn : Conns \cup {None}, event : Events]
             new == [th[t] EXCEPT !.at = "probe", !.conn = c]
  <2>1. th \in [Threads -> R] /\ "probe" \in Whereabouts
    BY DEF Inv, TypeOK, Whereabouts
  <2>2. new \in R /\ new.at = "probe" /\ new.conn = c
    BY <1>2, <2>1
  <2>3. th' = [th EXCEPT ![t] = new]
    BY DEF Resolve
  <2> HIDE DEF R, new
  <2>4. th' \in [Threads -> R] /\ th'[t] = new /\ \A u \in Threads : u # t => th'[u] = th[u]
    BY <2>1, <2>2, <2>3
  <2> QED BY <2>2, <2>4 DEF R
<1>4. /\ held' \in [Conns -> SUBSET Holders] /\ held'[c] = held[c] \cup {t}
      /\ \A d \in Conns : d # c => held'[d] = held[d]
  BY <1>2 DEF Resolve, Inv, TypeOK, Holders
<1>5. "job" \in Threads /\ th'["job"] = th["job"] /\ ~Locked'
  BY <1>1, <1>3, Names DEF Locked
<1> HIDE DEF c
<1>6. TypeOK'
  BY <1>1, <1>3, <1>4 DEF Inv, TypeOK, remote, file, link
<1>7. Places'
  BY <1>1, <1>2, <1>3, <1>5 DEF Inv, Places, link, c
<1>8. Holding'
  <2>1. th["job"].at = "insert" => th["job"].conn \in Conns /\ th["job"].conn # c
    BY <1>2, Names DEF Inv, Places, Holding
  <2> QED BY <1>1, <1>2, <1>3, <1>4, <1>5, <2>1, Names DEF Inv, Holding, c
<1>9. Deploying' /\ Distinct'
  <2>1. \A u \in Threads : dep[u].step # "none" => th'[u] = th[u]
    BY <1>2, <1>3
  <2>2. Deploying'
    BY <1>1, <2>1 DEF Inv, Deploying
  <2> QED BY <1>1, <2>2 DEF Inv, Distinct, remote
<1>10. InUse' /\ KeptWhileUsed'
  <2>1. \A d \in Conns : held'[d] # {} => held[d] # {}
    BY <1>2, <1>4
  <2> QED BY <1>1, <1>5, <2>1 DEF Inv, InUse, KeptWhileUsed, remote, link
<1>11. AgentsOwned'
  <2>1. \A d \in Conns : held[d] # {} => held'[d] # {}
    BY <1>4
  <2> QED BY <1>1, <1>5, <2>1 DEF Inv, AgentsOwned, Owned, remote
<1> QED BY <1>6, <1>7, <1>8, <1>9, <1>10, <1>11 DEF Inv

LEMMA StartCopyKeeps == ASSUME Inv, StartCopy PROVE Inv'
<1> DEFINE c == registered
           where == IF EnableQuic THEN "probe" ELSE "transfer"
<1>1. /\ app = "on" /\ th["job"] = Free /\ c # None
      /\ th' = [th EXCEPT !["job"] = At(where, c, "copy")]
      /\ UNCHANGED <<app, dep, conns, registered, cell, handle, remote, file, link>>
  BY DEF StartCopy, Browsing, Ready
<1>2. "job" \in Threads /\ th["job"].at = "free" /\ where \in {"probe", "transfer"}
  BY <1>1, Names DEF Free, At
<1>3. c \in Conns /\ dep["job"].step = "none" /\ "registry" \in held[c] /\ c <= conns /\ via = None
  BY <1>1, <1>2, DeployerIs DEF Inv, TypeOK, Places, Holding
<1>4. /\ th' \in [Threads -> [at : Whereabouts, conn : Conns \cup {None}, event : Events]]
      /\ th'["job"].at = where /\ th'["job"].conn = c
      /\ \A u \in Threads : u # "job" => th'[u] = th[u]
  <2> HIDE DEF where
  <2>1. /\ At(where, c, "copy") \in [at : Whereabouts, conn : Conns \cup {None}, event : Events]
        /\ At(where, c, "copy").at = where /\ At(where, c, "copy").conn = c
    BY <1>2, <1>3 DEF At, Whereabouts, Events
  <2> QED BY <1>1, <1>2, <2>1 DEF Inv, TypeOK
<1>5. /\ held' \in [Conns -> SUBSET Holders] /\ held'[c] = held[c] \cup {"job"}
      /\ \A d \in Conns : d # c => held'[d] = held[d]
  BY <1>3, Names DEF StartCopy, Inv, TypeOK, Holders
<1>6. ~Locked /\ ~Locked'
  BY <1>2, <1>4 DEF Locked
<1> HIDE DEF c, where
<1>7. TypeOK'
  BY <1>1, <1>4, <1>5 DEF Inv, TypeOK, remote, file, link
<1>8. Places'
  BY <1>1, <1>2, <1>3, <1>4 DEF Inv, Places, link, c
<1>9. Holding'
  BY <1>1, <1>2, <1>3, <1>4, <1>5, <1>6, Names DEF Inv, Holding, c
<1>10. Deploying' /\ Distinct'
  <2>1. \A u \in Threads : dep[u].step # "none" => th'[u] = th[u]
    BY <1>3, <1>4
  <2>2. Deploying'
    BY <1>1, <2>1 DEF Inv, Deploying
  <2> QED BY <1>1, <2>2 DEF Inv, Distinct, remote
<1>11. InUse' /\ KeptWhileUsed'
  <2>1. \A d \in Conns : held'[d] # {} => held[d] # {}
    BY <1>3, <1>5
  <2> QED BY <1>1, <1>3, <2>1 DEF Inv, InUse, KeptWhileUsed, remote, link
<1>12. AgentsOwned'
  <2>1. \A d \in Conns : held[d] # {} => held'[d] # {}
    BY <1>5
  <2> QED BY <1>1, <1>6, <2>1 DEF Inv, AgentsOwned, Owned, remote
<1> QED BY <1>7, <1>8, <1>9, <1>10, <1>11, <1>12 DEF Inv

-----------------------------------------------------------------------------
(* The modal job, and the UI thread.                                       *)

\* A thread that moves between places where it has no connection changes nothing.
LEMMA Moving ==
    ASSUME Inv, th' \in [Threads -> [at : Whereabouts, conn : Conns \cup {None}, event : Events]],
           \A u \in Threads : th[u].at \in Engaged \/ th'[u].at \in Engaged => th'[u] = th[u],
           UNCHANGED <<app, dep, connections, cell, handle, remote, file, link>>
    PROVE  TypeOK' /\ Holding' /\ Deploying' /\ Distinct' /\ InUse' /\ KeptWhileUsed' /\ AgentsOwned'
<1>1. TypeOK'
  BY DEF Inv, TypeOK, connections, remote, file, link
<1>2. (Locked <=> Locked') /\ (Locked => th'["job"] = th["job"])
  BY Names DEF Locked, Engaged
<1>3. Holding'
  <2>1. \A u \in Threads : th'[u].at \in {"probe", "transfer", "insert"} => th'[u] = th[u]
    BY DEF Engaged
  <2> QED BY <1>2, <2>1, Names DEF Inv, Holding, connections
<1>4. Deploying' /\ Distinct'
  <2>1. \A u \in Threads : dep[u].step # "none" => th'[u] = th[u]
    BY DeployerIs DEF Engaged
  <2>2. Deploying'
    BY <2>1 DEF Inv, Deploying
  <2> QED BY <2>2 DEF Inv, Distinct, remote
<1>5. InUse' /\ KeptWhileUsed'
  <2>1. via # None /\ app = "on" => th'["job"] = th["job"]
    BY Names DEF Inv, Places, Engaged
  <2> QED BY <2>1 DEF Inv, InUse, KeptWhileUsed, connections, remote, link
<1>6. AgentsOwned'
  BY <1>2 DEF Inv, AgentsOwned, Owned, connections, remote
<1> QED BY <1>1, <1>3, <1>4, <1>5, <1>6

\* What a thread has become by an assignment to th.
LEMMA NewPlaces ==
    \A where \in Whereabouts, event \in Events :
        /\ At(where, None, event) \in [at : Whereabouts, conn : Conns \cup {None}, event : Events]
        /\ At(where, None, event).at = where /\ At(where, None, event).conn = None
        /\ Free \in [at : Whereabouts, conn : Conns \cup {None}, event : Events]
        /\ Free.at = "free" /\ Free.conn = None
BY DEF At, Free, Whereabouts, Events

LEMMA StartConnectKeeps == ASSUME Inv, StartConnect PROVE Inv'
<1> DEFINE new == At("dial", None, "connect")
<1>1. /\ app = "on" /\ th["job"] = Free /\ conns < MaxConns /\ th' = [th EXCEPT !["job"] = new]
      /\ UNCHANGED <<app, dep, connections, cell, handle, remote, file, link>>
  BY DEF StartConnect, Browsing, Ready
<1>2. new \in [at : Whereabouts, conn : Conns \cup {None}, event : Events] /\ new.at = "dial" /\ new.conn = None
  BY NewPlaces DEF Whereabouts, Events
<1>3. "job" \in Threads /\ th["job"].at = "free" /\ th["job"].conn = None
  BY <1>1, Names, NewPlaces DEF Whereabouts, Events
<1> HIDE DEF new
<1>4. /\ th' \in [Threads -> [at : Whereabouts, conn : Conns \cup {None}, event : Events]]
      /\ th'["job"] = new /\ \A u \in Threads : u # "job" => th'[u] = th[u]
  BY <1>1, <1>2, <1>3 DEF Inv, TypeOK
<1>5. TypeOK' /\ Holding' /\ Deploying' /\ Distinct' /\ InUse' /\ KeptWhileUsed' /\ AgentsOwned'
  BY <1>1, <1>2, <1>3, <1>4, Moving DEF Engaged
<1>6. Places'
  <2>1. \A u \in Threads : th'[u].conn = th[u].conn
    BY <1>2, <1>3, <1>4
  <2> QED BY <1>1, <1>2, <1>3, <1>4, <2>1 DEF Inv, Places, connections, link
<1> QED BY <1>5, <1>6 DEF Inv

LEMMA JobFinishedKeeps == ASSUME Inv, JobFinished PROVE Inv'
<1> DEFINE next == IF th["job"].at = "connected" THEN At("resolve", None, "connect") ELSE Free
<1>1. /\ app = "on" /\ th["ui"] = Free /\ th["job"].at \in {"connected", "failed", "ended"}
      /\ th' = [th EXCEPT !["job"] = Free, !["ui"] = next]
      /\ UNCHANGED <<app, dep, connections, cell, handle, remote, file, link>>
  BY DEF JobFinished, Ready
<1>2. /\ next \in [at : Whereabouts, conn : Conns \cup {None}, event : Events] /\ next.conn = None
      /\ next.at \in {"free", "resolve"} /\ (next.at = "resolve" => th["job"].at = "connected")
      /\ Free \in [at : Whereabouts, conn : Conns \cup {None}, event : Events]
      /\ Free.at = "free" /\ Free.conn = None
  BY NewPlaces DEF Whereabouts, Events
<1> HIDE DEF next
<1>3. /\ th' \in [Threads -> [at : Whereabouts, conn : Conns \cup {None}, event : Events]]
      /\ th'["job"] = Free /\ th'["ui"] = next /\ \A u \in Threads \ {"ui", "job"} : th'[u] = th[u]
  BY <1>1, <1>2, Names DEF Inv, TypeOK
<1>4. \A u \in Threads : th[u].at \in Engaged \/ th'[u].at \in Engaged => th'[u] = th[u]
  BY <1>1, <1>2, <1>3 DEF Engaged
<1>5. TypeOK' /\ Holding' /\ Deploying' /\ Distinct' /\ InUse' /\ KeptWhileUsed' /\ AgentsOwned'
  BY <1>1, <1>3, <1>4, Moving
<1>6. Places'
  <2>1. \A u \in Threads : th'[u].conn \in {None, th[u].conn}
    BY <1>2, <1>3
  <2>2. None <= conns
    BY Counters DEF Inv, TypeOK, None
  <2>3. registered = None => \A u \in Threads : th'[u].at \in {"free", "dial", "insert", "failed"}
    BY <1>1, <1>2, <1>3, Names DEF Inv, Places
  <2> QED BY <1>1, <1>2, <1>3, <2>1, <2>2, <2>3 DEF Inv, Places, connections, link
<1> QED BY <1>5, <1>6 DEF Inv

LEMMA WarmFinishedKeeps == ASSUME Inv, NEW w \in Warms, WarmFinished(w) PROVE Inv'
<1>1. /\ app = "on" /\ th["ui"] = Free /\ th[w].at = "ended"
      /\ UNCHANGED <<app, dep, connections, cell, handle, remote, file, link>>
  BY DEF WarmFinished, Ready
<1>2. PICK next \in {At("resolve", None, "warm"), Free} : th' = [th EXCEPT ![w] = Free, !["ui"] = next]
  BY DEF WarmFinished
<1>3. /\ next \in [at : Whereabouts, conn : Conns \cup {None}, event : Events] /\ next.conn = None
      /\ next.at \in {"free", "resolve"}
      /\ Free \in [at : Whereabouts, conn : Conns \cup {None}, event : Events]
      /\ Free.at = "free" /\ Free.conn = None
  BY NewPlaces DEF Whereabouts, Events
<1>4. w \in Threads /\ w # "ui" /\ w # "job" /\ "ui" \in Threads /\ "job" \in Threads
  BY Names
<1>5. /\ th' \in [Threads -> [at : Whereabouts, conn : Conns \cup {None}, event : Events]]
      /\ th'[w] = Free /\ th'["ui"] = next /\ \A u \in Threads \ {"ui", w} : th'[u] = th[u]
  BY <1>2, <1>3, <1>4 DEF Inv, TypeOK
<1>6. \A u \in Threads : th[u].at \in Engaged \/ th'[u].at \in Engaged => th'[u] = th[u]
  BY <1>1, <1>3, <1>5 DEF Engaged
<1>7. TypeOK' /\ Holding' /\ Deploying' /\ Distinct' /\ InUse' /\ KeptWhileUsed' /\ AgentsOwned'
  BY <1>1, <1>5, <1>6, Moving
<1>8. Places'
  <2>1. \A u \in Threads : th'[u].conn \in {None, th[u].conn}
    BY <1>3, <1>5
  <2>2. None <= conns
    BY Counters DEF Inv, TypeOK, None
  <2>3. registered # None
    BY <1>1, <1>4 DEF Inv, Places
  <2> QED BY <1>1, <1>4, <1>5, <2>1, <2>2, <2>3 DEF Inv, Places, connections, link
<1> QED BY <1>7, <1>8 DEF Inv

LEMMA DialKeeps == ASSUME Inv, Dial PROVE Inv'
<1>1. th["job"].at = "dial" /\ UNCHANGED <<app, dep, registered, cell, handle, remote, file, link>>
  BY DEF Dial
<1>2. CASE Run("job", "failed") /\ UNCHANGED <<conns, held>>
  <2>1. /\ th' \in [Threads -> [at : Whereabouts, conn : Conns \cup {None}, event : Events]]
        /\ th'["job"].at = "failed" /\ th'["job"].conn = th["job"].conn
        /\ \A u \in Threads : u # "job" => th'[u] = th[u]
    BY <1>2, RunDoes, Names DEF Inv, Whereabouts
  <2>2. TypeOK' /\ Holding' /\ Deploying' /\ Distinct' /\ InUse' /\ KeptWhileUsed' /\ AgentsOwned'
    BY <1>1, <1>2, <2>1, Moving DEF Engaged, connections
  <2>3. Places'
    BY <1>1, <1>2, <2>1, Names DEF Inv, Places, link
  <2> QED BY <2>2, <2>3 DEF Inv
<1>3. CASE /\ conns' = conns + 1 /\ th' = [th EXCEPT !["job"] = At("insert", conns + 1, "connect")]
           /\ held' = [held EXCEPT ![conns + 1] = {"job"}]
  <2> DEFINE c == conns + 1
             new == At("insert", conns + 1, "connect")
  <2>1. c \in Conns /\ c > conns /\ c # None /\ conns \in Nat
    BY <1>1, Counters, BoundsAssumption DEF Inv, Places, Conns, None
  <2>2. new \in [at : Whereabouts, conn : Conns \cup {None}, event : Events] /\ new.at = "insert" /\ new.conn = c
    BY <2>1 DEF At, Whereabouts, Events
  <2>3. app = "on" /\ dep["job"].step = "none" /\ via = None /\ "job" \in Threads
    BY <1>1, DeployerIs, Names DEF Inv, TypeOK, Places
  <2> HIDE DEF new
  <2>4. /\ th' \in [Threads -> [at : Whereabouts, conn : Conns \cup {None}, event : Events]]
        /\ th'["job"] = new /\ \A u \in Threads : u # "job" => th'[u] = th[u]
    BY <1>3, <2>2, <2>3 DEF Inv, TypeOK, new
  <2>5. /\ held' \in [Conns -> SUBSET Holders] /\ held'[c] = {"job"}
        /\ \A d \in Conns : d # c => held'[d] = held[d]
    BY <1>3, <2>1, <2>3 DEF Inv, TypeOK, Holders
  <2>6. /\ \A u \in Threads : th[u].conn # c
        /\ registered # c /\ handle[c] = None /\ ~Locked /\ ~Locked'
    <3>1. /\ \A u \in Threads : th[u].conn \in Nat /\ th[u].conn <= conns
          /\ registered \in Nat /\ registered <= conns
      BY Numbers, Counters DEF Inv, TypeOK, Places
    <3>2. handle[c] = None
      BY <2>1 DEF Inv, InUse
    <3> QED BY <1>1, <2>1, <2>2, <2>4, <3>1, <3>2 DEF Locked
  <2> HIDE DEF c
  <2>7. TypeOK'
    BY <1>1, <1>3, <2>1, <2>4, <2>5 DEF Inv, TypeOK, remote, file, link, c
  <2>8. Places'
    <3>1. c <= c /\ conns' = c /\ \A n \in Nat : n <= conns => n <= c
      BY <1>3, <2>1 DEF c
    <3>2. \A u \in Threads : th[u].conn \in Nat /\ registered \in Nat
      BY Numbers, Counters DEF Inv, TypeOK
    <3> QED BY <1>1, <2>1, <2>2, <2>3, <2>4, <3>1, <3>2 DEF Inv, Places, link
  <2>9. Holding'
    <3>1. \A u \in Threads : th'[u].at \in {"probe", "transfer"} => th'[u].conn \in Conns /\ u \in held'[th'[u].conn]
      BY <2>2, <2>4, <2>5, <2>6 DEF Inv, Holding
    <3>2. \A d \in Conns : "registry" \in held'[d] => d = registered
      BY <2>5 DEF Inv, Holding
    <3>3. registered # None => "registry" \in held'[registered]
      BY <2>5, <2>6 DEF Inv, Holding, TypeOK
    <3> QED BY <1>1, <2>2, <2>4, <2>5, <2>6, <3>1, <3>2, <3>3 DEF Holding
  <2>10. Deploying' /\ Distinct'
    <3>1. \A u \in Threads : dep[u].step # "none" => th'[u] = th[u]
      BY <2>3, <2>4
    <3>2. Deploying'
      BY <1>1, <3>1 DEF Inv, Deploying
    <3> QED BY <1>1, <3>2 DEF Inv, Distinct, remote
  <2>11. InUse' /\ KeptWhileUsed'
    <3>1. \A d \in Conns : d \in Nat /\ (d <= conns => d <= conns')
      BY <1>3, <2>1, Numbers
    <3> QED BY <1>1, <2>3, <2>5, <2>6, <3>1 DEF Inv, InUse, KeptWhileUsed, remote, link
  <2>12. AgentsOwned'
    BY <1>1, <2>5, <2>6 DEF Inv, AgentsOwned, Owned, remote
  <2> QED BY <2>7, <2>8, <2>9, <2>10, <2>11, <2>12 DEF Inv
<1> QED BY <1>2, <1>3 DEF Dial

LEMMA InsertKeeps == ASSUME Inv, Insert PROVE Inv'
<1> DEFINE c == th["job"].conn
           last == registered # None /\ held[registered] = {"registry"}
           new == At(IF last THEN "drop" ELSE "connected", IF last THEN registered ELSE None, "connect")
<1>1. /\ th["job"].at = "insert" /\ registered' = c
      /\ held' = [d \in Conns |-> IF d = c THEN {"registry"} ELSE held[d] \ {"registry"}]
      /\ th' = [th EXCEPT !["job"] = new]
      /\ UNCHANGED <<app, dep, conns, cell, handle, remote, file, link>>
  BY DEF Insert
<1>2. /\ "job" \in Threads /\ c \in Conns /\ c # None /\ held[c] = {"job"} /\ c # registered
      /\ app = "on" /\ dep["job"].step = "none" /\ via = None /\ c <= conns
  <2>1. "job" \in Threads /\ c \in Conns /\ c # None /\ held[c] = {"job"} /\ c <= conns
    BY <1>1, Names, Numbers DEF Inv, Places, Holding
  <2>2. c # registered
    BY <2>1, Names DEF Inv, Holding
  <2>3. app = "on" /\ dep["job"].step = "none" /\ via = None
    BY <1>1, <2>1, DeployerIs DEF Inv, TypeOK, Places
  <2> QED BY <2>1, <2>2, <2>3
<1>3. registered \in Conns \cup {None} /\ registered <= conns /\ None <= conns
  BY Counters DEF Inv, TypeOK, Places, None
<1>4. /\ new \in [at : Whereabouts, conn : Conns \cup {None}, event : Events]
      /\ new.at = (IF last THEN "drop" ELSE "connected") /\ new.conn = (IF last THEN registered ELSE None)
  BY <1>3 DEF At, Whereabouts, Events
<1> HIDE DEF new
<1>5. /\ th' \in [Threads -> [at : Whereabouts, conn : Conns \cup {None}, event : Events]]
      /\ th'["job"] = new /\ \A u \in Threads : u # "job" => th'[u] = th[u]
  BY <1>1, <1>2, <1>4 DEF Inv, TypeOK
<1>6. /\ held' \in [Conns -> SUBSET Holders] /\ held'[c] = {"registry"}
      /\ \A d \in Conns : d # c => held'[d] = held[d] \ {"registry"}
  <2>1. \A d \in Conns : held[d] \in SUBSET Holders
    BY DEF Inv, TypeOK
  <2>2. "registry" \in Holders
    BY DEF Holders
  <2> QED BY <1>1, <1>2, <2>1, <2>2
<1>7. ~Locked /\ (Locked' <=> last)
  BY <1>1, <1>4, <1>5 DEF Locked
<1> HIDE DEF c
<1>8. TypeOK'
  BY <1>1, <1>2, <1>5, <1>6 DEF Inv, TypeOK, remote, file, link
<1>9. Places'
  BY <1>1, <1>2, <1>3, <1>4, <1>5 DEF Inv, Places, link
<1>10. Holding'
  <2>1. \A u \in Threads : th'[u].at \in {"probe", "transfer"} => th'[u].conn \in Conns /\ u \in held'[th'[u].conn]
    <3> SUFFICES ASSUME NEW u \in Threads, th'[u].at \in {"probe", "transfer"}
                 PROVE  th'[u].conn \in Conns /\ u \in held'[th'[u].conn]
      OBVIOUS
    <3>1. u # "job" /\ th'[u] = th[u] /\ u # "registry"
      BY <1>4, <1>5, Names
    <3>2. th[u].conn \in Conns /\ u \in held[th[u].conn]
      BY <3>1 DEF Inv, Holding
    <3>3. th[u].conn # c
      BY <1>2, <3>1, <3>2
    <3> QED BY <1>6, <3>1, <3>2, <3>3
  <2>2. Locked' => held'[th'["job"].conn] = {}
    BY <1>2, <1>3, <1>4, <1>5, <1>6, <1>7
  <2> QED BY <1>1, <1>2, <1>4, <1>5, <1>6, <2>1, <2>2 DEF Holding
<1>11. Deploying' /\ Distinct'
  <2>1. \A u \in Threads : dep[u].step # "none" => th'[u] = th[u]
    BY <1>2, <1>5
  <2>2. Deploying'
    BY <1>1, <2>1 DEF Inv, Deploying
  <2> QED BY <1>1, <2>2 DEF Inv, Distinct, remote
<1>12. InUse' /\ KeptWhileUsed'
  <2>1. \A d \in Conns : held'[d] # {} => held[d] # {}
    BY <1>2, <1>6
  <2> QED BY <1>1, <1>2, <2>1 DEF Inv, InUse, KeptWhileUsed, remote, link
<1>13. AgentsOwned'
  <2> SUFFICES ASSUME NEW q \in Procs, procs'[q] = "up" PROVE q \in Owned' \cup lost'
    BY DEF AgentsOwned
  <2>1. q \in Owned \cup lost
    BY <1>1 DEF Inv, AgentsOwned, remote
  <2>2. ASSUME NEW d \in Conns, held[d] # {}, q = handle[d] PROVE q \in Owned'
    <3>1. CASE held'[d] # {}
      BY <1>1, <2>2, <3>1 DEF Owned
    <3>2. CASE held'[d] = {}
      <4>1. d # c /\ held[d] = {"registry"}
        BY <1>6, <2>2, <3>2
      <4>2. d = registered
        BY <4>1 DEF Inv, Holding
      <4>3. last
        BY <4>1, <4>2, Numbers
      <4> QED BY <1>1, <1>4, <1>5, <1>7, <2>2, <4>2, <4>3 DEF Owned
    <3> QED BY <3>1, <3>2
  <2> QED BY <1>1, <1>7, <2>1, <2>2 DEF Owned, remote
<1> QED BY <1>8, <1>9, <1>10, <1>11, <1>12, <1>13 DEF Inv

LEMMA DropReplacedKeeps == ASSUME Inv, DropReplaced PROVE Inv'
<1> DEFINE c == th["job"].conn
           new == At("connected", None, "connect")
<1>1. /\ th["job"].at = "drop" /\ Kill(handle[c]) /\ th' = [th EXCEPT !["job"] = new]
      /\ UNCHANGED <<app, dep, connections, cell, handle, started, crashed, file, link>>
  BY DEF DropReplaced, Locked
<1>2. /\ "job" \in Threads /\ c \in Conns /\ held[c] = {} /\ handle[c] \in Procs \cup {None}
      /\ app = "on" /\ dep["job"].step = "none" /\ via = None /\ registered # None
  <2>1. "job" \in Threads /\ c \in Conns /\ held[c] = {}
    BY <1>1, Names DEF Inv, Places, Holding, Locked
  <2>2. handle[c] \in Procs \cup {None}
    BY <2>1 DEF Inv, TypeOK
  <2>3. app = "on" /\ dep["job"].step = "none" /\ via = None /\ registered # None
    BY <1>1, <2>1, DeployerIs DEF Inv, TypeOK, Places
  <2> QED BY <2>1, <2>2, <2>3
<1>3. new \in [at : Whereabouts, conn : Conns \cup {None}, event : Events] /\ new.at = "connected" /\ new.conn = None
  BY NewPlaces DEF Whereabouts, Events
<1> HIDE DEF new
<1>4. /\ th' \in [Threads -> [at : Whereabouts, conn : Conns \cup {None}, event : Events]]
      /\ th'["job"] = new /\ \A u \in Threads : u # "job" => th'[u] = th[u]
  BY <1>1, <1>2, <1>3 DEF Inv, TypeOK
<1>5. /\ procs' \in [Procs -> {"none", "up", "gone"}] /\ lost' \in SUBSET Procs
      /\ \A q \in Procs : q # handle[c] => procs'[q] = procs[q]
      /\ \A q \in Procs : procs'[q] = "up" => procs[q] = "up" /\ (q = handle[c] => q \in lost')
      /\ lost \subseteq lost'
  BY <1>1, <1>2, KillDoes DEF Inv
<1>6. TypeOK'
  BY <1>1, <1>4, <1>5 DEF Inv, TypeOK, connections, file, link
<1>7. Places'
  <2>1. None <= conns
    BY Counters DEF Inv, TypeOK, None
  <2> QED BY <1>1, <1>2, <1>3, <1>4, <2>1 DEF Inv, Places, connections, link
<1>8. Holding'
  BY <1>1, <1>2, <1>3, <1>4, Names DEF Inv, Holding, Locked, connections
<1>9. Deploying' /\ Distinct'
  <2>1. \A u \in Threads : dep[u].step # "none" => th'[u] = th[u]
    BY <1>2, <1>4
  <2>2. Deploying'
    BY <1>1, <2>1 DEF Inv, Deploying
  <2> QED BY <1>1, <2>2 DEF Inv, Distinct
<1>10. InUse' /\ KeptWhileUsed'
  <2>1. \A d \in Conns : handle[d] # None /\ held[d] # {} => procs'[handle[d]] = procs[handle[d]]
    BY <1>2, <1>5 DEF Inv, TypeOK, Distinct
  <2> QED BY <1>1, <1>2, <2>1 DEF Inv, InUse, KeptWhileUsed, connections, link
<1>11. AgentsOwned'
  <2> SUFFICES ASSUME NEW q \in Procs, procs'[q] = "up", q # handle[c] PROVE q \in Owned' \cup lost'
    BY <1>5 DEF AgentsOwned
  <2>1. q \in Owned \cup lost
    BY <1>5 DEF Inv, AgentsOwned
  <2> QED BY <1>1, <1>5, <2>1 DEF Owned, connections
<1> QED BY <1>6, <1>7, <1>8, <1>9, <1>10, <1>11 DEF Inv

LEMMA NegotiateKeeps == ASSUME Inv, Negotiate PROVE Inv'
<1> DEFINE c == th["job"].conn
<1>1. /\ th["job"].at = "probe" /\ cell[c] \in {"none", "agent"}
      /\ via' = IF cell[c] = "agent" THEN handle[c] ELSE None
      /\ Run("job", "transfer")
      /\ UNCHANGED <<app, dep, connections, cell, handle, remote, file, cut>>
  BY DEF Negotiate, Probed
<1>2. /\ "job" \in Threads /\ c \in Conns /\ "job" \in held[c] /\ dep["job"].step = "none" /\ app = "on"
      /\ registered # None
  BY <1>1, Names, DeployerIs DEF Inv, TypeOK, Places, Holding
<1>3. /\ th' \in [Threads -> [at : Whereabouts, conn : Conns \cup {None}, event : Events]]
      /\ th'["job"].at = "transfer" /\ th'["job"].conn = c
      /\ \A u \in Threads : u # "job" => th'[u] = th[u]
  BY <1>1, <1>2, RunDoes DEF Inv, Whereabouts
<1>4. via' = handle[c]
  BY <1>1, <1>2 DEF Inv, Deploying
<1>5. ~Locked /\ ~Locked'
  BY <1>1, <1>3 DEF Locked
<1> HIDE DEF c
<1>6. TypeOK'
  BY <1>1, <1>2, <1>3, <1>4 DEF Inv, TypeOK, connections, remote, file
<1>7. Places'
  BY <1>1, <1>2, <1>3, c = th["job"].conn DEF Inv, Places, connections, c
<1>8. Holding'
  BY <1>1, <1>2, <1>3, <1>5 DEF Inv, Holding, connections
<1>9. Deploying' /\ Distinct'
  <2>1. \A u \in Threads : dep[u].step # "none" => th'[u] = th[u]
    BY <1>2, <1>3
  <2>2. Deploying'
    BY <1>1, <2>1 DEF Inv, Deploying
  <2> QED BY <1>1, <2>2 DEF Inv, Distinct, remote
<1>10. InUse' /\ KeptWhileUsed'
  BY <1>1, <1>2, <1>3, <1>4 DEF Inv, InUse, KeptWhileUsed, connections, remote
<1>11. AgentsOwned'
  BY <1>1, <1>5 DEF Inv, AgentsOwned, Owned, connections, remote
<1> QED BY <1>6, <1>7, <1>8, <1>9, <1>10, <1>11 DEF Inv

-----------------------------------------------------------------------------
(* The end of the program, and the world around it.                        *)

LEMMA ExitKeeps == ASSUME Inv, app = "on", Exit PROVE Inv'
<1>1. /\ app' = "exited" /\ th' = [t \in Threads |-> Free] /\ dep' = [t \in Threads |-> Idle]
      /\ held' = [c \in Conns |-> {}] /\ registered' = None
      /\ UNCHANGED <<conns, cell, handle, started, crashed, file, link>>
  BY DEF Exit
<1>2. PICK dead \in {Killed, {}} :
          /\ procs' = [p \in Procs |-> IF p \in dead /\ procs[p] = "up" THEN "gone" ELSE procs[p]]
          /\ lost' = {p \in Procs : procs'[p] = "up"}
  BY DEF Exit
<1>3. /\ Free \in [at : Whereabouts, conn : Conns \cup {None}, event : Events]
      /\ Free.at = "free" /\ Free.conn = None
      /\ Idle \in [step : Steps, proc : Procs \cup {None}] /\ Idle.step = "none" /\ Idle.proc = None
  BY DEF Free, At, Idle, Whereabouts, Events, Steps
<1>4. None <= conns /\ None <= started
  BY Counters DEF Inv, TypeOK, None
<1>5. \A t \in Threads : th'[t] = Free /\ dep'[t] = Idle
  BY <1>1
<1>6. procs' \in [Procs -> {"none", "up", "gone"}]
  BY <1>2 DEF Inv, TypeOK
<1>7. TypeOK'
  <2>1. th' \in [Threads -> [at : Whereabouts, conn : Conns \cup {None}, event : Events]]
    BY <1>1, <1>3
  <2>2. dep' \in [Threads -> [step : Steps, proc : Procs \cup {None}]]
    BY <1>1, <1>3
  <2> QED BY <1>1, <1>2, <1>6, <2>1, <2>2 DEF Inv, TypeOK, file, link
<1>8. Places'
  BY <1>1, <1>3, <1>4, <1>5, Names DEF Places
<1>9. Holding'
  BY <1>1, <1>3, <1>5, Names DEF Holding, Locked
<1>10. Deploying'
  BY <1>1, <1>3, <1>5 DEF Inv, Deploying
<1>11. Distinct'
  BY <1>1, <1>3, <1>4, <1>5 DEF Inv, Distinct
<1>12. InUse'
  BY <1>1 DEF Inv, InUse
<1>13. KeptWhileUsed'
  <2> SUFFICES ASSUME via # None PROVE via \notin dead
    BY <1>1, <1>2 DEF Inv, KeptWhileUsed, TypeOK, link
  <2>1. /\ th["job"].conn \in Conns /\ "job" \in held[th["job"].conn] /\ via = handle[th["job"].conn]
    BY Names DEF Inv, Places, Holding, InUse
  <2>2. \A c \in Conns : held[c] = {"registry"} => handle[c] # via
    BY <2>1 DEF Inv, Distinct
  <2> QED BY <2>2 DEF Killed
<1>14. AgentsOwned'
  BY <1>2 DEF AgentsOwned
<1> QED BY <1>7, <1>8, <1>9, <1>10, <1>11, <1>12, <1>13, <1>14 DEF Inv

LEMMA AgentDiesKeeps == ASSUME Inv, AgentDies PROVE Inv'
<1>1. PICK p \in Procs : procs' = [procs EXCEPT ![p] = "gone"] /\ crashed' = crashed \cup {p} /\ cut' = cut \cup {p}
  BY DEF AgentDies
<1>2. UNCHANGED <<app, th, dep, connections, cell, handle, started, lost, file, via>>
  BY DEF AgentDies
<1>3. /\ procs' \in [Procs -> {"none", "up", "gone"}] /\ procs'[p] = "gone"
      /\ \A q \in Procs : q # p => procs'[q] = procs[q]
  BY <1>1 DEF Inv, TypeOK
<1>4. TypeOK'
  BY <1>1, <1>2, <1>3 DEF Inv, TypeOK, connections, file
<1>5. Places' /\ Holding' /\ Deploying' /\ Distinct'
  BY <1>2 DEF Inv, Places, Holding, Deploying, Distinct, Locked, connections
<1>6. InUse'
  <2>1. \A c \in Conns : handle[c] # None => handle[c] \in Procs
    BY DEF Inv, TypeOK
  <2> QED BY <1>1, <1>2, <1>3, <2>1 DEF Inv, InUse, connections
<1>7. KeptWhileUsed'
  BY <1>1, <1>2, <1>3 DEF Inv, KeptWhileUsed, TypeOK
<1>8. AgentsOwned'
  BY <1>2, <1>3 DEF Inv, AgentsOwned, Owned, Locked, connections
<1> QED BY <1>4, <1>5, <1>6, <1>7, <1>8 DEF Inv

\* What the rest of the environment does touches only the file and dead links.
LEMMA EnvironmentKeeps == ASSUME Inv, Environment PROVE Inv'
<1>1. CASE AgentDies
  BY <1>1, AgentDiesKeeps
<1>2. CASE IdleTimeout \/ OtherOpens \/ OtherStarts \/ OtherStops
  <2>1. UNCHANGED <<app, th, dep, connections, cell, handle, remote, via>>
    BY <1>2 DEF IdleTimeout, OtherOpens, OtherStarts, OtherStops, link
  <2>2. cut' \in SUBSET Procs /\ other' \in {"idle", "writing", "up"}
    BY <1>2 DEF Inv, TypeOK, IdleTimeout, OtherOpens, OtherStarts, OtherStops, file, link
  <2>3. image' \in [whole : BOOLEAN, by : Threads \cup {"other", "nobody"}]
    <3>1. image' \in {image, [whole |-> FALSE, by |-> "other"], [image EXCEPT !.whole = TRUE]}
      BY <1>2 DEF IdleTimeout, OtherOpens, OtherStarts, OtherStops, file
    <3>2. image \in [whole : BOOLEAN, by : Threads \cup {"other", "nobody"}]
      BY DEF Inv, TypeOK
    <3>3. [whole |-> FALSE, by |-> "other"] \in [whole : BOOLEAN, by : Threads \cup {"other", "nobody"}]
      OBVIOUS
    <3>4. [image EXCEPT !.whole = TRUE] \in [whole : BOOLEAN, by : Threads \cup {"other", "nobody"}]
      BY <3>2
    <3> QED BY Zenon, <3>1, <3>2, <3>3, <3>4
  <2>4. TypeOK'
    BY <2>1, <2>2, <2>3 DEF Inv, TypeOK, connections, remote
  <2>5. Places' /\ Holding' /\ Deploying' /\ Distinct'
    BY <2>1 DEF Inv, Places, Holding, Deploying, Distinct, Locked, connections, remote
  <2>6. InUse' /\ KeptWhileUsed' /\ AgentsOwned'
    BY <2>1 DEF Inv, InUse, KeptWhileUsed, AgentsOwned, Owned, Locked, connections, remote
  <2> QED BY <2>4, <2>5, <2>6 DEF Inv
<1> QED BY <1>1, <1>2 DEF Environment

-----------------------------------------------------------------------------
LEMMA InvInit == Init => Inv
<1> SUFFICES ASSUME Init PROVE Inv
  OBVIOUS
<1>1. /\ Free \in [at : Whereabouts, conn : Conns \cup {None}, event : Events]
      /\ Free.at = "free" /\ Free.conn = None
      /\ Idle \in [step : Steps, proc : Procs \cup {None}] /\ Idle.step = "none" /\ Idle.proc = None
  BY DEF Free, At, Idle, Whereabouts, Events, Steps
<1>2. \A t \in Threads : th[t] = Free /\ dep[t] = Idle
  BY DEF Init
<1>3. \A c \in Conns : held[c] = {} /\ cell[c] = "empty" /\ handle[c] = None
  BY DEF Init
<1>4. TypeOK
  <2>1. /\ th \in [Threads -> [at : Whereabouts, conn : Conns \cup {None}, event : Events]]
        /\ dep \in [Threads -> [step : Steps, proc : Procs \cup {None}]]
    BY <1>1 DEF Init
  <2>2. image \in [whole : BOOLEAN, by : Threads \cup {"other", "nobody"}]
    BY DEF Init
  <2> QED BY <2>1, <2>2 DEF Init, TypeOK, None
<1>5. Places
  BY <1>1, <1>2, Names DEF Init, Places, None
<1>6. Holding
  BY <1>1, <1>2, <1>3, Names DEF Init, Holding, Locked
<1>7. Deploying /\ Distinct
  BY <1>1, <1>2, <1>3 DEF Init, Deploying, Distinct, None
<1>8. InUse /\ KeptWhileUsed
  BY <1>3 DEF Init, InUse, KeptWhileUsed
<1>9. AgentsOwned
  BY DEF Init, AgentsOwned
<1> QED BY <1>4, <1>5, <1>6, <1>7, <1>8, <1>9 DEF Inv

LEMMA DeployPreserves == ASSUME Inv, NEW t \in Threads, Deploy(t) PROVE Inv'
BY BeginDeployKeeps, CheckHostKeeps, OpenImageKeeps, WriteImageKeeps, ExecAgentKeeps, ReadStartupKeeps,
   HandshakeKeeps, KillUnreachedKeeps DEF Deploy

LEMMA InvNext == Inv /\ [Next]_vars => Inv'
<1> SUFFICES ASSUME Inv, [Next]_vars PROVE Inv'
  OBVIOUS
<1>1. CASE UiStep
  BY <1>1, ResolveKeeps, DeployPreserves, UiProbedKeeps, JobFinishedKeeps, WarmFinishedKeeps, Names DEF UiStep
<1>2. CASE JobStep
  BY <1>2, DialKeeps, InsertKeeps, DropReplacedKeeps, DeployPreserves, NegotiateKeeps, TransferKeeps, Names DEF JobStep
<1>3. ASSUME NEW w \in Warms, WarmStep(w) PROVE Inv'
  BY <1>3, ResolveKeeps, DeployPreserves, WarmDoneKeeps, Names DEF WarmStep
<1>4. CASE StartConnect \/ StartCopy
  BY <1>4, StartConnectKeeps, StartCopyKeeps
<1>5. CASE Quit \/ InputLost
  BY <1>5, ExitKeeps DEF Quit, InputLost, Browsing, Ready
<1>6. CASE Environment
  BY <1>6, EnvironmentKeeps
<1>7. CASE UNCHANGED vars
  BY <1>7 DEF vars, remote, file, link, connections, Inv, TypeOK, Places, Holding, Deploying, Distinct, InUse,
              KeptWhileUsed, AgentsOwned, Owned, Locked
<1> QED BY <1>1, <1>2, <1>3, <1>4, <1>5, <1>6, <1>7 DEF Next, Exited

-----------------------------------------------------------------------------
\* Every variable holds a value of its kind, for every number of warm-ups,
\* connections and agents and whatever fails.
THEOREM TypeCorrect == Spec => []TypeOK
<1>1. Inv => TypeOK
  BY DEF Inv
<1> QED BY InvInit, InvNext, <1>1, PTL DEF Spec

\* Every agent that runs is one somebody is going to kill, or one whose startup
\* or kill call failed, or whose pfnc has gone.
THEOREM NoOrphans == Spec => []AgentsOwned
<1>1. Inv => AgentsOwned
  BY DEF Inv
<1> QED BY InvInit, InvNext, <1>1, PTL DEF Spec

\* Drop for SftpFs never kills an agent a copy goes through.
THEOREM NoneKilledInUse == Spec => []KeptWhileUsed
<1>1. Inv => KeptWhileUsed
  BY DEF Inv
<1> QED BY InvInit, InvNext, <1>1, PTL DEF Spec
=============================================================================
