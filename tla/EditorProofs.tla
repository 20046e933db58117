---------------------------- MODULE EditorProofs ----------------------------
(***************************************************************************)
(* What holds of an edit for every length of the waits and however many    *)
(* keys are typed ahead.                                                   *)
(***************************************************************************)
EXTENDS EditorGate, TLAPS

\* While the editor may run, the gate is paused; after its one read of the
\* terminal the input thread does not get past the gate.  A poll that has begun
\* before runs down beside the grace period.
GateHolds ==
    /\ main \in {"grace", "editing"} => paused
    /\ stolen > 0 => main = "editing" /\ reader \in {"read", "check", "nap"}
    /\ main # "grace" => mainT = 0
    /\ reader = "poll" => readerT <= PollTicks
    /\ main \in {"grace", "editing"} /\ reader = "poll" =>
          readerT + GraceTicks <= PollTicks + mainT

\* Where the text of the user is at each stage.
TextKept ==
    /\ main \in {"fetch", "grace"} => ~written
    /\ main = "fetch" => target \in {"old", "theirs"}
    /\ main = "editing" /\ written =>
          IF place = "local" THEN target \in {"mine", "theirs"} ELSE copy = "mine"
    /\ main \in {"open", "send"} => written /\ copy = "mine"

\* Keys are neither made nor doubled.
KeysBounded == keys + queue + channel <= MaxKeys

Inv == TypeOK /\ EditorHasTerminal /\ KeysBounded /\ GateHolds /\ SavedOrTold /\ TextKept

LEMMA Bounds == PollTicks \in Nat /\ NapTicks \in Nat /\ GraceTicks \in Nat /\ MaxKeys \in Nat
BY TicksAssumption

LEMMA InvInit == Init => Inv
<1> SUFFICES ASSUME Init PROVE Inv
  OBVIOUS
<1>1. paused \in BOOLEAN /\ ~written /\ written \in BOOLEAN
  BY Zenon DEF Init
<1> QED
  BY <1>1, Bounds DEF Init, Inv, TypeOK, EditorHasTerminal, KeysBounded, GateHolds, SavedOrTold, TextKept

\* The input thread, time and the keyboard, which leave the files alone.
LEMMA ClockNext ==
    ASSUME Inv, ReaderStep \/ Type \/ Tick \/ EditorReads \/ HandleKey \/ UNCHANGED vars
    PROVE  Inv'
<1> USE Bounds DEF Inv, TypeOK, KeysBounded, EditorHasTerminal, GateHolds
<1>1. UNCHANGED <<main, place, target, copy, written, status, paused>>
  BY DEF ReaderStep, CheckGate, TimeUp, PollSeesKey, ReadKey, Type, Tick, EditorReads, HandleKey,
         mainVars, fileVars, vars
<1>2. SavedOrTold' /\ TextKept'
  BY <1>1 DEF SavedOrTold, TextKept
<1>3. CASE CheckGate \/ TimeUp
  BY <1>1, <1>2, <1>3 DEF CheckGate, TimeUp, mainVars
<1>4. CASE PollSeesKey
  BY <1>1, <1>2, <1>4 DEF PollSeesKey, mainVars
<1>5. CASE ReadKey
  BY <1>1, <1>2, <1>5 DEF ReadKey, mainVars
<1>6. CASE Type
  BY <1>1, <1>2, <1>6 DEF Type, mainVars, readerVars
<1>9. CASE Tick
  BY <1>1, <1>2, <1>9 DEF Tick, Busy
<1>7. CASE EditorReads \/ HandleKey
  BY <1>1, <1>2, <1>7 DEF EditorReads, HandleKey, mainVars, readerVars
<1>8. CASE UNCHANGED vars
  BY <1>1, <1>2, <1>8 DEF vars
<1> QED BY <1>3, <1>4, <1>5, <1>6, <1>7, <1>8, <1>9 DEF ReaderStep

\* The steps of edit_file, of the editor and of other programs.
LEMMA EditNext ==
    ASSUME Inv, StartEdit \/ Fetch \/ LaunchEditor \/ EditorExits \/ OpenTarget \/ Send
                \/ EditorWrites \/ OthersWrite
    PROVE  Inv'
<1> USE Bounds DEF Inv, TypeOK, KeysBounded, EditorHasTerminal, GateHolds, SavedOrTold, TextKept
<1>1. CASE StartEdit
  <2>1. /\ paused' \in BOOLEAN /\ written' \in BOOLEAN /\ ~written'
        /\ main' = "grace" => paused'
    BY <1>1, Zenon DEF StartEdit, readerVars, mainVars
  <2> QED BY <1>1, <2>1 DEF StartEdit, readerVars, mainVars
<1>2. CASE Fetch
  <2>1. /\ paused' \in BOOLEAN /\ written' \in BOOLEAN /\ written' = written
        /\ main' = "grace" => paused'
    BY <1>2, Zenon DEF Fetch, readerVars
  <2>2. /\ main = "fetch" /\ ~written /\ (main' = "loop" => status' = "error")
        /\ (main' = "grace" /\ mainT' = GraceTicks) \/ (main' = "loop" /\ mainT' = mainT)
        /\ copy' \in {target, copy} /\ (status' = status \/ status' = "error")
        /\ UNCHANGED <<readerVars, keys, queue, channel, stolen, place, target>>
    BY <1>2 DEF Fetch
  <2>3. (main' = "grace" /\ copy' = target) \/ copy' = copy
    BY <1>2 DEF Fetch
  <2>4. copy' \in {"none", "old", "mine", "theirs"}
    BY <1>2 DEF Fetch
  <2> QED BY <2>1, <2>2, <2>3, <2>4 DEF readerVars
<1>3. CASE LaunchEditor
  <2>1. paused' = paused \/ paused' = FALSE
    BY <1>3, Zenon DEF LaunchEditor
  <2>2. paused' \in BOOLEAN /\ written' \in BOOLEAN /\ written' = written
    BY <1>3, <2>1, Zenon DEF LaunchEditor
  <2>3. main' = "editing" => paused'
    <3>1. main' = "loop" => main' # "editing"
      OBVIOUS
    <3> QED BY <1>3, <3>1, Zenon DEF LaunchEditor
  <2>4. /\ main = "grace" /\ mainT = 0 /\ stolen' = 0 /\ (main' = "loop" => status' = "error")
        /\ main' \in {"loop", "editing"} /\ copy' \in {copy, "none"} /\ status' \in {status, "error"}
        /\ UNCHANGED <<readerVars, mainT, keys, queue, channel, place, target>>
    BY <1>3 DEF LaunchEditor
  <2> QED BY <2>2, <2>3, <2>4 DEF readerVars
<1>4. CASE EditorExits
  <2>1. /\ paused' \in BOOLEAN /\ written' \in BOOLEAN /\ written' = written
    BY <1>4, Zenon DEF EditorExits, readerVars
  <2> QED BY <1>4, <2>1 DEF EditorExits, readerVars
<1>5. CASE OpenTarget
  BY <1>5 DEF OpenTarget, Fail, readerVars
<1>6. CASE Send
  BY <1>6 DEF Send, Fail, readerVars
<1>7. CASE EditorWrites
  BY <1>7 DEF EditorWrites, readerVars, mainVars
<1>8. CASE OthersWrite
  BY <1>8 DEF OthersWrite, readerVars, mainVars
<1> QED BY <1>1, <1>2, <1>3, <1>4, <1>5, <1>6, <1>7, <1>8

LEMMA InvNext == Inv /\ [Next]_vars => Inv'
BY ClockNext, EditNext DEF Next, MainStep

\* Every variable holds a value of its kind, and no key is invented.
THEOREM TypeCorrect == Spec => []TypeOK
<1>1. Inv => TypeOK
  BY DEF Inv
<1> QED BY InvInit, InvNext, <1>1, PTL DEF Spec

\* However long the waits are and whatever is typed, the input thread reads the
\* terminal at most once while the editor has it, and only within what the grace
\* period is shorter than a poll.
THEOREM GateWorks == Spec => []EditorHasTerminal
<1>1. Inv => EditorHasTerminal
  BY DEF Inv
<1> QED BY InvInit, InvNext, <1>1, PTL DEF Spec

\* No text is lost on its way back without an error on the screen.
THEOREM NoSilentLoss == Spec => []SavedOrTold
<1>1. Inv => SavedOrTold
  BY DEF Inv
<1> QED BY InvInit, InvNext, <1>1, PTL DEF Spec

\* pfnc writes only what the user has saved.
THEOREM LooksWithoutWriting == Spec => WritesOnlyWhatIsSaved
<1>1. Inv /\ [Next]_vars => [target' \notin {target, "theirs"} /\ ~StartEdit => written']_vars
  <2> SUFFICES ASSUME Inv, Next, target' \notin {target, "theirs"}, ~StartEdit
               PROVE  written'
    OBVIOUS
  <2>1. OpenTarget \/ Send \/ EditorWrites
    BY DEF Next, MainStep, ReaderStep, CheckGate, TimeUp, PollSeesKey, ReadKey, Type, Tick, EditorReads,
           HandleKey, Fetch, LaunchEditor, EditorExits, OthersWrite, fileVars
  <2> QED BY <2>1 DEF Inv, TextKept, OpenTarget, Send, EditorWrites
<1> QED BY InvInit, InvNext, <1>1, PTL DEF Spec, WritesOnlyWhatIsSaved
=============================================================================
