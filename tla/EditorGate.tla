----------------------------- MODULE EditorGate -----------------------------
(***************************************************************************)
(* F3 "Edit": the main loop fetches the file if it is not a local one,     *)
(* lends the terminal to an external editor, and sends the file back if    *)
(* the editor has written it.  An InputGate tells the input thread to keep *)
(* its hands off the terminal meanwhile.                                   *)
(* Time passes in ticks, and only when neither thread has anything to do:  *)
(* the threads are as prompt as they can be.  One read of the terminal     *)
(* takes all that has been typed into the terminal library's own queue.    *)
(***************************************************************************)
EXTENDS Naturals

CONSTANTS
    PollTicks,   \* how long the input thread's poll waits for a key
    NapTicks,    \* how long it sleeps when it finds the gate paused
    GraceTicks,  \* how long edit_file waits after it has paused the gate
    MaxKeys      \* bound: keys typed ahead

ASSUME TicksAssumption == {PollTicks, NapTicks, GraceTicks, MaxKeys} \subseteq Nat \ {0}

VARIABLES
    paused,    \* the InputGate
    reader,    \* the input thread: "check", "nap", "poll", "read"
    readerT,   \* ticks left of its nap or poll
    main,      \* the main loop: "loop", "fetch", "grace", "editing", "open", "send"
    mainT,     \* ticks left of its grace period
    keys,      \* keys typed that nobody has taken from the terminal
    queue,     \* keys event::poll has taken, for event::read to return
    channel,   \* keys the input thread has sent to the main loop
    stolen,    \* how often it has read the terminal since the editor started
    place,     \* where the target is: "local", "remote", "archive"
    target,    \* its content: "old", "mine" (the user's), "theirs", "part"
    copy,      \* the temporary file: "none", "old", "mine", "theirs"
    written,   \* has the editor written the file?
    status     \* does the status line show an error of this edit?

vars == <<paused, reader, readerT, main, mainT, keys, queue, channel, stolen,
          place, target, copy, written, status>>
readerVars == <<reader, readerT>>
mainVars == <<main, mainT>>
fileVars == <<place, target, copy, written, status>>

Init ==
    /\ paused = FALSE /\ reader = "check" /\ readerT = 0
    /\ main = "loop" /\ mainT = 0 /\ keys = 0 /\ queue = 0 /\ channel = 0 /\ stolen = 0
    /\ place = "local" /\ target = "old" /\ copy = "none" /\ written = FALSE /\ status = "none"

-----------------------------------------------------------------------------
(* The input thread.                                                       *)

\* Mutant: the gate is not looked at.
CheckGate_Skipped ==
    /\ reader = "check"
    /\ reader' = "poll" /\ readerT' = PollTicks
    /\ UNCHANGED <<paused, mainVars, keys, queue, channel, stolen, fileVars>>

CheckGate ==
    /\ reader = "check"
    /\ \/ paused /\ reader' = "nap" /\ readerT' = NapTicks
       \/ ~paused /\ reader' = "poll" /\ readerT' = PollTicks
    /\ UNCHANGED <<paused, mainVars, keys, queue, channel, stolen, fileVars>>

\* A nap ends, or a poll that has seen no key.
TimeUp ==
    /\ reader = "nap" \/ (reader = "poll" /\ keys + queue = 0)
    /\ readerT = 0 /\ reader' = "check"
    /\ UNCHANGED <<paused, readerT, mainVars, keys, queue, channel, stolen, fileVars>>

\* event::poll finds a key in its queue, or else takes what is in the terminal.
PollSeesKey ==
    /\ reader = "poll" /\ reader' = "read" /\ readerT' = 0
    /\ \/ queue > 0 /\ UNCHANGED <<keys, queue, stolen>>
       \/ /\ queue = 0 /\ keys > 0 /\ queue' = keys /\ keys' = 0
          /\ stolen' = IF main = "editing" THEN stolen + 1 ELSE stolen
    /\ UNCHANGED <<paused, mainVars, channel, fileVars>>

\* event::read returns the first key of the queue, which is sent on.
ReadKey ==
    /\ reader = "read" /\ queue > 0
    /\ reader' = "check" /\ queue' = queue - 1 /\ channel' = channel + 1
    /\ UNCHANGED <<paused, readerT, mainVars, keys, stolen, fileVars>>

-----------------------------------------------------------------------------
(* edit_file, and the editor.                                              *)

\* The user presses F3.  No editor, or no backend for the location: an error.
StartEdit ==
    /\ main = "loop" /\ channel > 0
    /\ channel' = channel - 1
    /\ place' \in {"local", "remote", "archive"} /\ written' = FALSE /\ copy' = "none"
    /\ target' = "old"
    /\ \/ status' = "error" /\ UNCHANGED <<paused, mainVars>>
       \/ /\ status' = "none"
          /\ IF place' = "local"
             THEN main' = "grace" /\ mainT' = GraceTicks /\ paused' = TRUE
             ELSE main' = "fetch" /\ UNCHANGED <<mainT, paused>>
    /\ UNCHANGED <<readerVars, keys, queue, stolen>>

\* download_to_temp; then the gate is paused, and the grace period begins.
Fetch ==
    /\ main = "fetch"
    /\ \/ /\ copy' = target /\ main' = "grace" /\ mainT' = GraceTicks /\ paused' = TRUE
          /\ UNCHANGED status
       \/ status' = "error" /\ main' = "loop" /\ UNCHANGED <<copy, mainT, paused>>
    /\ UNCHANGED <<readerVars, keys, queue, channel, stolen, place, target, written>>

\* Any other key; those read while the editor ran come here as well.
HandleKey ==
    /\ main = "loop" /\ channel > 0
    /\ channel' = channel - 1
    /\ UNCHANGED <<paused, readerVars, mainVars, keys, queue, stolen, fileVars>>

\* The editor starts, or cannot be started.
LaunchEditor ==
    /\ main = "grace" /\ mainT = 0 /\ stolen' = 0
    /\ \/ main' = "editing" /\ UNCHANGED <<paused, status, copy>>
       \/ main' = "loop" /\ paused' = FALSE /\ status' = "error" /\ copy' = "none"
    /\ UNCHANGED <<readerVars, mainT, keys, queue, channel, place, target, written>>

EditorReads ==
    /\ main = "editing" /\ keys > 0
    /\ keys' = keys - 1
    /\ UNCHANGED <<paused, readerVars, mainVars, queue, channel, stolen, fileVars>>

\* The user saves: the target itself, or the temporary file.
EditorWrites ==
    /\ main = "editing" /\ written' = TRUE
    /\ IF place = "local" THEN target' = "mine" /\ UNCHANGED copy
                          ELSE copy' = "mine" /\ UNCHANGED target
    /\ UNCHANGED <<paused, readerVars, mainVars, keys, queue, channel, stolen, place, status>>

\* Mutant: the gate stays paused.
EditorExits_Paused ==
    /\ main = "editing" /\ stolen' = 0
    /\ main' = IF place # "local" /\ written THEN "open" ELSE "loop"
    /\ copy' = IF main' = "open" THEN copy ELSE "none"
    /\ UNCHANGED <<paused, readerVars, mainT, keys, queue, channel, place, target, written, status>>

\* Mutant: nobody looks whether the file has been written.
EditorExits_AlwaysSends ==
    /\ main = "editing" /\ paused' = FALSE /\ stolen' = 0
    /\ main' = IF place # "local" THEN "open" ELSE "loop"
    /\ copy' = IF main' = "open" THEN copy ELSE "none"
    /\ UNCHANGED <<readerVars, mainT, keys, queue, channel, place, target, written, status>>

\* The gate opens, and the snapshots are compared: a time and a length that are
\* both the same after a save would hide it, which is taken not to happen.
EditorExits ==
    /\ main = "editing" /\ paused' = FALSE /\ stolen' = 0
    /\ main' = IF place # "local" /\ written THEN "open" ELSE "loop"
    /\ copy' = IF main' = "open" THEN copy ELSE "none"
    /\ UNCHANGED <<readerVars, mainT, keys, queue, channel, place, target, written, status>>

\* Mutant: the result of the upload is ignored.
Fail_Silent == main' = "loop" /\ copy' = "none" /\ UNCHANGED status

\* The upload has failed; the temporary file goes all the same.
Fail == main' = "loop" /\ copy' = "none" /\ status' = "error"

\* upload_temp: create_write truncates the target; an archive has no such thing.
OpenTarget ==
    /\ main = "open"
    /\ \/ place = "remote" /\ target' = "part" /\ main' = "send" /\ UNCHANGED <<copy, status>>
       \/ Fail /\ UNCHANGED target
    /\ UNCHANGED <<paused, readerVars, mainT, keys, queue, channel, stolen, place, written>>

\* ... and io::copy fills it.
Send ==
    /\ main = "send"
    /\ \/ target' = copy /\ main' = "loop" /\ copy' = "none" /\ UNCHANGED status
       \/ Fail /\ target' \in {target, "part"}
    /\ UNCHANGED <<paused, readerVars, mainT, keys, queue, channel, stolen, place, written>>

\* Another program replaces the target.
OthersWrite ==
    /\ main # "loop" /\ target' = "theirs"
    /\ UNCHANGED <<paused, readerVars, mainVars, keys, queue, channel, stolen,
                   place, copy, written, status>>

Type ==
    /\ keys + queue + channel < MaxKeys
    /\ keys' = keys + 1
    /\ UNCHANGED <<paused, readerVars, mainVars, queue, channel, stolen, fileVars>>

ReaderStep == CheckGate \/ TimeUp \/ PollSeesKey \/ ReadKey

\* Somebody has a step to make that no waiting stands in the way of.
Busy ==
    \/ reader = "check" \/ (reader \in {"poll", "read"} /\ keys + queue > 0)
    \/ reader \in {"nap", "poll"} /\ readerT = 0
    \/ main = "grace" /\ mainT = 0
    \/ main = "loop" /\ channel > 0

Tick ==
    /\ ~Busy /\ (readerT > 0 \/ mainT > 0)
    /\ readerT' = IF readerT > 0 THEN readerT - 1 ELSE 0
    /\ mainT' = IF mainT > 0 THEN mainT - 1 ELSE 0
    /\ UNCHANGED <<paused, reader, main, keys, queue, channel, stolen, fileVars>>

MainStep == StartEdit \/ Fetch \/ HandleKey \/ LaunchEditor \/ EditorExits \/ OpenTarget \/ Send

Next == ReaderStep \/ MainStep \/ EditorReads \/ EditorWrites \/ OthersWrite \/ Type \/ Tick

Spec == Init /\ [][Next]_vars

\* Both threads are scheduled, time passes, calls to a remote host return
\* (session.set_timeout), and the user leaves the editor.
FairSpec ==
    Spec /\ WF_vars(ReaderStep) /\ WF_vars(MainStep) /\ WF_vars(Tick)

-----------------------------------------------------------------------------
(* Properties.                                                             *)

\* Every variable holds a value of its kind; no key is read that was not typed.
TypeOK ==
    /\ reader \in {"check", "nap", "poll", "read"} /\ main \in {"loop", "fetch", "grace", "editing", "open", "send"}
    /\ readerT \in 0..(PollTicks + NapTicks) /\ mainT \in 0..GraceTicks
    /\ {keys, queue} \subseteq 0..MaxKeys /\ channel \in 0..MaxKeys /\ stolen \in Nat
    /\ paused \in BOOLEAN /\ written \in BOOLEAN /\ status \in {"none", "error"}
    /\ place \in {"local", "remote", "archive"} /\ target \in {"old", "mine", "theirs", "part"}
    /\ copy \in {"none", "old", "mine", "theirs"}

\* The input thread takes no key from the editor.
NothingStolen == stolen = 0

\* While the terminal is lent to the editor, the input thread reads it at most
\* once, and only at the very beginning: in a poll that began before the gate was
\* paused, and so has no more left of its time than the grace period falls short.
\* What has been typed by then goes to pfnc, what is typed later to the editor.
EditorHasTerminal ==
    /\ stolen <= 1
    /\ main = "editing" /\ reader = "poll" => readerT + GraceTicks <= PollTicks

\* Whoever has saved and left the editor finds the text in the target, or an
\* error on the screen: no failure on the way back goes unnoticed, and none
\* leaves a part of the file behind in silence.
SavedOrTold ==
    main = "loop" /\ written /\ status = "none" => target \in {"mine", "theirs"}

\* pfnc writes the target only if the user has saved it: looking at a file never
\* undoes what another program has done to it meanwhile.
WritesOnlyWhatIsSaved ==
    [][target' \notin {target, "theirs"} /\ ~StartEdit => written']_vars

\* What the user has saved is not lost: it is in the target, or still in the
\* temporary file.
EditsSurvive == main = "loop" /\ written => target \in {"mine", "theirs"} \/ copy = "mine"

\* After every edit the input thread gets back to the terminal.
KeysComeThrough == []<>(reader \in {"poll", "read"})
=============================================================================
