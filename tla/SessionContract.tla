-------------------------- MODULE SessionContract --------------------------
(***************************************************************************)
(* What the main loop promises its user: one command at a time.  A command *)
(* is asked for, then worked on by one job; the session is given back only *)
(* when that job is over, and a session that ends leaves no job behind.    *)
(* Only the loss of the terminal breaks that off; the job dies with it.    *)
(***************************************************************************)
EXTENDS Naturals

VARIABLES session,      \* "idle", "asking", "working", "over", "lost"
          alive,        \* a job of the user's is running
          unstoppable   \* it is one that cannot be cancelled, and was

ContractInit == session = "idle" /\ alive = FALSE

Ask == session \in {"idle", "asking"} /\ session' = "asking" /\ UNCHANGED alive

Dismiss == session = "asking" /\ session' = "idle" /\ UNCHANGED alive

Start == session \in {"idle", "asking"} /\ ~alive /\ session' = "working" /\ alive' = TRUE

JobOver == alive /\ alive' = FALSE /\ UNCHANGED session

\* Back to the panels, or to the question the job's result raises.
GiveBack ==
    /\ session = "working" /\ ~alive
    /\ session' \in {"idle", "asking"} /\ UNCHANGED alive

Quit == session = "idle" /\ ~alive /\ session' = "over" /\ UNCHANGED alive

Lose == session' = "lost" /\ alive' = FALSE

ContractNext == Ask \/ Dismiss \/ Start \/ JobOver \/ GiveBack \/ Quit \/ Lose

\* One command at a time, and the session comes back only when it is over.
ContractSafety == ContractInit /\ [][ContractNext]_<<session, alive>>

\* The user does not wait for ever: a command that is worked on is over one day,
\* unless the user tried to cancel one that cannot be cancelled.
ContractSpec == ContractSafety /\ []<>(session # "working" \/ unstoppable)
=============================================================================
