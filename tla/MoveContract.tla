---------------------------- MODULE MoveContract ----------------------------
(***************************************************************************)
(* What a move between two backends promises about the files it is given:  *)
(* each is at the source, then at both ends, then at the target only, and  *)
(* no original is deleted before every file has arrived ("deleting the     *)
(* originals (only once the copy fully succeeded)").  The contract says    *)
(* nothing of a foreign file: one another program has changed since the    *)
(* job was spawned, one that no listing has shown the job, one the remote  *)
(* agent has called done and that is not.                                  *)
(***************************************************************************)
CONSTANT Entry

VARIABLE where

Places == {"source", "both", "target", "foreign"}

ContractInit == where \in [Entry -> {"source", "foreign"}]

Move(f, from, to) == where[f] = from /\ where' = [where EXCEPT ![f] = to]

Arrive == \E f \in Entry : Move(f, "source", "both")

Leave ==
    /\ \A g \in Entry : where[g] # "source"
    /\ \E f \in Entry : Move(f, "both", "target")

Disown ==
    \E gone \in SUBSET Entry :
        where' = [f \in Entry |-> IF f \in gone THEN "foreign" ELSE where[f]]

ContractNext == Arrive \/ Leave \/ Disown

ContractSpec == ContractInit /\ [][ContractNext]_where
=============================================================================
