------------------------- MODULE TransferRefinement -------------------------
(***************************************************************************)
(* move_cross_backend, as TransferJob models it, implements MoveContract.  *)
(***************************************************************************)
EXTENDS TransferJob

\* The files the contract is about: selected, there at the start, unchanged, and
\* none the job was misled about (see NothingLost).
Tracked(p) ==
    /\ Original(p) /\ Selected(p) /\ orig[p].kind = "file"
    /\ ~Unseen(p) /\ ~Unlisted(p) /\ p \notin cut

\* Where a file is, read off the two trees.  A partial copy does not count.
WhereOf(p) ==
    IF ~Tracked(p) THEN "foreign"
    ELSE IF Exists(src, p)
    THEN IF dst[p] = orig[p] THEN "both" ELSE "source"
    ELSE IF dst[p] = orig[p] THEN "target" ELSE "lost"

FilePlaces == [p \in Path |-> WhereOf(p)]

Contract == INSTANCE MoveContract WITH Entry <- Path, where <- FilePlaces

\* Every behaviour of the job, seen through WhereOf, is one of the contract.
ImplementsMoveContract == Contract!ContractSpec
=============================================================================
