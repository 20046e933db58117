--------------------------- MODULE MCTransferJob ---------------------------
(* Small trees for TLC.  Two entries can be selected, a and b; a may be a   *)
(* directory with two entries, x and y, and x one with an entry z; an entry *)
(* n has a name that is not UTF-8.  c is never selected.                    *)
EXTENDS TransferRefinement, TransferInvariant

MCRoot == "/"
MCParent == [p \in Path |-> CASE p \in {"a", "b", "c"} -> "/"
                              [] p \in {"ax", "ay", "an"} -> "a"
                              [] p \in {"axz", "axn"} -> "ax"]
MCItemOf == [p \in Path |-> IF p \in {"b", "c"} THEN p ELSE "a"]

\* What may be there at the start: of some entries only whether they are.
MCSrcKinds ==
    [p \in Path |-> IF p \in {"ay", "an", "axn", "c"} THEN {"none", "file"} ELSE NodeKinds]
MCDstKinds ==
    [p \in Path |-> CASE p \in {"an", "axn", "c"} -> {"none"}
                      [] p = "ay" -> {"none", "file"}
                      [] OTHER -> {"none", "dir", "file"}]
=============================================================================
