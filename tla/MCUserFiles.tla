---------------------------- MODULE MCUserFiles ----------------------------
(* UserFiles for TLC: two instances and two hosts, which are all alike.  A   *)
(* behaviour is left when a file has come to harm: nothing is promised of    *)
(* that one any more, and what happens to the other does not depend on it.   *)
EXTENDS UserFiles, TLC
Symmetry == Permutations(Instances) \cup Permutations(Hosts)
Unharmed == harm = {}
=============================================================================
