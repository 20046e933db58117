----------------------------- MODULE MCSyncJob -----------------------------
(* Small trees for TLC: a may be a directory with the entry ax and, under  *)
(* a name that is not UTF-8, the entry a?; b is never a directory.  Where  *)
(* there is an a, b is one file or none.                                   *)
EXTENDS SyncJob

MCRoot == "/"
MCParent == [p \in Path |-> IF p \in {"ax", "a?"} THEN "a" ELSE "/"]

MCTrees(nodes, file, leaves) ==
    {t \in [Path -> nodes \cup leaves] :
        /\ WellFormed(t) /\ t["a"] \in nodes /\ t["ax"] \in nodes \ {Dir} /\ t["a?"] \in {Absent, file}
        /\ t["b"] \in (IF t["a"] = Absent THEN leaves ELSE {Absent, file})
        /\ Exists(t, "a?") => ~Exists(t, "ax") /\ ~Exists(t, "b")}

\* a: every shape.  b: contents of one size, with times on both sides
\* of the tolerance, a file of another size, or a device.
MCSrcTrees == MCTrees({Absent, Dir, File("new", 3), Link("new")}, File("new", 3),
                      {Absent, File("new", 3), Leaf("other", "new")})
MCDstTrees == MCTrees({Absent, Dir, File("old", 1), Link("old")}, File("old", 1),
                      {Absent, File("old", 0), File("old", 1), File("long", 1), Leaf("other", "old")})
=============================================================================
