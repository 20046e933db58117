----------------------------- MODULE SyncProofs -----------------------------
(***************************************************************************)
(* Proofs about a directory sync, for any trees, any number of rounds and  *)
(* of changes by other programs, with or without failing calls.            *)
(*                                                                         *)
(* The invariant follows the two trees through a round.  While the scan    *)
(* runs, every path lies in the span of one visit to come, or has been     *)
(* dealt with (Covered), and the spans do not overlap (ScanInv), so that   *)
(* no path is planned twice.  The plan it leaves lists parents before what *)
(* lies in them, and deletions the other way round (PlanInv).  While the   *)
(* plan is executed the destination is known entry by entry (ExecInv): as  *)
(* the source has it, removed, or as it was.  All this is promised until   *)
(* another program interferes, or a listing passes over an entry that it   *)
(* could not read (disturbed).                                             *)
(***************************************************************************)
EXTENDS SyncJob, FiniteSetTheorems, TLAPS

-----------------------------------------------------------------------------
(* The inductive invariant.                                                *)

\* What a visit, with all that follows from it, looks at.
Span(v) == IF v.do = "push" THEN {v.path} ELSE Below[v.path]

\* A visit is to what it takes the two entries for.
VisitOK(v) ==
    /\ ~Hidden(v.path)
    /\ v.do = "diff" => v.path \in Dirs(src) \cap Dirs(was)
    /\ v.do \in {"entry", "full"} =>
          Exists(src, v.path) /\ v.meta = src[v.path] /\ v.old = was[v.path]
    /\ v.do = "entry" => Exists(was, v.path)
    /\ v.do = "full" => v.meta.kind # v.old.kind
    /\ v.do \in {"left", "push"} => delete_extraneous /\ Exists(was, v.path) /\ ~Exists(src, v.path)
    /\ v.do = "push" => v.old = was[v.path]

\* A planned copy: of two files the old one is overwritten, of two other
\* entries the old one goes first.
ItemOK(c) ==
    /\ Exists(src, c.path) /\ c.meta = src[c.path] /\ ~Hidden(c.path)
    /\ \/ c.old = was[c.path] /\ (c.meta.kind # c.old.kind \/ c.meta.kind = "link")
       \/ c.old = Absent /\ c.meta.kind = "file" /\ was[c.path].kind = "file"
DeletionOK(d) ==
    delete_extraneous /\ Exists(was, d.path) /\ ~Exists(src, d.path) /\ d.kind = was[d.path].kind

\* Entries that need no copy, as far as the scan can tell.
Same(p) ==
    \/ was[p].kind = "other" /\ src[p].kind = "other"
    \/ /\ was[p].kind = src[p].kind /\ src[p].kind # "other"
       /\ \/ was[p].data = src[p].data
          \/ /\ "remote" \in {SrcWhere, DstWhere} /\ Size(was[p].data) = Size(src[p].data)
             /\ ~MtimeLooksChanged(src[p].time, was[p].time)

\* The order of the copies, and of the deletions.
ParentsFirst == \A i, j \in DOMAIN copies : i < j => copies[i].path \notin Below[copies[j].path]
ChildrenFirst ==
    /\ \A i, j \in DOMAIN deletes : deletes[i].path = deletes[j].path => i = j
    /\ \A i \in DOMAIN deletes : \A c \in Named(was, deletes[i].path) :
          \E j \in DOMAIN deletes : j < i /\ deletes[j].path = c

PlanInv ==
    /\ \A i \in DOMAIN copies : ItemOK(copies[i])
    /\ \A i \in DOMAIN deletes : DeletionOK(deletes[i])
    /\ ParentsFirst /\ ChildrenFirst
    /\ \A i \in DOMAIN deletes, j \in DOMAIN copies : deletes[i].path \notin Below[copies[j].path]

\* No path is visited twice, none that is planned is visited again, and a
\* directory is pushed behind what lies in it.
Apart == \A k, m \in DOMAIN todo : k # m => Span(todo[k]) \cap Span(todo[m]) = {}
Fresh ==
    \A k \in DOMAIN todo :
        /\ \A i \in DOMAIN copies : copies[i].path \notin Span(todo[k])
        /\ \A i \in DOMAIN deletes : deletes[i].path \notin Span(todo[k])
        /\ todo[k].do # "full" => \A i \in DOMAIN copies : todo[k].path \notin Below[copies[i].path]
PushedLast ==
    \A k \in DOMAIN todo : todo[k].do = "push" =>
        \A c \in Named(was, todo[k].path) :
            \/ \E i \in DOMAIN deletes : deletes[i].path = c
            \/ \E m \in DOMAIN todo : m < k /\ todo[m].do \in {"left", "push"} /\ todo[m].path = c

ScanInv ==
    /\ dst = was
    /\ \A k \in DOMAIN todo : VisitOK(todo[k])
    /\ Apart /\ Fresh /\ PushedLast

\* What has been visited needs nothing, or the plan sees to it, unless no
\* listing can show it.
Replaced(p) == \E i \in DOMAIN copies : copies[i].old # Absent /\ p \in Below[copies[i].path]
Settles(p) ==
    ~Hidden(p) =>
    /\ Exists(src, p) => Same(p) \/ \E i \in DOMAIN copies : copies[i].path = p
    /\ delete_extraneous /\ Exists(was, p) /\ ~Exists(src, p) =>
          (\E i \in DOMAIN deletes : deletes[i].path = p) \/ Replaced(p)
Covered == \A p \in Path : Settles(p) \/ \E k \in DOMAIN todo : p \in Span(todo[k])

\* How far the execution is.
Finished(i) == pc = "delete" \/ i < idx
Started(i) == Finished(i) \/ (i = idx /\ pc \in {"apply", "pump"})
Written(p) == \E i \in DOMAIN copies : copies[i].path = p /\ (Finished(i) \/ (i = idx /\ pc = "pump"))
Cleared(p) == \E i \in DOMAIN copies : Started(i) /\ copies[i].old # Absent /\ p \in Below[copies[i].path]
Deleted(p) == pc = "delete" /\ \E i \in DOMAIN deletes : i < idx /\ deletes[i].path = p

ExecInv ==
    /\ todo = <<>>
    /\ \A i \in DOMAIN copies : Finished(i) =>
          \/ Renewed(copies[i].path)
          \/ copies[i].path \in dropped /\ copies[i].meta.kind # "dir"
    /\ \A p \in Path : ~Written(p) => dst[p] = IF Cleared(p) \/ Deleted(p) THEN Absent ELSE was[p]
    /\ pc = "pump" => C.meta.kind \in {"file", "other"} /\ opened = src[C.path].data

Scan == {"begin", "scan", "confirm"}
Exec == {"copy", "apply", "pump", "delete"}
Steady ==
    /\ pc # "idle" => PlanInv /\ Covered
    /\ pc \in Scan => ScanInv
    /\ pc = "confirm" => todo = <<>>
    /\ pc \in Exec => ExecInv

\* No two items are neither as they were nor renewed.
OneBroken ==
    ~disturbed => \A i, j \in DOMAIN copies : Broken(i) /\ Broken(j) => i = j

Whats == {"diff", "entry", "full", "left", "push"}
Visits == [do : Whats, path : Entries, meta : Node, old : Node]
Deletions == [path : Path, kind : NodeKinds]
Fits(v) == (v.do # "diff" => v.path \in Path) /\ (v.do = "entry" => v.meta.kind # "none")
Types ==
    /\ Tree(src) /\ Tree(dst) /\ Tree(was)
    /\ delete_extraneous \in BOOLEAN /\ disturbed \in BOOLEAN
    /\ pc \in {"idle"} \cup Scan \cup Exec
    /\ todo \in Seq(Visits) /\ copies \in Seq(Items) /\ deletes \in Seq(Deletions)
    /\ \A k \in DOMAIN todo : Fits(todo[k])
    /\ idx \in Nat
    /\ pc \in {"begin", "scan", "confirm"} => idx = 1
    /\ pc = "copy" => idx \in 1..(Len(copies) + 1)
    /\ pc \in {"apply", "pump"} => idx \in 1..Len(copies)
    /\ pc = "delete" => idx \in 1..(Len(deletes) + 1)
    /\ pc = "pump" => dst[C.path].kind = "file"
    /\ opened \in Contents
    /\ outcome \in {"none", "nothing", "declined", "completed", "cancelled", "failed"}
    /\ pc # "idle" => outcome = "none"

IInv ==
    /\ Types
    /\ ~disturbed => Steady
    /\ CompletedMirrors /\ OnlyRealFailures /\ OneBroken /\ KeepsUnrelated

-----------------------------------------------------------------------------
(* Paths.                                                                  *)

\* What lies below a path lies below it.
LEMMA BelowClosed ==
    ASSUME NEW p \in Entries
    PROVE  /\ p \in Below[p] /\ Below[p] \subseteq Entries /\ ClosedDown(Below[p])
           /\ \A S \in SUBSET Entries : p \in S /\ ClosedDown(S) => Below[p] \subseteq S
<1>1. \A q : q \in Below[p] <=> q \in Entries /\ \A S \in SUBSET Entries : p \in S /\ ClosedDown(S) => q \in S
  BY DEF Below
<1>2. p \in Below[p] /\ Below[p] \subseteq Entries
  BY <1>1
<1>3. ClosedDown(Below[p])
  <2> SUFFICES ASSUME NEW c \in Path, Parent[c] \in Below[p] PROVE c \in Below[p]
    BY DEF ClosedDown
  <2>1. c \in Entries
    BY DEF Entries
  <2> SUFFICES ASSUME NEW S \in SUBSET Entries, p \in S, ClosedDown(S) PROVE c \in S
    BY <1>1, <2>1
  <2>2. Parent[c] \in S
    BY <1>1
  <2> QED BY <2>2 DEF ClosedDown
<1>4. \A S \in SUBSET Entries : p \in S /\ ClosedDown(S) => Below[p] \subseteq S
  BY <1>1
<1> QED BY <1>2, <1>3, <1>4

\* To lie below is transitive.
LEMMA BelowTransitive ==
    ASSUME NEW p \in Entries, NEW q \in Below[p]
    PROVE  q \in Entries /\ Below[q] \subseteq Below[p]
<1>1. q \in Entries
  BY BelowClosed
<1> QED BY <1>1, BelowClosed

\* An entry below a path, other than that path, lies in an entry below it.
LEMMA BelowParent ==
    ASSUME NEW p \in Entries, NEW q \in Below[p], q # p
    PROVE  q \in Path /\ Parent[q] \in Below[p]
<1>1. p \in Below[p] /\ Below[p] \subseteq Entries /\ ClosedDown(Below[p])
  BY BelowClosed
<1> DEFINE S == Below[p] \ {q}
<1>2. S \in SUBSET Entries /\ p \in S
  BY <1>1
<1>3. ~ClosedDown(S)
  <2> SUFFICES ASSUME ClosedDown(S) PROVE FALSE
    OBVIOUS
  <2>1. Below[p] \subseteq S
    BY <1>2, BelowClosed
  <2> QED BY <2>1
<1>4. PICK c \in Path : Parent[c] \in S /\ c \notin S
  BY <1>3 DEF ClosedDown
<1>5. c \in Below[p]
  BY <1>1, <1>4 DEF ClosedDown
<1> QED BY <1>4, <1>5

\* A path does not lie below what lies below it.
LEMMA ParentNotBelow ==
    ASSUME NEW p \in Path
    PROVE  Parent[p] \notin Below[p]
<1> DEFINE S == {x \in Path : Parent[x] \notin Below[x]}
<1>1. ASSUME NEW x \in Path, Parent[x] = Root \/ Parent[x] \in S PROVE x \in S
  <2> SUFFICES ASSUME Parent[x] \in Below[x] PROVE FALSE
    OBVIOUS
  <2> DEFINE r == Parent[x]
  <2>0. x \in Entries /\ r \in Entries
    BY PathAssumption DEF Entries
  <2>1. r # x => r \in Path /\ Parent[r] \in Below[x]
    BY <2>0, BelowParent
  <2>2. x \in Below[r]
    <3>1. r \in Below[r] /\ ClosedDown(Below[r])
      BY <2>0, BelowClosed
    <3> QED BY <3>1 DEF ClosedDown
  <2>3. Below[x] \subseteq Below[r]
    BY <2>0, <2>2, BelowTransitive
  <2>4. r \in Path
    BY <2>1
  <2>5. r \in S
    BY <1>1, <2>4, PathAssumption
  <2>6. Parent[r] \in Below[r]
    BY <2>1, <2>3
  <2> QED BY <2>5, <2>6
<1> HIDE DEF S
<1>2. S \subseteq Path
  BY DEF S
<1>3. S = Path
  BY <1>1, <1>2, RootedAssumption
<1> QED BY <1>3 DEF S

\* Two paths do not lie below each other.
LEMMA BelowOneWay ==
    ASSUME NEW p \in Path, NEW q \in Entries, q \in Below[p], p \in Below[q]
    PROVE  q = p
<1> SUFFICES ASSUME q # p PROVE FALSE
  OBVIOUS
<1>1. p \in Entries
  BY DEF Entries
<1>2. Parent[p] \in Below[q]
  BY BelowParent
<1>3. Below[q] \subseteq Below[p]
  BY <1>1, BelowTransitive
<1> QED BY <1>2, <1>3, ParentNotBelow

\* All paths lie below the root; the root lies below no path.
LEMMA RootAbove ==
    /\ Root \in Entries /\ Below[Root] = Entries
    /\ \A p \in Path : Below[p] \subseteq Path /\ p \in Entries
<1>1. Root \in Entries
  BY DEF Entries
<1>2. Below[Root] = Entries
  <2> DEFINE S == Below[Root] \cap Path
  <2>1. Root \in Below[Root] /\ Below[Root] \subseteq Entries /\ ClosedDown(Below[Root])
    BY <1>1, BelowClosed
  <2>2. \A x \in Path : Parent[x] = Root \/ Parent[x] \in S => x \in S
    BY <2>1 DEF ClosedDown
  <2>3. S \in SUBSET Path
    OBVIOUS
  <2> HIDE DEF S
  <2>4. S = Path
    BY <2>2, <2>3, RootedAssumption
  <2> QED BY <2>1, <2>4 DEF S, Entries
<1>3. ASSUME NEW p \in Path PROVE Below[p] \subseteq Path /\ p \in Entries
  <2>1. p \in Entries
    BY DEF Entries
  <2>2. \A q \in Below[p] : q # p => q \in Path
    BY <2>1, BelowParent
  <2> QED BY <2>1, <2>2
<1> QED BY <1>1, <1>2, <1>3

\* The entries below a path are the path and those below its children.
LEMMA BelowChild ==
    ASSUME NEW p \in Entries, NEW q \in Below[p], q # p
    PROVE  \E c \in Path : Parent[c] = p /\ q \in Below[c] /\ c \in Below[p]
<1> DEFINE S == {p} \cup {x \in Below[p] : \E c \in Path : Parent[c] = p /\ x \in Below[c] /\ c \in Below[p]}
<1>1. p \in Below[p] /\ Below[p] \subseteq Entries /\ ClosedDown(Below[p])
  BY BelowClosed
<1>2. S \in SUBSET Entries /\ p \in S
  BY <1>1
<1>3. ClosedDown(S)
  <2> SUFFICES ASSUME NEW x \in Path, Parent[x] \in S PROVE x \in S
    BY DEF ClosedDown
  <2>1. x \in Below[p]
    BY <1>1 DEF ClosedDown
  <2>2. CASE Parent[x] = p
    <3>1. x \in Below[x]
      BY RootAbove, BelowClosed
    <3> QED BY <2>1, <2>2, <3>1
  <2>3. CASE Parent[x] # p
    <3>1. PICK c \in Path : Parent[c] = p /\ Parent[x] \in Below[c] /\ c \in Below[p]
      BY <2>3
    <3>2. ClosedDown(Below[c])
      BY RootAbove, BelowClosed
    <3> QED BY <2>1, <3>1, <3>2 DEF ClosedDown
  <2> QED BY <2>2, <2>3
<1>4. Below[p] \subseteq S
  BY <1>2, <1>3, BelowClosed
<1> QED BY <1>4

\* A child lies below its directory, which does not lie below the child.
LEMMA ChildBelow ==
    ASSUME NEW c \in Path
    PROVE  /\ Parent[c] \in Entries /\ c \in Below[Parent[c]] /\ Below[c] \subseteq Below[Parent[c]]
           /\ Parent[c] \notin Below[c] /\ Parent[c] # c
<1>1. Parent[c] \in Entries /\ c \in Entries
  BY PathAssumption DEF Entries
<1>2. c \in Below[Parent[c]]
  BY <1>1, BelowClosed DEF ClosedDown
<1>3. c \in Below[c]
  BY <1>1, BelowClosed
<1> QED BY <1>1, <1>2, <1>3, BelowTransitive, ParentNotBelow

\* Nothing lies below two entries of one directory.
LEMMA SiblingsApart ==
    ASSUME NEW c \in Path, NEW d \in Path, Parent[c] = Parent[d], c # d
    PROVE  Below[c] \cap Below[d] = {}
<1> DEFINE S == Below[c] \ Below[d]
<1>1. c \in Entries /\ d \in Entries
  BY RootAbove
<1>2. c \notin Below[d] /\ d \notin Below[c]
  BY <1>1, BelowParent, ParentNotBelow
<1>3. c \in S /\ S \in SUBSET Entries
  BY <1>1, <1>2, BelowClosed
<1>4. ClosedDown(S)
  <2> SUFFICES ASSUME NEW x \in Path, Parent[x] \in S PROVE x \in S
    BY DEF ClosedDown
  <2>1. x \in Below[c]
    BY <1>1, BelowClosed DEF ClosedDown
  <2>2. SUFFICES ASSUME x \in Below[d] PROVE FALSE
    BY <2>1
  <2>3. x = d
    BY <1>1, <2>2, BelowParent
  <2> QED BY <2>3, <2>1, <1>2
<1>5. Below[c] \subseteq S
  BY <1>1, <1>3, <1>4, BelowClosed
<1> QED BY <1>5

\* Of two paths with something below both, one lies below the other.
LEMMA BelowNested ==
    ASSUME NEW p \in Entries, NEW q \in Entries, NEW x, x \in Below[p], x \in Below[q]
    PROVE  p \in Below[q] \/ q \in Below[p]
<1> SUFFICES ASSUME p \notin Below[q], q \notin Below[p] PROVE FALSE
  OBVIOUS
<1> DEFINE S == Below[p] \ Below[q]
<1>1. p \in S /\ S \in SUBSET Entries
  BY BelowClosed
<1>2. ClosedDown(S)
  <2> SUFFICES ASSUME NEW y \in Path, Parent[y] \in S PROVE y \in S
    BY DEF ClosedDown
  <2>1. y \in Below[p]
    BY BelowClosed DEF ClosedDown
  <2>2. y = q \/ y \notin Below[q]
    BY BelowParent
  <2> QED BY <2>1, <2>2
<1>3. Below[p] \subseteq S
  BY <1>1, <1>2, BelowClosed
<1> QED BY <1>3

-----------------------------------------------------------------------------
(* Trees.                                                                  *)

\* What exists below a path lies in a directory.
LEMMA TreeBelow ==
    ASSUME NEW t, WellFormed(t), NEW p \in Path, NEW q \in Below[p], q # p, Exists(t, q)
    PROVE  t[p].kind = "dir"
<1> SUFFICES ASSUME t[p].kind # "dir" PROVE FALSE
  OBVIOUS
<1> DEFINE S == {x \in Below[p] : x = p \/ ~Exists(t, x)}
<1>1. p \in Entries /\ Below[p] \subseteq Path
  BY RootAbove
<1>2. p \in S /\ S \in SUBSET Entries
  BY <1>1, BelowClosed
<1>3. ClosedDown(S)
  <2> SUFFICES ASSUME NEW x \in Path, Parent[x] \in S PROVE x \in S
    BY DEF ClosedDown
  <2>1. x \in Below[p]
    BY <1>1, BelowClosed DEF ClosedDown
  <2>2. Parent[x] \in Path
    BY <1>1
  <2>3. Parent[x] \notin Dirs(t)
    BY <2>2, PathAssumption DEF Dirs, Exists
  <2> QED BY <2>1, <2>3 DEF WellFormed
<1>4. Below[p] \subseteq S
  BY <1>1, <1>2, <1>3, BelowClosed
<1> QED BY <1>4

\* The parts of a tree.
LEMMA TreeParts ==
    ASSUME NEW t, Tree(t), NEW p \in Path
    PROVE  /\ t \in [Path -> Node] /\ t[p] \in Node /\ t[p].kind \in NodeKinds
           /\ Exists(t, p) => Parent[p] \in Dirs(t)
           /\ t[p].kind = "none" => t[p] = Absent
           /\ t[p].kind = "dir" => t[p] = Dir
           /\ Absent.kind = "none" /\ Dir.kind = "dir"
BY DEF Tree, Proper, WellFormed, Node, NodeKinds, Absent, Dir, Leaf

\* A tree without an entry and all below it is a tree.
LEMMA WithoutBelow ==
    ASSUME NEW t, Tree(t), NEW p \in Path
    PROVE  Tree(Without(t, Below[p]))
<1> DEFINE u == Without(t, Below[p])
<1>1. u = [q \in Path |-> IF q \in Below[p] THEN Absent ELSE t[q]]
  BY DEF Without
<1>2. Absent \in Node /\ Proper(Absent) /\ Absent.kind = "none"
  BY DEF Absent, Node, NodeKinds, Leaf, Contents, NoTime, Proper, Dir
<1>3. u \in [Path -> Node] /\ \A q \in Path : Proper(u[q])
  BY <1>1, <1>2 DEF Tree
<1>4. WellFormed(u)
  <2> SUFFICES ASSUME NEW q \in Path, Exists(u, q) PROVE Parent[q] \in Dirs(u)
    BY DEF WellFormed
  <2>1. q \notin Below[p] /\ u[q] = t[q] /\ Exists(t, q)
    BY <1>1, <1>2 DEF Exists
  <2>2. Parent[q] \in Dirs(t)
    BY <2>1, TreeParts
  <2>3. Parent[q] \notin Below[p]
    BY <2>1, BelowClosed, RootAbove DEF ClosedDown
  <2> QED BY <1>1, <2>2, <2>3 DEF Dirs
<1> QED BY <1>3, <1>4 DEF Tree

\* So is a tree without an entry in which nothing lies.
LEMMA WithoutOne ==
    ASSUME NEW t, Tree(t), NEW p \in Path, Children(t, p) = {}
    PROVE  Tree(Without(t, {p}))
<1> DEFINE u == Without(t, {p})
<1>1. u = [q \in Path |-> IF q = p THEN Absent ELSE t[q]]
  BY DEF Without
<1>2. Absent \in Node /\ Proper(Absent) /\ Absent.kind = "none"
  BY DEF Absent, Node, NodeKinds, Leaf, Contents, NoTime, Proper, Dir
<1>3. u \in [Path -> Node] /\ \A q \in Path : Proper(u[q])
  BY <1>1, <1>2 DEF Tree
<1>4. WellFormed(u)
  <2> SUFFICES ASSUME NEW q \in Path, Exists(u, q) PROVE Parent[q] \in Dirs(u)
    BY DEF WellFormed
  <2>1. q # p /\ Exists(t, q)
    BY <1>1, <1>2 DEF Exists
  <2>2. Parent[q] \in Dirs(t) /\ Parent[q] # p
    BY <2>1, TreeParts DEF Children
  <2> QED BY <1>1, <2>2 DEF Dirs
<1> QED BY <1>3, <1>4 DEF Tree

\* And a tree with an entry written into a directory, over none, or over one of
\* the same kind.
LEMMA WithEntry ==
    ASSUME NEW t, Tree(t), NEW p \in Path, NEW n \in Node, Proper(n), n.kind # "none",
           Parent[p] \in Dirs(t), t[p].kind \in {"none", n.kind}
    PROVE  Tree([t EXCEPT ![p] = n])
<1> DEFINE u == [t EXCEPT ![p] = n]
<1>0. t \in [Path -> Node] /\ \A q \in Path : Proper(t[q])
  BY DEF Tree
<1>1. \A q \in Path : u[q] = IF q = p THEN n ELSE t[q]
  BY <1>0
<1>2. u \in [Path -> Node] /\ \A q \in Path : Proper(u[q])
  BY <1>0, <1>1
<1>3. Dirs(t) \subseteq Dirs(u)
  BY <1>1 DEF Dirs
<1>4. WellFormed(u)
  <2> SUFFICES ASSUME NEW q \in Path, Exists(u, q) PROVE Parent[q] \in Dirs(u)
    BY DEF WellFormed
  <2>1. CASE q = p
    BY <1>3, <2>1
  <2>2. CASE q # p
    <3>1. Parent[q] \in Dirs(t)
      BY <1>1, <2>2, TreeParts DEF Exists
    <3> QED BY <1>3, <3>1
  <2> QED BY <2>1, <2>2
<1> QED BY <1>2, <1>4 DEF Tree

\* What another program may write.
LEMMA Foreign ==
    /\ Absent \in Node /\ Proper(Absent) /\ Absent.kind = "none"
    /\ Dir \in Node /\ Proper(Dir) /\ Dir.kind = "dir"
    /\ \A d \in Contents : File(d, Now) \in Node /\ Proper(File(d, Now)) /\ File(d, Now).kind = "file"
BY ModeAssumption DEF Absent, Dir, File, Node, NodeKinds, Leaf, Contents, NoTime, Proper

-----------------------------------------------------------------------------
(* Listings, and the visits made from them.                                *)

\* A listing names each entry once.
LEMMA Listed ==
    ASSUME NEW S \in SUBSET Path, NEW l \in Listings(S)
    PROVE  \E n \in Nat : /\ DOMAIN l = 1..n /\ l \in [1..n -> S]
                          /\ \A i, j \in 1..n : l[i] = l[j] => i = j
                          /\ \A c \in S : \E i \in 1..n : l[i] = c
<1>1. IsFiniteSet(S)
  BY PathAssumption, FS_Subset
<1> DEFINE n == Cardinality(S)
<1>2. n \in Nat
  BY <1>1, FS_CardinalityType
<1> HIDE DEF n
<1>3. l \in Bijection(1..n, S)
  BY DEF Listings, n
<1>4. l \in [1..n -> S] /\ (\A i, j \in 1..n : l[i] = l[j] => i = j) /\ \A c \in S : \E i \in 1..n : l[i] = c
  BY <1>3 DEF Bijection, Injection, Surjection, IsInjective
<1> QED BY <1>2, <1>4

\* One visit for each entry listed.
LEMMA ListedVisits ==
    ASSUME NEW S \in SUBSET Path, NEW l \in Listings(S), NEW f \in [S -> Visits]
    PROVE  LET s == [i \in DOMAIN l |-> f[l[i]]] IN
           /\ s \in Seq(Visits)
           /\ \A i \in DOMAIN s : l[i] \in S /\ s[i] = f[l[i]]
           /\ \A i, j \in DOMAIN s : l[i] = l[j] => i = j
           /\ \A c \in S : \E i \in DOMAIN s : l[i] = c
<1> DEFINE s == [i \in DOMAIN l |-> f[l[i]]]
<1>1. PICK n \in Nat : /\ DOMAIN l = 1..n /\ l \in [1..n -> S]
                       /\ \A i, j \in 1..n : l[i] = l[j] => i = j
                       /\ \A c \in S : \E i \in 1..n : l[i] = c
  BY Listed
<1>2. s \in [1..n -> Visits] /\ DOMAIN s = 1..n
  BY <1>1
<1>3. s \in Seq(Visits)
  BY <1>2
<1> QED BY <1>1, <1>2, <1>3

\* The visits to come once the next one has been replaced by others.
LEMMA FirstTodo ==
    ASSUME NEW s \in Seq(Visits), s # <<>>, NEW new \in Seq(Visits)
    PROVE  LET t == new \o Tail(s) IN
           /\ t \in Seq(Visits) /\ Len(new) \in Nat /\ Len(s) \in Nat /\ 1 \in DOMAIN s
           /\ Head(s) = s[1] /\ Head(s) \in Visits
           /\ \A k \in DOMAIN t : \/ k \in DOMAIN new /\ t[k] = new[k]
                                  \/ /\ k - Len(new) + 1 \in DOMAIN s /\ k > Len(new)
                                     /\ k - Len(new) + 1 # 1
                                     /\ t[k] = s[k - Len(new) + 1]
           /\ \A k \in DOMAIN new : k \in DOMAIN t /\ t[k] = new[k]
           /\ \A k \in DOMAIN s : k # 1 => k + Len(new) - 1 \in DOMAIN t /\ t[k + Len(new) - 1] = s[k]
<1> DEFINE t == new \o Tail(s)
<1>1. Len(new) \in Nat /\ Len(s) \in Nat /\ Len(s) > 0 /\ DOMAIN s = 1..Len(s) /\ DOMAIN new = 1..Len(new)
  OBVIOUS
<1>2. /\ Tail(s) \in Seq(Visits) /\ Len(Tail(s)) = Len(s) - 1
      /\ \A k \in 1..(Len(s) - 1) : Tail(s)[k] = s[k + 1]
  OBVIOUS
<1>3. /\ t \in Seq(Visits) /\ Len(t) = Len(new) + (Len(s) - 1)
      /\ \A k \in 1..Len(t) : t[k] = IF k <= Len(new) THEN new[k] ELSE Tail(s)[k - Len(new)]
  BY <1>1, <1>2
<1>4. DOMAIN t = 1..(Len(new) + (Len(s) - 1))
  BY <1>3
<1>5. Head(s) = s[1] /\ s[1] \in Visits
  BY <1>1
<1>6. ASSUME NEW k \in DOMAIN t
      PROVE \/ k \in DOMAIN new /\ t[k] = new[k]
            \/ /\ k - Len(new) + 1 \in DOMAIN s /\ k > Len(new)
               /\ k - Len(new) + 1 # 1
               /\ t[k] = s[k - Len(new) + 1]
  <2>1. CASE k <= Len(new)
    BY <1>1, <1>3, <1>4, <2>1
  <2>2. CASE k > Len(new)
    <3>1. k - Len(new) \in 1..(Len(s) - 1) /\ t[k] = Tail(s)[k - Len(new)]
      BY <1>1, <1>3, <1>4, <2>2
    <3> QED BY <1>1, <1>2, <2>2, <3>1
  <2> QED BY <1>1, <1>4, <2>1, <2>2
<1>7. ASSUME NEW k \in DOMAIN new PROVE k \in DOMAIN t /\ t[k] = new[k]
  BY <1>1, <1>3, <1>4
<1>8. ASSUME NEW k \in DOMAIN s, k # 1
      PROVE  k + Len(new) - 1 \in DOMAIN t /\ t[k + Len(new) - 1] = s[k]
  <2> DEFINE m == Len(s)   n == Len(new)
  <2>0. k \in 1..m /\ m \in Nat /\ n \in Nat
    BY <1>1
  <2>1. k - 1 \in 1..(m - 1) /\ k + n - 1 \in 1..(n + (m - 1)) /\ k + n - 1 - n = k - 1 /\ k + n - 1 > n
    <3> HIDE DEF m, n
    <3> QED BY <2>0, <1>8
  <2>2. t[k + Len(new) - 1] = Tail(s)[k - 1]
    BY <1>1, <1>3, <2>1
  <2>3. s[(k - 1) + 1] = s[k]
    BY <2>0
  <2> QED BY <1>1, <1>2, <1>4, <2>1, <2>2, <2>3
<1>9. /\ t \in Seq(Visits) /\ Len(new) \in Nat /\ Len(s) \in Nat /\ 1 \in DOMAIN s
      /\ Head(s) = s[1] /\ Head(s) \in Visits
  BY <1>1, <1>3, <1>5
<1> QED BY <1>9, <1>6, <1>7, <1>8, Zenon

-----------------------------------------------------------------------------
(* Types.                                                                  *)

\* What is in hand.
LEMMA InHand ==
    ASSUME Types
    PROVE  /\ todo # <<>> => V \in Visits /\ V = todo[1] /\ V.path \in Entries /\ V.meta \in Node
                             /\ V.old \in Node /\ (V.do # "diff" => V.path \in Path)
                             /\ (V.do = "entry" => V.meta.kind # "none")
           /\ Len(copies) \in Nat /\ DOMAIN copies = 1..Len(copies)
           /\ Len(deletes) \in Nat /\ DOMAIN deletes = 1..Len(deletes)
           /\ \A i \in DOMAIN copies : copies[i] \in Items /\ copies[i].path \in Path /\ copies[i].meta \in Node
           /\ \A i \in DOMAIN deletes : deletes[i].path \in Path
<1>1. todo \in Seq(Visits) /\ copies \in Seq(Items) /\ deletes \in Seq(Deletions)
  BY DEF Types
<1>2. todo # <<>> => V = todo[1] /\ V \in Visits /\ 1 \in DOMAIN todo
  BY <1>1 DEF V
<1>3. todo # <<>> => V.path \in Entries /\ V.meta \in Node /\ V.old \in Node
  BY <1>2 DEF Visits
<1>4. todo # <<>> => (V.do # "diff" => V.path \in Path) /\ (V.do = "entry" => V.meta.kind # "none")
  BY <1>2 DEF Types, Fits
<1>5. /\ Len(copies) \in Nat /\ DOMAIN copies = 1..Len(copies)
      /\ Len(deletes) \in Nat /\ DOMAIN deletes = 1..Len(deletes)
  BY <1>1
<1>6. \A i \in DOMAIN copies : copies[i] \in Items
  BY <1>1
<1>7. \A i \in DOMAIN deletes : deletes[i] \in Deletions
  BY <1>1
<1>8. \A i \in DOMAIN copies : copies[i].path \in Path /\ copies[i].meta \in Node
  BY <1>6 DEF Items
<1>9. \A i \in DOMAIN deletes : deletes[i].path \in Path
  BY <1>7 DEF Deletions
<1> QED BY <1>2, <1>3, <1>4, <1>5, <1>6, <1>8, <1>9

LEMMA InitTyped == Init => Types
<1> SUFFICES ASSUME Init PROVE Types
  OBVIOUS
<1>1. Tree(src) /\ Tree(dst) /\ was = dst
  BY TreeAssumption DEF Init
<1>2. todo \in Seq(Visits) /\ copies \in Seq(Items) /\ deletes \in Seq(Deletions)
  BY DEF Init
<1>3. \A k \in DOMAIN todo : Fits(todo[k])
  BY DEF Init
<1>4. delete_extraneous \in BOOLEAN
  BY ModeAssumption DEF Init
<1> QED BY <1>1, <1>2, <1>3, <1>4 DEF Init, Types, Contents, Scan, Exec

\* A step that changes no list and neither tree.
LEMMA MovesOn ==
    ASSUME Types, UNCHANGED <<trees, user, scan, opened>>, disturbed' \in BOOLEAN, pc' # "pump",
           \/ /\ pc' = "idle" /\ idx' = idx
              /\ outcome' \in {"nothing", "declined", "completed", "cancelled", "failed"}
           \/ /\ pc # "idle" /\ outcome' = outcome /\ pc' \in Scan \cup Exec
              /\ pc' \in Scan => idx' = 1
              /\ pc' = "copy" => idx' \in 1..(Len(copies) + 1)
              /\ pc' = "apply" => idx' \in 1..Len(copies)
              /\ pc' = "delete" => idx' \in 1..(Len(deletes) + 1)
    PROVE  Types'
<1>1. Tree(src)' /\ Tree(dst)' /\ Tree(was)'
  BY DEF Types, Tree, WellFormed, Exists, Dirs, Proper, trees, user
<1>2. /\ todo' \in Seq(Visits) /\ copies' \in Seq(Items) /\ deletes' \in Seq(Deletions)
      /\ \A k \in DOMAIN todo' : Fits(todo'[k])
      /\ opened' \in Contents /\ (delete_extraneous \in BOOLEAN)' /\ copies' = copies /\ deletes' = deletes
  BY DEF Types, scan, plan, user
<1>3. Len(copies) \in Nat /\ Len(deletes) \in Nat
  BY InHand
<1>4. idx \in Nat /\ outcome \in {"none", "nothing", "declined", "completed", "cancelled", "failed"}
      /\ (pc # "idle" => outcome = "none")
  BY DEF Types
<1>5. idx' \in Nat
  BY <1>3, <1>4 DEF Scan, Exec
<1> QED BY <1>1, <1>2, <1>4, <1>5 DEF Types, Scan, Exec

\* A step of the scan that replaces the next visit and may plan.
LEMMA VisitTyped ==
    ASSUME Types, pc = "scan", todo # <<>>, UNCHANGED <<trees, user, idx, opened, outcome>>, pc' = "scan", disturbed' \in BOOLEAN,
           NEW new \in Seq(Visits), todo' = new \o Tail(todo),
           \A i \in DOMAIN new : Fits(new[i]),
           copies' = copies \/ \E c \in Items : copies' = Append(copies, c),
           deletes' = deletes \/ \E d \in Deletions : deletes' = Append(deletes, d)
    PROVE  Types'
<1>1. Tree(src)' /\ Tree(dst)' /\ Tree(was)'
  BY DEF Types, Tree, WellFormed, Exists, Dirs, Proper, trees, user
<1>2. todo \in Seq(Visits) /\ copies \in Seq(Items) /\ deletes \in Seq(Deletions)
  BY DEF Types
<1>3. copies' \in Seq(Items)
  <2>1. ASSUME NEW c \in Items PROVE Append(copies, c) \in Seq(Items)
    BY <1>2
  <2> QED BY <1>2, <2>1
<1>4. deletes' \in Seq(Deletions)
  <2>1. ASSUME NEW d \in Deletions PROVE Append(deletes, d) \in Seq(Deletions)
    BY <1>2
  <2> QED BY <1>2, <2>1
<1>5. todo' \in Seq(Visits) /\ \A k \in DOMAIN todo' : Fits(todo'[k])
  <2>1. todo' \in Seq(Visits)
    BY <1>2
  <2>2. ASSUME NEW k \in DOMAIN todo' PROVE Fits(todo'[k])
    <3>1. \/ k \in DOMAIN new /\ todo'[k] = new[k]
          \/ k - Len(new) + 1 \in DOMAIN todo /\ todo'[k] = todo[k - Len(new) + 1]
      BY <1>2, FirstTodo
    <3> QED BY <3>1 DEF Types
  <2> QED BY <2>1, <2>2
<1> QED
  BY <1>1, <1>3, <1>4, <1>5 DEF Types, user, Scan, Exec

\* The visits DiffDir, PushFullCopy and WalkForDelete make.
LEMMA VisitsTyped ==
    ASSUME NEW what \in Whats, NEW p \in Entries, NEW m \in Node, NEW o \in Node
    PROVE  /\ Visit(what, p, m, o) \in Visits
           /\ Visit(what, p, m, o).do = what /\ Visit(what, p, m, o).path = p
           /\ Visit(what, p, m, o).meta = m /\ Visit(what, p, m, o).old = o
BY DEF Visit, Visits

\* The new visits of a directory.
MineVisit(c, theirs) ==
    IF c \in theirs THEN Visit("entry", c, src[c], dst[c]) ELSE Visit("full", c, src[c], Absent)
LeftVisit(c) == Visit("left", c, Absent, Absent)
FullVisit(c) == Visit("full", c, src[c], Absent)
Distinct(s) == \A i, j \in DOMAIN s : s[i].path = s[j].path => i = j
Unlike(s, u) == \A i \in DOMAIN s : \A j \in DOMAIN u : s[i].path # u[j].path

LEMMA EachTyped ==
    ASSUME Types, NEW c \in Path, NEW theirs
    PROVE  /\ MineVisit(c, theirs) \in Visits /\ MineVisit(c, theirs).path = c
           /\ LeftVisit(c) \in Visits /\ LeftVisit(c).path = c /\ LeftVisit(c).do = "left"
           /\ FullVisit(c) \in Visits /\ FullVisit(c).path = c /\ FullVisit(c).do = "full"
<1>1. src[c] \in Node /\ dst[c] \in Node /\ Absent \in Node /\ c \in Entries
  BY TreeParts, Foreign, RootAbove DEF Types
<1> QED BY <1>1, VisitsTyped DEF MineVisit, LeftVisit, FullVisit, Whats

\* One sequence of visits behind another.
LEMMA Joined ==
    ASSUME NEW s \in Seq(Visits), NEW u \in Seq(Visits), Distinct(s), Distinct(u), Unlike(s, u)
    PROVE  /\ s \o u \in Seq(Visits) /\ Distinct(s \o u) /\ Len(s) \in Nat /\ Len(s \o u) = Len(s) + Len(u)
           /\ \A k \in DOMAIN (s \o u) : \/ k \in DOMAIN s /\ (s \o u)[k] = s[k]
                                         \/ k > Len(s) /\ k - Len(s) \in DOMAIN u /\ (s \o u)[k] = u[k - Len(s)]
           /\ \A i \in DOMAIN s : i \in DOMAIN (s \o u) /\ (s \o u)[i] = s[i]
           /\ \A i \in DOMAIN u : i + Len(s) \in DOMAIN (s \o u) /\ (s \o u)[i + Len(s)] = u[i]
<1> DEFINE t == s \o u   m == Len(s)   n == Len(u)
<1>1. /\ m \in Nat /\ n \in Nat /\ DOMAIN s = 1..m /\ DOMAIN u = 1..n
      /\ t \in Seq(Visits) /\ DOMAIN t = 1..(m + n) /\ Len(t) = m + n
  OBVIOUS
<1>2. \A k \in 1..(m + n) : t[k] = IF k <= m THEN s[k] ELSE u[k - m]
  OBVIOUS
<1> HIDE DEF t, m, n
<1>3. \A k \in DOMAIN t : \/ k \in DOMAIN s /\ t[k] = s[k]
                          \/ k > m /\ k - m \in DOMAIN u /\ t[k] = u[k - m]
  BY <1>1, <1>2
<1>4. \A i \in DOMAIN s : i \in DOMAIN t /\ t[i] = s[i]
  BY <1>1, <1>2
<1>5. \A i \in DOMAIN u : i + m \in DOMAIN t /\ t[i + m] = u[i]
  <2> SUFFICES ASSUME NEW i \in DOMAIN u PROVE i + m \in DOMAIN t /\ t[i + m] = u[i]
    OBVIOUS
  <2>1. i + m \in 1..(m + n) /\ ~(i + m <= m) /\ (i + m) - m = i
    BY <1>1
  <2> QED BY <1>1, <1>2, <2>1
<1>6. Distinct(t)
  <2> SUFFICES ASSUME NEW i \in DOMAIN t, NEW j \in DOMAIN t, t[i].path = t[j].path PROVE i = j
    BY DEF Distinct
  <2>1. CASE i \in DOMAIN s /\ t[i] = s[i]
    <3>1. ~(j > m /\ j - m \in DOMAIN u /\ t[j] = u[j - m])
      BY <2>1 DEF Unlike
    <3> QED BY <1>3, <2>1, <3>1 DEF Distinct
  <2>2. CASE i > m /\ i - m \in DOMAIN u /\ t[i] = u[i - m]
    <3>1. ~(j \in DOMAIN s /\ t[j] = s[j])
      BY <2>2 DEF Unlike
    <3>2. j > m /\ j - m \in DOMAIN u /\ t[j] = u[j - m]
      BY <1>3, <3>1
    <3>3. i - m = j - m
      BY <2>2, <3>2 DEF Distinct
    <3> QED BY <1>1, <3>3
  <2> QED BY <1>3, <2>1, <2>2
<1> QED BY <1>1, <1>3, <1>4, <1>5, <1>6 DEF t, m, n

\* The visits of one listing.
EachOnce(s, S) ==
    /\ s \in Seq(Visits) /\ Distinct(s) /\ (\A i \in DOMAIN s : s[i].path \in S)
    /\ \A c \in S : \E i \in DOMAIN s : s[i].path = c
Follows(s, l, S, f) ==
    /\ S \in SUBSET Path /\ l \in Listings(S) /\ f \in [S -> Visits] /\ \A c \in S : f[c].path = c
    /\ DOMAIN s = DOMAIN l /\ s \in [DOMAIN l -> Visits] /\ \A i \in DOMAIN l : s[i] = f[l[i]]

LEMMA ListingVisits ==
    ASSUME NEW S, NEW l, NEW f, NEW s, Follows(s, l, S, f)
    PROVE  EachOnce(s, S) /\ \A i \in DOMAIN s : s[i] = f[s[i].path]
<1>1. /\ s \in Seq(Visits)
      /\ \A i \in DOMAIN s : l[i] \in S /\ s[i] = f[l[i]]
      /\ \A i, j \in DOMAIN s : l[i] = l[j] => i = j
      /\ \A c \in S : \E i \in DOMAIN s : l[i] = c
  <2>1. s = [i \in DOMAIN l |-> f[l[i]]] /\ S \in SUBSET Path /\ l \in Listings(S) /\ f \in [S -> Visits]
    BY DEF Follows
  <2> QED BY <2>1, ListedVisits
<1>2. \A i \in DOMAIN s : s[i].path = l[i]
  BY <1>1 DEF Follows
<1> QED BY <1>1, <1>2 DEF Distinct, EachOnce

OfMine(s, l, S, theirs) ==
    /\ S \in SUBSET Path /\ l \in Listings(S)
    /\ s = [i \in DOMAIN l |-> IF l[i] \in theirs THEN Visit("entry", l[i], src[l[i]], dst[l[i]])
                                                  ELSE Visit("full", l[i], src[l[i]], Absent)]
OfLeft(s, l, S) ==
    S \in SUBSET Path /\ l \in Listings(S) /\ s = [i \in DOMAIN l |-> Visit("left", l[i], Absent, Absent)]
OfFull(s, l, S) ==
    S \in SUBSET Path /\ l \in Listings(S) /\ s = [i \in DOMAIN l |-> Visit("full", l[i], src[l[i]], Absent)]

LEMMA MineVisits ==
    ASSUME Types, NEW S, NEW l, NEW theirs, NEW s, OfMine(s, l, S, theirs)
    PROVE  EachOnce(s, S) /\ \A i \in DOMAIN s : s[i] = MineVisit(s[i].path, theirs)
<1> DEFINE f == [c \in S |-> MineVisit(c, theirs)]
<1>0. S \in SUBSET Path /\ l \in Listings(S)
  BY DEF OfMine
<1>1. f \in [S -> Visits] /\ (\A c \in S : f[c].path = c) /\ \A c \in S : f[c] = MineVisit(c, theirs)
  BY <1>0, EachTyped
<1>2. \A i \in DOMAIN l : l[i] \in S
  BY <1>0, Listed
<1>3. DOMAIN s = DOMAIN l /\ (\A i \in DOMAIN l : s[i] = MineVisit(l[i], theirs)) /\ s = [i \in DOMAIN l |-> s[i]]
  BY DEF OfMine, MineVisit
<1> HIDE DEF f
<1>4. \A i \in DOMAIN l : s[i] = f[l[i]] /\ s[i] \in Visits
  BY <1>1, <1>2, <1>3
<1>5. Follows(s, l, S, f)
  BY <1>0, <1>1, <1>3, <1>4 DEF Follows
<1>6. EachOnce(s, S) /\ \A i \in DOMAIN s : s[i] = f[s[i].path]
  BY <1>5, ListingVisits
<1> QED BY <1>1, <1>6 DEF EachOnce

LEMMA LeftVisits ==
    ASSUME Types, NEW S, NEW l, NEW s, OfLeft(s, l, S)
    PROVE  EachOnce(s, S) /\ \A i \in DOMAIN s : s[i] = LeftVisit(s[i].path)
<1> DEFINE f == [c \in S |-> LeftVisit(c)]
<1>0. S \in SUBSET Path /\ l \in Listings(S)
  BY DEF OfLeft
<1>1. f \in [S -> Visits] /\ (\A c \in S : f[c].path = c) /\ \A c \in S : f[c] = LeftVisit(c)
  BY <1>0, EachTyped
<1>2. \A i \in DOMAIN l : l[i] \in S
  BY <1>0, Listed
<1>3. DOMAIN s = DOMAIN l /\ (\A i \in DOMAIN l : s[i] = LeftVisit(l[i])) /\ s = [i \in DOMAIN l |-> s[i]]
  BY DEF OfLeft, LeftVisit
<1> HIDE DEF f
<1>4. \A i \in DOMAIN l : s[i] = f[l[i]] /\ s[i] \in Visits
  BY <1>1, <1>2, <1>3
<1>5. Follows(s, l, S, f)
  BY <1>0, <1>1, <1>3, <1>4 DEF Follows
<1>6. EachOnce(s, S) /\ \A i \in DOMAIN s : s[i] = f[s[i].path]
  BY <1>5, ListingVisits
<1> QED BY <1>1, <1>6 DEF EachOnce

LEMMA FullVisits ==
    ASSUME Types, NEW S, NEW l, NEW s, OfFull(s, l, S)
    PROVE  EachOnce(s, S) /\ \A i \in DOMAIN s : s[i] = FullVisit(s[i].path)
<1> DEFINE f == [c \in S |-> FullVisit(c)]
<1>0. S \in SUBSET Path /\ l \in Listings(S)
  BY DEF OfFull
<1>1. f \in [S -> Visits] /\ (\A c \in S : f[c].path = c) /\ \A c \in S : f[c] = FullVisit(c)
  BY <1>0, EachTyped
<1>2. \A i \in DOMAIN l : l[i] \in S
  BY <1>0, Listed
<1>3. DOMAIN s = DOMAIN l /\ (\A i \in DOMAIN l : s[i] = FullVisit(l[i])) /\ s = [i \in DOMAIN l |-> s[i]]
  BY DEF OfFull, FullVisit
<1> HIDE DEF f
<1>4. \A i \in DOMAIN l : s[i] = f[l[i]] /\ s[i] \in Visits
  BY <1>1, <1>2, <1>3
<1>5. Follows(s, l, S, f)
  BY <1>0, <1>1, <1>3, <1>4 DEF Follows
<1>6. EachOnce(s, S) /\ \A i \in DOMAIN s : s[i] = f[s[i].path]
  BY <1>5, ListingVisits
<1> QED BY <1>1, <1>6 DEF EachOnce

\* The visits of both sides of a directory.
BothSides(s, u, M, L, theirs) ==
    /\ M \cap L = {}
    /\ EachOnce(s, M) /\ \A i \in DOMAIN s : s[i] = MineVisit(s[i].path, theirs)
    /\ EachOnce(u, L) /\ \A i \in DOMAIN u : u[i] = LeftVisit(u[i].path)

LEMMA DirVisits ==
    ASSUME NEW theirs, NEW M, NEW L, NEW s, NEW u, BothSides(s, u, M, L, theirs)
    PROVE  LET new == s \o u IN
           /\ new \in Seq(Visits) /\ Distinct(new)
           /\ \A i \in DOMAIN new : \/ new[i].path \in M /\ new[i] = MineVisit(new[i].path, theirs)
                                    \/ new[i].path \in L /\ new[i] = LeftVisit(new[i].path)
           /\ \A c \in M \cup L : \E i \in DOMAIN new : new[i].path = c
<1> DEFINE new == s \o u
<1>0. /\ s \in Seq(Visits) /\ Distinct(s) /\ (\A i \in DOMAIN s : s[i].path \in M)
      /\ u \in Seq(Visits) /\ Distinct(u) /\ (\A i \in DOMAIN u : u[i].path \in L)
      /\ (\A c \in M : \E i \in DOMAIN s : s[i].path = c) /\ \A c \in L : \E i \in DOMAIN u : u[i].path = c
  BY DEF EachOnce, BothSides
<1>1. Unlike(s, u)
  BY <1>0 DEF Unlike, BothSides
<1>2. /\ new \in Seq(Visits) /\ Distinct(new) /\ Len(s) \in Nat /\ Len(new) = Len(s) + Len(u)
      /\ \A k \in DOMAIN new : \/ k \in DOMAIN s /\ new[k] = s[k]
                               \/ k > Len(s) /\ k - Len(s) \in DOMAIN u /\ new[k] = u[k - Len(s)]
      /\ \A i \in DOMAIN s : i \in DOMAIN new /\ new[i] = s[i]
      /\ \A i \in DOMAIN u : i + Len(s) \in DOMAIN new /\ new[i + Len(s)] = u[i]
  BY <1>0, <1>1, Joined, SMT
<1> HIDE DEF new
<1>3. \A i \in DOMAIN new : \/ new[i].path \in M /\ new[i] = MineVisit(new[i].path, theirs)
                            \/ new[i].path \in L /\ new[i] = LeftVisit(new[i].path)
  BY <1>0, <1>2 DEF BothSides
<1>4. \A c \in M \cup L : \E i \in DOMAIN new : new[i].path = c
  <2>1. ASSUME NEW c \in M PROVE \E i \in DOMAIN new : new[i].path = c
    <3>1. PICK i \in DOMAIN s : s[i].path = c
      BY <1>0
    <3> QED BY <1>2, <3>1
  <2>2. ASSUME NEW c \in L PROVE \E i \in DOMAIN new : new[i].path = c
    <3>1. PICK i \in DOMAIN u : u[i].path = c
      BY <1>0
    <3> QED BY <1>2, <3>1
  <2> QED BY <2>1, <2>2
<1> QED BY <1>2, <1>3, <1>4 DEF new

\* The visits of a directory that is to go: what lies in it, then the directory.
LEMMA PushVisits ==
    ASSUME NEW S, NEW s, EachOnce(s, S), \A i \in DOMAIN s : s[i] = LeftVisit(s[i].path),
           NEW last \in Visits, last.path \notin S
    PROVE  LET new == s \o <<last>> IN
           /\ new \in Seq(Visits) /\ Distinct(new)
           /\ Len(new) \in DOMAIN new /\ new[Len(new)] = last
           /\ \A i \in DOMAIN new : \/ i < Len(new) /\ new[i].path \in S /\ new[i] = LeftVisit(new[i].path)
                                    \/ i = Len(new) /\ new[i] = last
           /\ \A c \in S : \E i \in DOMAIN new : i < Len(new) /\ new[i].path = c
<1> DEFINE u == <<last>>   new == s \o u
<1>1. u \in Seq(Visits) /\ Distinct(u) /\ DOMAIN u = {1} /\ u[1] = last /\ Len(u) = 1 /\ new = s \o u
  BY DEF Distinct
<1>0. new = s \o <<last>>
  OBVIOUS
<1> HIDE DEF u, new
<1>8. /\ s \in Seq(Visits) /\ Distinct(s) /\ (\A i \in DOMAIN s : s[i].path \in S)
      /\ \A c \in S : \E i \in DOMAIN s : s[i].path = c
  BY DEF EachOnce
<1>2. Unlike(s, u)
  BY <1>1, <1>8 DEF Unlike
<1>3. /\ new \in Seq(Visits) /\ Distinct(new) /\ Len(s) \in Nat /\ Len(new) = Len(s) + Len(u)
      /\ \A k \in DOMAIN new : \/ k \in DOMAIN s /\ new[k] = s[k]
                               \/ k > Len(s) /\ k - Len(s) \in DOMAIN u /\ new[k] = u[k - Len(s)]
      /\ \A i \in DOMAIN s : i \in DOMAIN new /\ new[i] = s[i]
      /\ \A i \in DOMAIN u : i + Len(s) \in DOMAIN new /\ new[i + Len(s)] = u[i]
  <2>1. /\ s \o u \in Seq(Visits) /\ Distinct(s \o u) /\ Len(s) \in Nat /\ Len(s \o u) = Len(s) + Len(u)
        /\ \A k \in DOMAIN (s \o u) : \/ k \in DOMAIN s /\ (s \o u)[k] = s[k]
                                      \/ k > Len(s) /\ k - Len(s) \in DOMAIN u /\ (s \o u)[k] = u[k - Len(s)]
        /\ \A i \in DOMAIN s : i \in DOMAIN (s \o u) /\ (s \o u)[i] = s[i]
        /\ \A i \in DOMAIN u : i + Len(s) \in DOMAIN (s \o u) /\ (s \o u)[i + Len(s)] = u[i]
    BY <1>1, <1>2, <1>8, Joined, Zenon
  <2> QED BY <1>1, <2>1, Zenon
<1>4. Len(new) = Len(s) + 1 /\ DOMAIN s = 1..Len(s) /\ DOMAIN new = 1..(Len(s) + 1)
  BY <1>1, <1>3
<1>5. Len(new) \in DOMAIN new /\ new[Len(new)] = last
  <2>1. 1 + Len(s) = Len(s) + 1
    BY <1>3
  <2> QED BY <1>1, <1>3, <1>4, <2>1
<1>6. ASSUME NEW i \in DOMAIN new
      PROVE \/ i < Len(new) /\ new[i].path \in S /\ new[i] = LeftVisit(new[i].path)
            \/ i = Len(new) /\ new[i] = last
  <2>1. CASE i \in DOMAIN s /\ new[i] = s[i]
    BY <1>3, <1>4, <1>8, <2>1
  <2>2. CASE i > Len(s)
    BY <1>3, <1>4, <1>5, <2>2
  <2> QED BY <1>3, <2>1, <2>2
<1>7. ASSUME NEW c \in S PROVE \E i \in DOMAIN new : i < Len(new) /\ new[i].path = c
  <2>1. PICK i \in DOMAIN s : s[i].path = c
    BY <1>8
  <2> QED BY <1>3, <1>4, <2>1
<1> QED BY <1>0, <1>3, <1>5, <1>6, <1>7

-----------------------------------------------------------------------------
(* The steps of the scan, by the visits they make.                         *)

Replaces(new) == new \in Seq(Visits) /\ Distinct(new) /\ todo' = new \o Tail(todo)
Leftovers(mine, theirs) == IF delete_extraneous THEN theirs \ mine ELSE {}
\* The visits of a directory of which the two listings show this much.
DirVisit(v, mine, theirs) ==
    \/ v.path \in mine /\ v = MineVisit(v.path, theirs)
    \/ v.path \in Leftovers(mine, theirs) /\ v = LeftVisit(v.path)
\* Unless an entry has been passed over the listings are complete.
Lists(all) == disturbed' \in BOOLEAN /\ (~disturbed' => ~disturbed /\ all)

LEMMA ShownNamed ==
    ASSUME NEW t, NEW where, NEW p, NEW S \in Shown(t, where, p)
    PROVE  S \subseteq Named(t, p) /\ Named(t, p) \subseteq Path
BY DEF Shown, Named, Children

LEMMA SeesLists ==
    ASSUME Types, NEW all \in BOOLEAN, Sees(all)
    PROVE  Lists(all)
BY DEF Types, Sees, Lists

LEMMA DiffDirStep ==
    ASSUME Types, DiffDir, V.path \in Dirs(src) \cap Dirs(dst)
    PROVE  \E mine \in SUBSET Named(src, V.path) : \E theirs \in SUBSET Named(dst, V.path) : \E new :
              /\ Replaces(new)
              /\ \A i \in DOMAIN new : DirVisit(new[i], mine, theirs)
              /\ \A c \in mine \cup Leftovers(mine, theirs) : \E i \in DOMAIN new : new[i].path = c
              /\ Lists(mine = Named(src, V.path) /\ theirs = Named(dst, V.path))
              /\ UNCHANGED <<trees, user, idx, opened, outcome, copies, deletes>> /\ pc' = "scan"
<1>1. PICK M \in Shown(src, SrcWhere, V.path) : \E T \in Shown(dst, DstWhere, V.path) :
          Paired(M, T, IF delete_extraneous THEN T \ M ELSE {})
  BY DEF DiffDir
<1>2. PICK T \in Shown(dst, DstWhere, V.path) : Paired(M, T, Leftovers(M, T))
  BY <1>1 DEF Leftovers
<1>3. M \subseteq Named(src, V.path) /\ T \subseteq Named(dst, V.path) /\ M \in SUBSET Path /\ T \in SUBSET Path
  BY ShownNamed
<1> DEFINE L == Leftovers(M, T)
<1>4. L \in SUBSET Path /\ M \cap L = {}
  BY <1>3 DEF Leftovers
<1>5. PICK ours \in Listings(M) : \E left \in Listings(L) :
          First([i \in DOMAIN ours |->
                   IF ours[i] \in T THEN Visit("entry", ours[i], src[ours[i]], dst[ours[i]])
                                   ELSE Visit("full", ours[i], src[ours[i]], Absent)]
                \o [i \in DOMAIN left |-> Visit("left", left[i], Absent, Absent)])
  BY <1>2 DEF Paired
<1>6. PICK left \in Listings(L) :
          todo' = ([i \in DOMAIN ours |->
                   IF ours[i] \in T THEN Visit("entry", ours[i], src[ours[i]], dst[ours[i]])
                                   ELSE Visit("full", ours[i], src[ours[i]], Absent)]
                   \o [i \in DOMAIN left |-> Visit("left", left[i], Absent, Absent)]) \o Tail(todo)
  BY <1>5 DEF First
<1>7. Lists(M = Named(src, V.path) /\ T = Named(dst, V.path))
  <2>1. Sees(M = Named(src, V.path) /\ T = Named(dst, V.path))
    BY <1>2 DEF Paired
  <2> QED BY <2>1, SeesLists
<1>8. UNCHANGED <<trees, user, idx, opened, outcome, copies, deletes>> /\ pc' = "scan"
  BY <1>2 DEF Paired, Goto, Listing, plan
<1> HIDE DEF L
<1> DEFINE s == [i \in DOMAIN ours |->
                   IF ours[i] \in T THEN Visit("entry", ours[i], src[ours[i]], dst[ours[i]])
                                   ELSE Visit("full", ours[i], src[ours[i]], Absent)]
           u == [i \in DOMAIN left |-> Visit("left", left[i], Absent, Absent)]
           new == s \o u
<1>9. todo' = new \o Tail(todo)
  BY <1>6
<1>15. OfMine(s, ours, M, T) /\ OfLeft(u, left, L)
  BY <1>3, <1>4 DEF OfMine, OfLeft
<1>16. new = s \o u
  OBVIOUS
<1> HIDE DEF s, u, new
<1>10. EachOnce(s, M) /\ \A i \in DOMAIN s : s[i] = MineVisit(s[i].path, T)
  BY <1>15, MineVisits
<1>11. EachOnce(u, L) /\ \A i \in DOMAIN u : u[i] = LeftVisit(u[i].path)
  BY <1>15, LeftVisits
<1>12. /\ new \in Seq(Visits) /\ Distinct(new)
       /\ \A i \in DOMAIN new : \/ new[i].path \in M /\ new[i] = MineVisit(new[i].path, T)
                                \/ new[i].path \in L /\ new[i] = LeftVisit(new[i].path)
       /\ \A c \in M \cup L : \E i \in DOMAIN new : new[i].path = c
  <2>1. BothSides(s, u, M, L, T)
    BY <1>4, <1>10, <1>11 DEF BothSides
  <2> QED BY <1>16, <2>1, DirVisits
<1>13. Replaces(new) /\ \A i \in DOMAIN new : DirVisit(new[i], M, T)
  BY <1>9, <1>12 DEF Replaces, DirVisit, L
<1>14. \A c \in M \cup Leftovers(M, T) : \E i \in DOMAIN new : new[i].path = c
  BY <1>12 DEF L
<1> QED BY <1>3, <1>7, <1>8, <1>13, <1>14

LEMMA PushFullCopyStep ==
    ASSUME Types, PushFullCopy, ~(V.meta.kind = "dir" /\ V.path \notin Dirs(src))
    PROVE  LET S == IF V.meta.kind = "dir" THEN Named(src, V.path) ELSE {} IN
           \E mine \in SUBSET S : \E new :
              /\ Replaces(new)
              /\ \A i \in DOMAIN new : new[i].path \in mine /\ new[i] = FullVisit(new[i].path)
              /\ \A c \in mine : \E i \in DOMAIN new : new[i].path = c
              /\ Lists(mine = S)
              /\ UNCHANGED <<trees, user, idx, opened, outcome, deletes>> /\ pc' = "scan"
              /\ copies' = Append(copies, Item(V.path, V.meta, V.old))
<1> DEFINE S == IF V.meta.kind = "dir" THEN Named(src, V.path) ELSE {}
<1>1. PICK M \in IF V.meta.kind = "dir" THEN Shown(src, SrcWhere, V.path) ELSE {{}} :
          /\ \E l \in Listings(M) : First([i \in DOMAIN l |-> Visit("full", l[i], src[l[i]], Absent)])
          /\ Sees(V.meta.kind = "dir" => M = Named(src, V.path))
  BY DEF PushFullCopy
<1>2. M \subseteq S /\ S \subseteq Path /\ M \in SUBSET Path
  <2>1. Named(src, V.path) \subseteq Path
    BY DEF Named, Children
  <2> QED BY <1>1, <2>1, ShownNamed
<1>3. Lists(M = S)
  <2>1. (V.meta.kind = "dir" => M = Named(src, V.path)) <=> M = S
    BY <1>1
  <2>2. Lists(V.meta.kind = "dir" => M = Named(src, V.path))
    BY <1>1, SeesLists
  <2> QED BY <2>1, <2>2 DEF Lists
<1>4. PICK l \in Listings(M) : todo' = [i \in DOMAIN l |-> Visit("full", l[i], src[l[i]], Absent)] \o Tail(todo)
  BY <1>1 DEF First
<1>5. /\ UNCHANGED <<trees, user, idx, opened, outcome, deletes>> /\ pc' = "scan"
      /\ copies' = Append(copies, Item(V.path, V.meta, V.old))
  BY DEF PushFullCopy, Goto, Listing
<1> DEFINE new == [i \in DOMAIN l |-> Visit("full", l[i], src[l[i]], Absent)]
<1>6. todo' = new \o Tail(todo)
  BY <1>4
<1> HIDE DEF S
<1>9. OfFull(new, l, M)
  BY <1>2 DEF OfFull
<1> HIDE DEF new
<1>7. /\ new \in Seq(Visits) /\ Distinct(new)
      /\ \A i \in DOMAIN new : new[i].path \in M /\ new[i] = FullVisit(new[i].path)
      /\ \A c \in M : \E i \in DOMAIN new : new[i].path = c
  <2>1. EachOnce(new, M) /\ \A i \in DOMAIN new : new[i] = FullVisit(new[i].path)
    BY <1>9, FullVisits
  <2> QED BY <2>1 DEF EachOnce
<1>8. Replaces(new)
  BY <1>6, <1>7 DEF Replaces
<1> QED BY <1>2, <1>3, <1>5, <1>7, <1>8 DEF S

LEMMA WalkForDeleteStep ==
    ASSUME Types, WalkForDelete, Exists(dst, V.path)
    PROVE  \E theirs \in SUBSET Named(dst, V.path) : \E new :
              /\ Replaces(new) /\ new # <<>> /\ Len(new) \in DOMAIN new
              /\ new[Len(new)] = Visit("push", V.path, Absent, dst[V.path])
              /\ \A i \in DOMAIN new :
                    \/ /\ i < Len(new) /\ new[i].path \in theirs
                       /\ new[i] = LeftVisit(new[i].path)
                    \/ i = Len(new)
              /\ \A c \in theirs : \E i \in DOMAIN new : i < Len(new) /\ new[i].path = c
              /\ Lists(theirs = Named(dst, V.path))
              /\ UNCHANGED <<trees, user, idx, opened, outcome, copies, deletes>> /\ pc' = "scan"
<1> DEFINE last == Visit("push", V.path, Absent, dst[V.path])
<1>1. V.path \in Path /\ V.path \in Entries
  <2>1. todo # <<>> /\ V.do = "left"
    BY DEF WalkForDelete, Visiting, V
  <2> QED BY <2>1, InHand
<1>2. PICK S \in Shown(dst, DstWhere, V.path) :
          /\ \E l \in Listings(S) :
                First([i \in DOMAIN l |-> Visit("left", l[i], Absent, Absent)] \o <<last>>)
          /\ Sees(S = Named(dst, V.path))
  BY DEF WalkForDelete
<1>3. PICK l \in Listings(S) : todo' = ([i \in DOMAIN l |-> Visit("left", l[i], Absent, Absent)] \o <<last>>) \o Tail(todo)
  BY <1>2 DEF First
<1>4. last \in Visits /\ last.path = V.path
  <2>1. dst[V.path] \in Node /\ Absent \in Node
    BY <1>1, TreeParts, Foreign DEF Types
  <2> QED BY <1>1, <2>1, VisitsTyped DEF Whats
<1>5. S \subseteq Named(dst, V.path) /\ S \in SUBSET Path /\ V.path \notin S
  <2>1. S \subseteq Named(dst, V.path) /\ S \subseteq Path
    BY ShownNamed
  <2>2. V.path \notin Named(dst, V.path)
    BY <1>1, ChildBelow DEF Named, Children
  <2> QED BY <2>1, <2>2
<1>6. Lists(S = Named(dst, V.path))
  BY <1>2, SeesLists
<1>7. UNCHANGED <<trees, user, idx, opened, outcome, copies, deletes>> /\ pc' = "scan"
  BY DEF WalkForDelete, Goto, Listing, plan
<1> DEFINE s == [i \in DOMAIN l |-> Visit("left", l[i], Absent, Absent)]
           new == s \o <<last>>
<1>8. todo' = new \o Tail(todo)
  BY <1>3
<1> HIDE DEF last
<1>12. OfLeft(s, l, S)
  BY <1>5 DEF OfLeft
<1> HIDE DEF s
<1>9. EachOnce(s, S) /\ \A i \in DOMAIN s : s[i] = LeftVisit(s[i].path)
  BY <1>12, LeftVisits
<1>10. /\ new \in Seq(Visits) /\ Distinct(new)
       /\ Len(new) \in DOMAIN new /\ new[Len(new)] = last
       /\ \A i \in DOMAIN new : \/ i < Len(new) /\ new[i].path \in S /\ new[i] = LeftVisit(new[i].path)
                                \/ i = Len(new) /\ new[i] = last
       /\ \A c \in S : \E i \in DOMAIN new : i < Len(new) /\ new[i].path = c
  BY <1>1, <1>4, <1>5, <1>9, PushVisits
<1> HIDE DEF new
<1>11. new # <<>> /\ Replaces(new)
  BY <1>8, <1>10 DEF Replaces
<1> QED BY <1>5, <1>6, <1>7, <1>10, <1>11 DEF last

\* A visit that leads to none, or to one.
LEMMA FewVisits ==
    ASSUME Types, NEW v \in Visits
    PROVE  /\ First(<<>>) => Replaces(<<>>)
           /\ First(<<v>>) => Replaces(<<v>>)
           /\ DOMAIN <<v>> = {1} /\ <<v>>[1] = v /\ Len(<<v>>) = 1
           /\ DOMAIN <<>> = {} /\ <<>> \in Seq(Visits) /\ <<v>> \in Seq(Visits)
BY DEF First, Replaces, Distinct

-----------------------------------------------------------------------------
(* Every step keeps the types.                                             *)

\* A step of the execution.
LEMMA AppliesTyped ==
    ASSUME Types, UNCHANGED <<src, user, scan, disturbed>>, Tree(dst'), opened' \in Contents,
           \/ /\ pc' = "idle" /\ idx' = idx
              /\ outcome' \in {"completed", "cancelled", "failed"}
           \/ /\ pc # "idle" /\ outcome' = outcome /\ pc' \in Exec
              /\ pc' = "copy" => idx' \in 1..(Len(copies) + 1)
              /\ pc' \in {"apply", "pump"} => idx' \in 1..Len(copies)
              /\ pc' = "delete" => idx' \in 1..(Len(deletes) + 1)
              /\ pc' = "pump" => idx' = idx /\ dst'[C.path].kind = "file"
    PROVE  Types'
<1>1. Tree(src)' /\ Tree(dst)' /\ Tree(was)'
  BY DEF Types, Tree, WellFormed, Exists, Dirs, Proper, user
<1>2. /\ todo' \in Seq(Visits) /\ copies' \in Seq(Items) /\ deletes' \in Seq(Deletions)
      /\ \A k \in DOMAIN todo' : Fits(todo'[k])
      /\ (delete_extraneous \in BOOLEAN)' /\ copies' = copies /\ deletes' = deletes
      /\ (disturbed \in BOOLEAN)'
  BY DEF Types, scan, plan, user
<1>3. Len(copies) \in Nat /\ Len(deletes) \in Nat
  BY InHand
<1>4. idx \in Nat /\ outcome \in {"none", "nothing", "declined", "completed", "cancelled", "failed"}
      /\ (pc # "idle" => outcome = "none")
  BY DEF Types
<1>5. idx' \in Nat
  BY <1>3, <1>4 DEF Exec
<1>6. pc' = "pump" => dst'[C.path].kind = "file" /\ (C.path)' = C.path
  BY <1>2 DEF C, Exec
<1>7. pc' \in {"idle"} \cup Scan \cup Exec /\ pc' \notin Scan
  BY DEF Scan, Exec
<1>8. (pc = "pump" => dst[C.path].kind = "file")'
  BY <1>6
<1>9. (pc = "copy" => idx \in 1..(Len(copies) + 1))' /\ (pc \in {"apply", "pump"} => idx \in 1..Len(copies))'
      /\ (pc = "delete" => idx \in 1..(Len(deletes) + 1))'
  BY <1>2
<1>10. (pc # "idle" => outcome = "none")' /\ (outcome \in {"none", "nothing", "declined", "completed", "cancelled", "failed"})'
  BY <1>4
<1> QED
  BY <1>1, <1>2, <1>5, <1>7, <1>8, <1>9, <1>10 DEF Types, Scan

LEMMA DiffDirTyped == Types /\ DiffDir => Types'
<1> SUFFICES ASSUME Types, DiffDir PROVE Types'
  OBVIOUS
<1>0. pc = "scan" /\ todo # <<>> /\ V \in Visits /\ V.path \in Entries
  BY InHand DEF DiffDir, Visiting
<1>1. CASE V.path \notin Dirs(src) \cap Dirs(dst)
  <2>1. UNCHANGED <<trees, user, scan, opened, idx>> /\ disturbed' = disturbed /\ Stop("failed")
    BY <1>1 DEF DiffDir, ScanFails, ScanStep, Listing
  <2> QED BY <2>1, MovesOn DEF Types, Stop
<1>2. CASE V.path \in Dirs(src) \cap Dirs(dst)
  <2>1. PICK M \in SUBSET Named(src, V.path) : \E T \in SUBSET Named(dst, V.path) : \E new :
              /\ Replaces(new)
              /\ \A i \in DOMAIN new : DirVisit(new[i], M, T)
              /\ disturbed' \in BOOLEAN
              /\ UNCHANGED <<trees, user, idx, opened, outcome, copies, deletes>> /\ pc' = "scan"
    BY <1>2, DiffDirStep DEF Lists
  <2>2. PICK T \in SUBSET Named(dst, V.path) : \E new :
              /\ Replaces(new)
              /\ \A i \in DOMAIN new : DirVisit(new[i], M, T)
              /\ disturbed' \in BOOLEAN
              /\ UNCHANGED <<trees, user, idx, opened, outcome, copies, deletes>> /\ pc' = "scan"
    BY <2>1
  <2>3. PICK new :
              /\ Replaces(new)
              /\ \A i \in DOMAIN new : DirVisit(new[i], M, T)
              /\ disturbed' \in BOOLEAN
              /\ UNCHANGED <<trees, user, idx, opened, outcome, copies, deletes>> /\ pc' = "scan"
    BY <2>2
  <2>4. \A i \in DOMAIN new : Fits(new[i])
    <3> SUFFICES ASSUME NEW i \in DOMAIN new PROVE Fits(new[i])
      OBVIOUS
    <3> DEFINE c == new[i].path
    <3>1. c \in Path /\ ((new[i] = MineVisit(c, T) /\ Exists(src, c)) \/ new[i] = LeftVisit(c))
      BY <2>3 DEF DirVisit, Named, Children, Leftovers
    <3> HIDE DEF c
    <3>2. new[i].path \in Path /\ (new[i].meta.kind # "none" \/ new[i].do = "left")
      <4>1. src[c] \in Node /\ dst[c] \in Node /\ Absent \in Node /\ c \in Entries
        BY <3>1, TreeParts, Foreign, RootAbove DEF Types
      <4>2. CASE new[i] = MineVisit(c, T) /\ Exists(src, c)
        BY <3>1, <4>1, <4>2, VisitsTyped DEF MineVisit, Exists, Whats
      <4>3. CASE new[i] = LeftVisit(c)
        BY <3>1, <4>3, EachTyped
      <4> QED BY <3>1, <4>2, <4>3
    <3> QED BY <3>2 DEF Fits
  <2> QED BY <1>0, <2>3, <2>4, VisitTyped DEF Replaces
<1> QED BY <1>1, <1>2

LEMMA DiffEntryTyped == Types /\ DiffEntry => Types'
<1> SUFFICES ASSUME Types, DiffEntry PROVE Types'
  OBVIOUS
<1>0. pc = "scan" /\ todo # <<>> /\ V \in Visits /\ V.path \in Path /\ V.path \in Entries /\ V.do = "entry"
  BY InHand DEF DiffEntry, Visiting, V
<1>1. UNCHANGED <<trees, user, idx, opened, outcome, deletes>> /\ pc' = "scan" /\ disturbed' \in BOOLEAN
  BY DEF DiffEntry, Goto, ScanStep, Listing, Types
<1> DEFINE full == [V EXCEPT !.do = "full"]   diff == Visit("diff", V.path, V.meta, V.old)
<1>2. full \in Visits /\ full.path = V.path /\ full.do = "full"
  BY <1>0 DEF Visits, Whats
<1>3. diff \in Visits /\ diff.path = V.path /\ diff.do = "diff"
  BY <1>0, InHand, VisitsTyped DEF Whats
<1>4. Item(V.path, V.meta, V.old) \in Items
  BY <1>0, InHand DEF Items, Item
<1>5. \/ First(<<full>>) /\ copies' = copies
      \/ First(<<diff>>) /\ copies' = copies
      \/ First(<<>>) /\ (copies' = copies \/ copies' = Append(copies, Item(V.path, V.meta, V.old)))
  <2>1. CASE V.meta.kind # V.old.kind
    BY <2>1 DEF DiffEntry
  <2>2. CASE V.meta.kind = V.old.kind /\ V.meta.kind = "dir"
    BY <2>2 DEF DiffEntry
  <2>3. CASE V.meta.kind = V.old.kind /\ V.meta.kind = "link"
    BY <2>3 DEF DiffEntry
  <2>4. CASE V.meta.kind = V.old.kind /\ V.meta.kind = "other"
    BY <2>4 DEF DiffEntry
  <2>5. V.meta.kind \in {"dir", "file", "link", "other"}
    BY <1>0, InHand DEF Node, NodeKinds
  <2>6. ~(V.meta.kind = "file" /\ V.old.kind = "file")
    BY DEF DiffEntry
  <2> QED BY <2>1, <2>2, <2>3, <2>4, <2>5, <2>6
<1> HIDE DEF full, diff
<1>6. CASE First(<<full>>) /\ copies' = copies
  <2>1. Replaces(<<full>>) /\ \A i \in DOMAIN <<full>> : Fits(<<full>>[i])
    BY <1>0, <1>2, <1>6, FewVisits DEF Fits
  <2> QED BY <1>0, <1>1, <1>6, <2>1, VisitTyped DEF Replaces
<1>7. CASE First(<<diff>>) /\ copies' = copies
  <2>1. Replaces(<<diff>>) /\ \A i \in DOMAIN <<diff>> : Fits(<<diff>>[i])
    BY <1>0, <1>3, <1>7, FewVisits DEF Fits
  <2> QED BY <1>0, <1>1, <1>7, <2>1, VisitTyped DEF Replaces
<1>8. CASE First(<<>>) /\ (copies' = copies \/ copies' = Append(copies, Item(V.path, V.meta, V.old)))
  <2>1. Replaces(<<>>) /\ \A i \in DOMAIN <<>> : Fits(<<>>[i])
    BY <1>0, <1>8, FewVisits DEF Fits
  <2> QED BY <1>0, <1>1, <1>4, <1>8, <2>1, VisitTyped DEF Replaces
<1> QED BY <1>5, <1>6, <1>7, <1>8

LEMMA DiffFileTyped == Types /\ DiffFile => Types'
<1> SUFFICES ASSUME Types, DiffFile PROVE Types'
  OBVIOUS
<1>0. pc = "scan" /\ todo # <<>> /\ V \in Visits /\ V.path \in Path /\ V.do = "entry"
  BY InHand DEF DiffFile, Visiting, V
<1>1. \/ ScanFails
      \/ /\ First(<<>>) /\ Goto("scan") /\ deletes' = deletes /\ ScanStep
         /\ copies' = copies \/ copies' = Append(copies, Item(V.path, V.meta, Absent))
  BY DEF DiffFile
<1>2. CASE ScanFails
  <2>1. UNCHANGED <<trees, user, scan, opened, idx>> /\ disturbed' = disturbed /\ Stop("failed")
    BY <1>2 DEF ScanFails, ScanStep, Listing
  <2> QED BY <2>1, MovesOn DEF Types, Stop
<1>3. CASE /\ First(<<>>) /\ Goto("scan") /\ deletes' = deletes /\ ScanStep
           /\ copies' = copies \/ copies' = Append(copies, Item(V.path, V.meta, Absent))
  <2>1. UNCHANGED <<trees, user, idx, opened, outcome, deletes>> /\ pc' = "scan" /\ disturbed' \in BOOLEAN
    BY <1>3 DEF Goto, ScanStep, Listing, Types
  <2>2. Item(V.path, V.meta, Absent) \in Items
    BY <1>0, InHand, Foreign DEF Items, Item
  <2>3. Replaces(<<>>) /\ \A i \in DOMAIN <<>> : Fits(<<>>[i])
    BY <1>0, <1>3, FewVisits DEF Fits
  <2> QED BY <1>0, <1>3, <2>1, <2>2, <2>3, VisitTyped DEF Replaces
<1> QED BY <1>1, <1>2, <1>3

LEMMA PushFullCopyTyped == Types /\ PushFullCopy => Types'
<1> SUFFICES ASSUME Types, PushFullCopy PROVE Types'
  OBVIOUS
<1>0. pc = "scan" /\ todo # <<>> /\ V \in Visits /\ V.path \in Path /\ V.do = "full"
  BY InHand DEF PushFullCopy, Visiting, V
<1>1. CASE V.meta.kind = "dir" /\ V.path \notin Dirs(src)
  <2>1. UNCHANGED <<trees, user, scan, opened, idx>> /\ disturbed' = disturbed /\ Stop("failed")
    BY <1>1 DEF PushFullCopy, ScanFails, ScanStep, Listing
  <2> QED BY <2>1, MovesOn DEF Types, Stop
<1>2. CASE ~(V.meta.kind = "dir" /\ V.path \notin Dirs(src))
  <2> DEFINE S == IF V.meta.kind = "dir" THEN Named(src, V.path) ELSE {}
  <2>0. S \in SUBSET Path
    BY DEF Named, Children
  <2>1. PICK M \in SUBSET S : \E new :
              /\ Replaces(new)
              /\ \A i \in DOMAIN new : new[i].path \in M /\ new[i] = FullVisit(new[i].path)
              /\ disturbed' \in BOOLEAN
              /\ UNCHANGED <<trees, user, idx, opened, outcome, deletes>> /\ pc' = "scan"
              /\ copies' = Append(copies, Item(V.path, V.meta, V.old))
    BY <1>2, PushFullCopyStep DEF Lists
  <2>2. PICK new :
              /\ Replaces(new)
              /\ \A i \in DOMAIN new : new[i].path \in M /\ new[i] = FullVisit(new[i].path)
              /\ disturbed' \in BOOLEAN
              /\ UNCHANGED <<trees, user, idx, opened, outcome, deletes>> /\ pc' = "scan"
              /\ copies' = Append(copies, Item(V.path, V.meta, V.old))
    BY <2>1
  <2>3. \A i \in DOMAIN new : Fits(new[i])
    BY <2>0, <2>2, EachTyped DEF Fits
  <2>4. Item(V.path, V.meta, V.old) \in Items
    BY <1>0, InHand DEF Items, Item
  <2> QED BY <1>0, <2>2, <2>3, <2>4, VisitTyped DEF Replaces
<1> QED BY <1>1, <1>2

LEMMA WalkForDeleteTyped == Types /\ WalkForDelete => Types'
<1> SUFFICES ASSUME Types, WalkForDelete PROVE Types'
  OBVIOUS
<1>0. pc = "scan" /\ todo # <<>> /\ V \in Visits /\ V.path \in Path /\ V.path \in Entries /\ V.do = "left"
  BY InHand DEF WalkForDelete, Visiting, V
<1>1. CASE ~Exists(dst, V.path)
  <2>1. UNCHANGED <<trees, user, scan, opened, idx>> /\ disturbed' = disturbed /\ Stop("failed")
    BY <1>1 DEF WalkForDelete, ScanFails, ScanStep, Listing
  <2> QED BY <2>1, MovesOn DEF Types, Stop
<1>2. CASE Exists(dst, V.path)
  <2> DEFINE last == Visit("push", V.path, Absent, dst[V.path])
  <2>1. PICK S \in SUBSET Named(dst, V.path) : \E new :
              /\ Replaces(new) /\ new[Len(new)] = last
              /\ \A i \in DOMAIN new : \/ new[i].path \in S /\ new[i] = LeftVisit(new[i].path)
                                       \/ i = Len(new)
              /\ disturbed' \in BOOLEAN
              /\ UNCHANGED <<trees, user, idx, opened, outcome, copies, deletes>> /\ pc' = "scan"
    <3>1. PICK S \in SUBSET Named(dst, V.path) : \E new :
              /\ Replaces(new) /\ new # <<>> /\ Len(new) \in DOMAIN new
              /\ new[Len(new)] = last
              /\ \A i \in DOMAIN new :
                    \/ /\ i < Len(new) /\ new[i].path \in S
                       /\ new[i] = LeftVisit(new[i].path)
                    \/ i = Len(new)
              /\ \A c \in S : \E i \in DOMAIN new : i < Len(new) /\ new[i].path = c
              /\ Lists(S = Named(dst, V.path))
              /\ UNCHANGED <<trees, user, idx, opened, outcome, copies, deletes>> /\ pc' = "scan"
      BY <1>2, WalkForDeleteStep, Zenon
    <3> HIDE DEF last
    <3> QED BY <3>1 DEF Lists
  <2>2. PICK new :
              /\ Replaces(new) /\ new[Len(new)] = last
              /\ \A i \in DOMAIN new : \/ new[i].path \in S /\ new[i] = LeftVisit(new[i].path)
                                       \/ i = Len(new)
              /\ disturbed' \in BOOLEAN
              /\ UNCHANGED <<trees, user, idx, opened, outcome, copies, deletes>> /\ pc' = "scan"
    BY <2>1
  <2>3. last.path \in Path /\ last.do = "push"
    <3>1. dst[V.path] \in Node /\ Absent \in Node
      BY <1>0, TreeParts, Foreign DEF Types
    <3> QED BY <1>0, <3>1, VisitsTyped DEF Whats
  <2> HIDE DEF last
  <2>4. \A i \in DOMAIN new : Fits(new[i])
    BY <2>2, <2>3, EachTyped DEF Named, Children, Fits
  <2> QED BY <1>0, <2>2, <2>4, VisitTyped DEF Replaces
<1> QED BY <1>1, <1>2

LEMMA PushDeleteTyped == Types /\ PushDelete => Types'
<1> SUFFICES ASSUME Types, PushDelete PROVE Types'
  OBVIOUS
<1>0. pc = "scan" /\ todo # <<>> /\ V \in Visits /\ V.path \in Path /\ V.do = "push"
  BY InHand DEF PushDelete, Visiting, V
<1>1. UNCHANGED <<trees, user, idx, opened, outcome, copies>> /\ pc' = "scan" /\ disturbed' \in BOOLEAN
      /\ deletes' = Append(deletes, [path |-> V.path, kind |-> V.old.kind])
  BY DEF PushDelete, Goto, ScanStep, Listing, Types
<1>2. V.old.kind \in NodeKinds
  BY <1>0, InHand DEF Node, NodeKinds
<1>3. [path |-> V.path, kind |-> V.old.kind] \in Deletions
  BY <1>0, <1>2 DEF Deletions
<1>4. Replaces(<<>>) /\ \A i \in DOMAIN <<>> : Fits(<<>>[i])
  BY <1>0, FewVisits DEF PushDelete
<1> QED BY <1>0, <1>1, <1>3, <1>4, VisitTyped DEF Replaces

\* The beginning and the end of a scan, and the user's answer.
LEMMA ScanEndsTyped ==
    Types /\ (StartScan \/ BeginScan \/ ScanDone \/ Decline \/ Confirm) => Types'
<1>1. ASSUME Types, StartScan PROVE Types'
  <2>1. Tree(src)' /\ Tree(dst)' /\ Tree(was)'
    BY <1>1 DEF StartScan, Types, Tree, WellFormed, Exists, Dirs, Proper, trees
  <2>2. Visit("diff", Root, Dir, Dir) \in Visits /\ Visit("diff", Root, Dir, Dir).do = "diff"
    BY VisitsTyped, Foreign, RootAbove DEF Whats
  <2>3. /\ todo' \in Seq(Visits) /\ copies' \in Seq(Items) /\ deletes' \in Seq(Deletions)
        /\ \A k \in DOMAIN todo' : Fits(todo'[k])
    BY <1>1, <2>2 DEF StartScan, Fits
  <2>4. (delete_extraneous \in BOOLEAN)' /\ (opened \in Contents)' /\ disturbed' = FALSE
        /\ pc' = "begin" /\ outcome' = "none" /\ idx' = 1
    BY <1>1 DEF StartScan, Types
  <2> QED BY <2>1, <2>3, <2>4 DEF Types, Scan
<1>2. ASSUME Types, BeginScan PROVE Types'
  <2>1. UNCHANGED <<trees, user, scan, opened, idx>> /\ disturbed' = disturbed /\ pc = "begin" /\ idx = 1
        /\ (Stop("cancelled") \/ Goto("scan"))
    BY <1>2 DEF BeginScan, world, Types
  <2> QED BY <1>2, <2>1, MovesOn DEF Types, Stop, Goto, Scan
<1>3. ASSUME Types, ScanDone PROVE Types'
  <2>1. UNCHANGED <<trees, user, scan, opened, idx>> /\ disturbed' = disturbed /\ pc = "scan" /\ idx = 1
        /\ (Stop("nothing") \/ Goto("confirm"))
    BY <1>3 DEF ScanDone, ScanStep, Listing, Types
  <2> QED BY <1>3, <2>1, MovesOn DEF Types, Stop, Goto, Scan
<1>4. ASSUME Types, Decline PROVE Types'
  <2>1. UNCHANGED <<trees, user, scan, opened, idx>> /\ disturbed' = disturbed /\ Stop("declined")
    BY <1>4 DEF Decline, ScanStep, Listing
  <2> QED BY <1>4, <2>1, MovesOn DEF Types, Stop
<1>5. ASSUME Types, Confirm PROVE Types'
  <2>1. UNCHANGED <<trees, user, scan, opened, idx>> /\ disturbed' = disturbed /\ pc = "confirm" /\ idx = 1
        /\ pc' = "copy" /\ outcome' = outcome
    BY <1>5 DEF Confirm, world, Types, Goto
  <2>2. idx' \in 1..(Len(copies) + 1)
    BY <1>5, <2>1, InHand
  <2> QED BY <1>5, <2>1, <2>2, MovesOn DEF Types, Exec, Scan
<1> QED BY <1>1, <1>2, <1>3, <1>4, <1>5

\* The execution.
LEMMA ExecTyped ==
    Types /\ (CopyNext \/ RemovalFails \/ ApplyDir \/ ApplyLink \/ BeginTransfer \/ TransferDone
              \/ TransferCut \/ TransferCancelled \/ CopiesDone \/ DeleteNext \/ SyncDone) => Types'
<1>0. ASSUME Types, Executing
      PROVE  /\ UNCHANGED <<src, user, scan, disturbed>> /\ opened \in Contents /\ Tree(dst) /\ Tree(src)
             /\ idx \in Nat /\ Len(copies) \in Nat /\ Len(deletes) \in Nat
             /\ pc = "copy" => idx \in 1..(Len(copies) + 1)
             /\ pc \in {"apply", "pump"} => idx \in 1..Len(copies)
             /\ pc = "delete" => idx \in 1..(Len(deletes) + 1)
             /\ idx \in 1..Len(copies) => /\ C.path \in Path /\ C.meta \in Node
  BY <1>0, InHand DEF Types, Executing, world, C
<1>1. ASSUME Types, CopyNext PROVE Types'
  <2>1. Executing /\ pc = "copy" /\ idx <= Len(copies) /\ UNCHANGED <<idx, opened>>
    BY <1>1 DEF CopyNext, At
  <2>2. idx \in 1..Len(copies)
    BY <1>0, <1>1, <2>1
  <2>3. Tree(Without(dst, Below[C.path]))
    BY <1>0, <1>1, <2>1, <2>2, WithoutBelow
  <2>4. (dst' = dst \/ dst' = Without(dst, Below[C.path])) /\ (Goto("apply") \/ Stop("failed") \/ Stop("cancelled"))
    BY <1>1 DEF CopyNext
  <2> QED BY <1>0, <1>1, <2>1, <2>2, <2>3, <2>4, AppliesTyped DEF Goto, Stop, Exec
<1>2. ASSUME Types, RemovalFails PROVE Types'
  <2>1. UNCHANGED <<src, user, scan, disturbed, idx, opened>> /\ Stop("failed") /\ opened \in Contents /\ Tree(dst)
    BY <1>2 DEF RemovalFails, world, Types
  <2>2. PICK gone : dst' = Without(dst, gone) /\ WellFormed(dst')
    BY <1>2 DEF RemovalFails
  <2>3. Tree(dst')
    BY <2>1, <2>2, Foreign DEF Tree, Without
  <2> QED BY <1>2, <2>1, <2>3, AppliesTyped DEF Stop
<1>3. ASSUME Types, ApplyDir PROVE Types'
  <2>1. Executing /\ pc = "apply" /\ opened' = opened
    BY <1>3 DEF ApplyDir, At
  <2>2. CASE CanMkdir(C.path)
    <3>1. dst' = [dst EXCEPT ![C.path] = Dir] /\ idx' = idx + 1 /\ Goto("copy")
      BY <1>3, <2>2 DEF ApplyDir, NextItem
    <3>2. Tree([dst EXCEPT ![C.path] = Dir])
      <4>1. Parent[C.path] \in Dirs(dst) /\ dst[C.path].kind \in {"none", Dir.kind}
        BY <2>2, Foreign DEF CanMkdir
      <4> QED BY <1>0, <1>3, <2>1, <4>1, Foreign, WithEntry
    <3> QED BY <1>0, <1>3, <2>1, <3>1, <3>2, AppliesTyped DEF Goto, Exec
  <2>3. CASE ~CanMkdir(C.path)
    <3>1. dst' = dst /\ idx' = idx /\ Stop("failed")
      BY <1>3, <2>3 DEF ApplyDir
    <3> QED BY <1>0, <1>3, <2>1, <3>1, AppliesTyped DEF Stop
  <2> QED BY <2>2, <2>3
<1>4. ASSUME Types, ApplyLink PROVE Types'
  <2>1. Executing /\ pc = "apply" /\ opened' = opened /\ C.meta.kind = "link" /\ idx' = idx + 1 /\ Goto("copy")
    BY <1>4 DEF ApplyLink, At, NextItem
  <2>2. CASE Parent[C.path] \in Dirs(dst) /\ dst[C.path].kind = "none" /\ dst' = [dst EXCEPT ![C.path] = C.meta]
    <3>1. Tree([dst EXCEPT ![C.path] = C.meta])
      <4>1. Proper(C.meta)
        BY <2>1 DEF Proper
      <4> QED BY <1>0, <1>4, <2>1, <2>2, <4>1, WithEntry
    <3> QED BY <1>0, <1>4, <2>1, <2>2, <3>1, AppliesTyped DEF Goto, Exec
  <2>3. CASE dst' = dst
    BY <1>0, <1>4, <2>1, <2>3, AppliesTyped DEF Goto, Exec
  <2> QED BY <1>4, <2>2, <2>3 DEF ApplyLink
<1>5. ASSUME Types, BeginTransfer PROVE Types'
  <2>1. Executing /\ pc = "apply" /\ idx' = idx
    BY <1>5 DEF BeginTransfer, At
  <2>2. CASE src[C.path].kind \in {"file", "other"} /\ CanCreate(C.path)
    <3>1. dst' = [dst EXCEPT ![C.path] = File("torn", Now)] /\ opened' = src[C.path].data /\ Goto("pump")
      BY <1>5, <2>2 DEF BeginTransfer
    <3>2. File("torn", Now) \in Node /\ Proper(File("torn", Now)) /\ File("torn", Now).kind = "file"
      BY Foreign DEF Contents
    <3>3. Tree([dst EXCEPT ![C.path] = File("torn", Now)])
      BY <1>0, <1>5, <2>1, <2>2, <3>2, WithEntry DEF CanCreate
    <3>4. opened' \in Contents
      BY <1>0, <1>5, <2>1, <3>1, TreeParts DEF Node, NodeKinds
    <3>5. dst'[C.path].kind = "file"
      BY <1>0, <1>5, <2>1, <3>1, <3>2 DEF Tree
    <3> QED BY <1>0, <1>5, <2>1, <3>1, <3>3, <3>4, <3>5, AppliesTyped DEF Goto, Exec
  <2>3. CASE ~(src[C.path].kind \in {"file", "other"} /\ CanCreate(C.path))
    <3>1. dst' = dst /\ opened' = opened /\ Stop("failed")
      BY <1>5, <2>3 DEF BeginTransfer
    <3> QED BY <1>0, <1>5, <2>1, <3>1, AppliesTyped DEF Stop
  <2> QED BY <2>2, <2>3
<1>6. ASSUME Types, TransferDone PROVE Types'
  <2>1. Executing /\ pc = "pump" /\ opened' = opened /\ idx' = idx + 1 /\ Goto("copy")
        /\ dst' = [dst EXCEPT ![C.path] = File(opened, Now)]
    BY <1>6 DEF TransferDone, At, NextItem
  <2>2. File(opened, Now) \in Node /\ Proper(File(opened, Now)) /\ File(opened, Now).kind = "file"
    BY <1>0, <1>6, <2>1, Foreign
  <2>3. dst[C.path].kind = "file"
    BY <1>6, <2>1 DEF Types
  <2>4. Parent[C.path] \in Dirs(dst)
    BY <1>0, <1>6, <2>1, <2>3, TreeParts DEF Exists
  <2>5. Tree([dst EXCEPT ![C.path] = File(opened, Now)])
    BY <1>0, <1>6, <2>1, <2>2, <2>3, <2>4, WithEntry
  <2> QED BY <1>0, <1>6, <2>1, <2>5, AppliesTyped DEF Goto, Exec
<1>7. ASSUME Types, TransferCancelled PROVE Types'
  <2>1. Executing /\ UNCHANGED <<dst, idx, opened>> /\ Stop("cancelled")
    BY <1>7 DEF TransferCancelled
  <2> QED BY <1>0, <1>7, <2>1, AppliesTyped DEF Stop
<1>8. ASSUME Types, CopiesDone PROVE Types'
  <2>1. Executing /\ UNCHANGED <<dst, opened>> /\ pc = "copy" /\ idx' = 1 /\ Goto("delete")
    BY <1>8 DEF CopiesDone
  <2> QED BY <1>0, <1>8, <2>1, AppliesTyped DEF Goto, Exec
<1>9. ASSUME Types, DeleteNext PROVE Types'
  <2>1. Executing /\ opened' = opened /\ pc = "delete" /\ idx <= Len(deletes)
    BY <1>9 DEF DeleteNext, At
  <2> DEFINE d == deletes[idx]
  <2>2. CASE UNCHANGED <<dst, idx>> /\ (Stop("cancelled") \/ Stop("failed"))
    BY <1>0, <1>9, <2>1, <2>2, AppliesTyped DEF Stop
  <2>3. CASE CanRemove(d.path, d.kind) /\ dst' = Without(dst, {d.path}) /\ idx' = idx + 1 /\ Goto("delete")
    <3>1. idx \in 1..Len(deletes) /\ d.path \in Path
      BY <1>0, <1>9, <2>1, InHand
    <3>2. Children(dst, d.path) = {}
      <4>1. CASE dst[d.path].kind = "dir"
        BY <2>3, <4>1 DEF CanRemove
      <4>2. CASE dst[d.path].kind # "dir"
        <5>1. d.path \notin Dirs(dst)
          BY <3>1, <4>2, PathAssumption DEF Dirs
        <5> QED BY <1>0, <1>9, <2>1, <5>1 DEF Children, Tree, WellFormed
      <4> QED BY <4>1, <4>2
    <3>3. Tree(Without(dst, {d.path}))
      BY <1>0, <1>9, <2>1, <3>1, <3>2, WithoutOne
    <3> QED BY <1>0, <1>9, <2>1, <2>3, <3>1, <3>3, AppliesTyped DEF Goto, Exec
  <2> QED BY <1>9, <2>2, <2>3 DEF DeleteNext
<1>10. ASSUME Types, SyncDone PROVE Types'
  <2>1. Executing /\ UNCHANGED <<dst, idx, opened>> /\ Stop("completed")
    BY <1>10 DEF SyncDone
  <2> QED BY <1>0, <1>10, <2>1, AppliesTyped DEF Stop
<1>11. ASSUME Types, TransferCut PROVE Types'
  <2>1. Executing /\ pc = "pump" /\ UNCHANGED <<dst, opened>> /\ idx' = idx + 1 /\ Goto("copy")
    BY <1>11 DEF TransferCut, At, NextItem
  <2> QED BY <1>0, <1>11, <2>1, AppliesTyped DEF Goto, Exec
<1> QED
  BY <1>1, <1>2, <1>3, <1>4, <1>5, <1>6, <1>7, <1>8, <1>9, <1>10, <1>11

\* The user, the network, and other programs.
LEMMA WorldTyped == Types /\ (Cancel \/ VfsFails \/ OtherProgram) => Types'
<1>1. ASSUME Types, Cancel PROVE Types'
  BY <1>1 DEF Cancel, Types, trees, user, scan, plan, world, Tree, WellFormed, Exists, Dirs, Proper, C
<1>2. ASSUME Types, VfsFails PROVE Types'
  <2>1. UNCHANGED <<trees, user, scan, opened, idx>> /\ disturbed' = disturbed /\ Stop("failed")
    BY <1>2 DEF VfsFails, world
  <2> QED BY <1>2, <2>1, MovesOn DEF Types, Stop
<1>3. ASSUME Types, OtherProgram PROVE Types'
  <2>1. UNCHANGED <<user, pc, outcome, scan, idx, opened>> /\ disturbed' = TRUE /\ pc # "pump"
    BY <1>3 DEF OtherProgram
  <2>2. File("long", Now) \in Node /\ Proper(File("long", Now))
    BY Foreign DEF Contents
  <2>3. Tree(src)' /\ Tree(dst)'
    <3>1. CASE dst' = dst /\ \E p \in Path, n \in {Absent, File("long", Now)} :
                  src' = [src EXCEPT ![p] = n] /\ WellFormed(src')
      <4>1. Tree(src) /\ Tree(dst)
        BY <1>3 DEF Types
      <4>2. Tree(dst')
        BY <3>1, <4>1
      <4>3. Tree(src')
        BY <2>2, <3>1, <4>1, Foreign DEF Tree
      <4> QED BY <4>2, <4>3
    <3>2. CASE src' = src /\ \E p \in Path, n \in {Absent, File("long", Now)} :
                  dst' = [dst EXCEPT ![p] = n] /\ WellFormed(dst')
      <4>1. Tree(src) /\ Tree(dst)
        BY <1>3 DEF Types
      <4>2. Tree(src')
        BY <3>2, <4>1
      <4>3. Tree(dst')
        BY <2>2, <3>2, <4>1, Foreign DEF Tree
      <4> QED BY <4>2, <4>3
    <3> QED BY <1>3, <3>1, <3>2 DEF OtherProgram
  <2>4. Tree(was)'
    BY <1>3, <2>1 DEF user, Types
  <2> QED BY <1>3, <2>1, <2>3, <2>4 DEF Types, user, scan, plan
<1> QED BY <1>1, <1>2, <1>3

LEMMA NextTyped == Types /\ [Next]_vars => Types'
<1>1. ASSUME Types, UNCHANGED vars PROVE Types'
  BY <1>1 DEF vars, Types, Tree, WellFormed, Exists, Dirs, Proper, C
<1>2. Types /\ Scanning => Types'
  BY DiffDirTyped, DiffEntryTyped, DiffFileTyped, PushFullCopyTyped, WalkForDeleteTyped,
     PushDeleteTyped, ScanEndsTyped, Zenon DEF Scanning
<1>3. Types /\ Applying => Types'
  <2> SUFFICES ASSUME Types, Applying PROVE Types'
    OBVIOUS
  <2>1. CASE Confirm \/ Decline
    BY <2>1, ScanEndsTyped, Zenon
  <2>2. CASE CopyNext \/ RemovalFails \/ ApplyDir \/ ApplyLink \/ BeginTransfer \/ TransferDone
             \/ TransferCut \/ TransferCancelled \/ CopiesDone \/ DeleteNext \/ SyncDone
    BY <2>2, ExecTyped
  <2> QED BY <2>1, <2>2, Zenon DEF Applying
<1> QED BY <1>1, <1>2, <1>3, WorldTyped, Zenon DEF Next

\* In every reachable state every variable holds a value of its type; both
\* sides are trees, and what is in hand is within its list.
THEOREM TypeCorrect == Spec => []TypeOK
<1>1. Types => TypeOK
  <2> SUFFICES ASSUME Types PROVE TypeOK
    OBVIOUS
  <2>1. {src, dst, was} \subseteq [Path -> Node] /\ WellFormed(src) /\ WellFormed(dst)
    BY DEF Types, Tree
  <2>2. (\A i \in DOMAIN copies : copies[i] \in Items) /\ \A i \in DOMAIN deletes : deletes[i].path \in Path
    BY InHand
  <2>3. Len(copies) \in Nat
    BY InHand
  <2>4. idx \in 1..((IF pc = "delete" THEN Len(deletes) ELSE Len(copies)) + 1) \/ pc = "idle"
    BY <2>3 DEF Types, Scan, Exec
  <2> QED BY <2>1, <2>2, <2>4 DEF Types, TypeOK, Scan, Exec
<1> QED BY <1>1, InitTyped, NextTyped, PTL DEF Spec

-----------------------------------------------------------------------------
(* What a step may delete.                                                 *)

\* An entry that goes was listed, or lay below one that is replaced.
GoneAsListed ==
    \A p \in Path : Exists(dst, p) /\ ~Exists(dst', p) /\ edits' = edits =>
        (\E i \in DOMAIN deletes : deletes[i].path = p) \/ Replaced(p)

EditsOK == edits \in Nat

LEMMA EditsCounted == EditsOK /\ [Next]_vars => EditsOK'
<1>1. ASSUME edits \in Nat, UNCHANGED edits PROVE edits' \in Nat
  BY <1>1
<1>2. Scanning => UNCHANGED edits
  BY DEF Scanning, StartScan, BeginScan, DiffDir, Paired, DiffEntry, DiffFile, PushFullCopy, WalkForDelete,
         PushDelete, ScanDone, ScanStep, Listing, ScanFails, world
<1>3. Applying => UNCHANGED edits
  BY DEF Applying, Confirm, Decline, CopyNext, RemovalFails, ApplyDir, ApplyLink, BeginTransfer, TransferDone,
         TransferCut, TransferCancelled, CopiesDone, DeleteNext, SyncDone, ScanStep, Listing, Executing, world
<1>4. Cancel \/ VfsFails => UNCHANGED edits
  BY DEF Cancel, VfsFails, world
<1>5. edits \in Nat /\ OtherProgram => edits' \in Nat
  BY DEF OtherProgram
<1> QED BY <1>1, <1>2, <1>3, <1>4, <1>5 DEF Next, vars, EditsOK

LEMMA GoneStep == Types /\ EditsOK /\ [Next]_vars => GoneAsListed
<1> SUFFICES ASSUME Types, EditsOK, [Next]_vars PROVE GoneAsListed
  OBVIOUS
<1>0. Tree(dst)
  BY DEF Types
<1>1. dst' = dst => GoneAsListed
  BY DEF GoneAsListed
<1>2. OtherProgram => GoneAsListed
  BY DEF GoneAsListed, OtherProgram, EditsOK
<1>3. Scanning \/ Cancel \/ VfsFails => dst' = dst
  BY DEF Scanning, StartScan, BeginScan, DiffDir, Paired, DiffEntry, DiffFile, PushFullCopy, WalkForDelete,
         PushDelete, ScanDone, ScanStep, Listing, ScanFails, trees, Cancel, VfsFails
<1>4. Confirm \/ Decline \/ TransferCut \/ TransferCancelled \/ CopiesDone \/ SyncDone => dst' = dst
  BY DEF Confirm, Decline, TransferCut, TransferCancelled, CopiesDone, SyncDone, ScanStep, Listing, trees
<1>5. ASSUME NEW p, NEW n, dst' = [dst EXCEPT ![p] = n], n.kind # "none" PROVE GoneAsListed
  BY <1>0, <1>5 DEF GoneAsListed, Exists, Tree
<1>6. ASSUME NEW gone, dst' = Without(dst, gone) PROVE \A p \in Path : Exists(dst, p) /\ ~Exists(dst', p) => p \in gone
  BY <1>6 DEF Without, Exists
<1>7. ASSUME CopyNext PROVE GoneAsListed
  <2>1. CASE dst' = Without(dst, Below[C.path]) /\ C.old # Absent
    <3>1. idx \in DOMAIN copies
      BY <1>7, InHand DEF CopyNext, At, Types
    <3> QED BY <1>6, <2>1, <3>1 DEF GoneAsListed, Replaced, C
  <2> QED BY <1>1, <1>7, <2>1 DEF CopyNext
<1>8. ASSUME RemovalFails PROVE GoneAsListed
  <2>1. idx \in DOMAIN copies
    BY <1>8, InHand DEF RemovalFails, At, Types
  <2>2. C.old # Absent
    BY <1>8, Foreign DEF RemovalFails
  <2>3. PICK gone \in SUBSET (Below[C.path] \ {C.path}) : dst' = Without(dst, gone)
    BY <1>8 DEF RemovalFails
  <2> QED BY <1>6, <2>1, <2>2, <2>3 DEF GoneAsListed, Replaced, C
<1>9. ApplyDir => GoneAsListed
  BY <1>1, <1>5, Foreign DEF ApplyDir
<1>10. ApplyLink => GoneAsListed
  BY <1>1, <1>5 DEF ApplyLink
<1>11. BeginTransfer => GoneAsListed
  BY <1>1, <1>5, Foreign DEF BeginTransfer, Contents
<1>12. TransferDone => GoneAsListed
  BY <1>5, Foreign DEF TransferDone, Types
<1>13. ASSUME DeleteNext PROVE GoneAsListed
  <2>1. CASE dst' = Without(dst, {deletes[idx].path})
    <3>1. idx \in DOMAIN deletes
      BY <1>13, InHand DEF DeleteNext, At, Types
    <3> QED BY <1>6, <2>1, <3>1 DEF GoneAsListed
  <2> QED BY <1>1, <1>13, <2>1 DEF DeleteNext
<1>14. UNCHANGED vars => dst' = dst
  BY DEF vars
<1>15. Applying => GoneAsListed
  BY <1>1, <1>4, <1>7, <1>8, <1>9, <1>10, <1>11, <1>12, <1>13, Zenon DEF Applying
<1> QED BY <1>1, <1>2, <1>3, <1>14, <1>15, Zenon DEF Next

\* No entry of the destination goes that the plan did not name, or that did not
\* lie below an entry to be replaced: what another program has added since the
\* scan stays.
THEOREM DeletesOnlyListedTheorem == Spec => DeletesOnlyListed
<1>1. Init => EditsOK
  BY DEF Init, EditsOK
<1>2. Types /\ EditsOK /\ [Next]_vars =>
          [\A p \in Path : Exists(dst, p) /\ ~Exists(dst', p) /\ edits' = edits =>
              \/ \E i \in DOMAIN deletes : deletes[i].path = p
              \/ \E i \in DOMAIN copies : copies[i].old # Absent /\ p \in Below[copies[i].path]]_vars
  BY GoneStep DEF GoneAsListed, Replaced
<1> QED BY <1>1, <1>2, InitTyped, NextTyped, EditsCounted, PTL DEF Spec, DeletesOnlyListed

-----------------------------------------------------------------------------
(* The scan keeps the invariant.                                           *)

LEMMA SpanHolds ==
    ASSUME NEW v \in Visits
    PROVE  v.path \in Span(v) /\ Span(v) \subseteq Below[v.path]
BY BelowClosed DEF Visits, Span

\* What the invariant says of the visit in hand.
LEMMA Hand ==
    ASSUME Types, Steady, pc = "scan", todo # <<>>
    PROVE  /\ VisitOK(V) /\ V \in Visits /\ V.path \in Span(V) /\ V.path \in Entries /\ dst = was
           /\ \A i \in DOMAIN copies : copies[i].path \notin Span(V)
           /\ \A i \in DOMAIN deletes : deletes[i].path \notin Span(V)
           /\ V.do # "full" => \A i \in DOMAIN copies : V.path \notin Below[copies[i].path]
           /\ \A k \in DOMAIN todo : k # 1 => Span(todo[k]) \cap Span(V) = {}
           /\ V.do = "push" => \A c \in Named(was, V.path) : \E i \in DOMAIN deletes : deletes[i].path = c
<1>1. ScanInv
  BY DEF Steady, Scan
<1>2. 1 \in DOMAIN todo /\ V = todo[1] /\ V \in Visits /\ V.path \in Entries /\ DOMAIN todo \subseteq Nat \ {0}
  BY InHand DEF Types
<1>3. V.path \in Span(V)
  BY <1>2, SpanHolds
<1>4. VisitOK(V) /\ dst = was
  BY <1>1, <1>2 DEF ScanInv
<1>5. /\ \A i \in DOMAIN copies : copies[i].path \notin Span(V)
      /\ \A i \in DOMAIN deletes : deletes[i].path \notin Span(V)
      /\ V.do # "full" => \A i \in DOMAIN copies : V.path \notin Below[copies[i].path]
  BY <1>1, <1>2 DEF ScanInv, Fresh
<1>6. \A k \in DOMAIN todo : k # 1 => Span(todo[k]) \cap Span(V) = {}
  BY <1>1, <1>2 DEF ScanInv, Apart
<1>7. V.do = "push" => \A c \in Named(was, V.path) : \E i \in DOMAIN deletes : deletes[i].path = c
  <2> SUFFICES ASSUME V.do = "push", NEW c \in Named(was, V.path)
               PROVE  \E i \in DOMAIN deletes : deletes[i].path = c
    OBVIOUS
  <2>1. \/ \E i \in DOMAIN deletes : deletes[i].path = c
        \/ \E m \in DOMAIN todo : m < 1 /\ todo[m].do \in {"left", "push"} /\ todo[m].path = c
    BY <1>1, <1>2 DEF ScanInv, PushedLast
  <2>2. \A m \in DOMAIN todo : ~(m < 1)
    BY <1>2
  <2> QED BY <2>1, <2>2
<1> QED BY <1>2, <1>3, <1>4, <1>5, <1>6, <1>7

\* The new visits stay within the span of the one they replace.
Divides(new) ==
    /\ \A i \in DOMAIN new : /\ VisitOK(new[i]) /\ Span(new[i]) \subseteq Span(V)
                             /\ V.do = "full" => new[i].do = "full"
    /\ \A i, j \in DOMAIN new : i # j => Span(new[i]) \cap Span(new[j]) = {}
    /\ \A k \in DOMAIN new : new[k].do = "push" =>
          \A c \in Named(was, new[k].path) :
              \E m \in DOMAIN new : m < k /\ new[m].do \in {"left", "push"} /\ new[m].path = c
\* The plan grows by the entry in hand, if at all.
PlansCopy(new, c) ==
    /\ V.do \in {"entry", "full"} /\ c \in Items /\ c.path = V.path /\ ItemOK(c)
    /\ copies' = Append(copies, c) /\ deletes' = deletes
    /\ \A i \in DOMAIN new : new[i].do = "full" /\ V.path \notin Span(new[i])
PlansDeletion(new, d) ==
    /\ V.do = "push" /\ new = <<>> /\ d.path = V.path /\ DeletionOK(d)
    /\ deletes' = Append(deletes, d) /\ copies' = copies
Plans(new) == UNCHANGED plan \/ (\E c : PlansCopy(new, c)) \/ \E d : PlansDeletion(new, d)
\* No path is lost between the two.
DealsWith(new) ==
    /\ \A p \in Path \cap Span(V) : Settles(p)' \/ \E i \in DOMAIN new : p \in Span(new[i])
    /\ V.do \in {"left", "push"} =>
          \/ \E i \in DOMAIN new : new[i].do \in {"left", "push"} /\ new[i].path = V.path
          \/ \E i \in DOMAIN deletes' : deletes'[i].path = V.path
Advances(new) ==
    /\ pc = "scan" /\ todo # <<>> /\ pc' = "scan" /\ UNCHANGED <<trees, user>>
    /\ Replaces(new) /\ Divides(new) /\ Plans(new) /\ DealsWith(new)

\* The visits to come are new, or were there before, in the same order.
LEMMA Upcoming ==
    ASSUME Types, NEW new, Replaces(new), todo # <<>>
    PROVE  /\ \A k \in DOMAIN todo' :
                 \/ k \in DOMAIN new /\ todo'[k] = new[k]
                 \/ \E j \in DOMAIN todo : j # 1 /\ k = j + Len(new) - 1 /\ todo'[k] = todo[j]
           /\ \A k \in DOMAIN new : k \in DOMAIN todo' /\ todo'[k] = new[k]
           /\ \A j \in DOMAIN todo : j # 1 => j + Len(new) - 1 \in DOMAIN todo' /\ todo'[j + Len(new) - 1] = todo[j]
           /\ DOMAIN new = 1..Len(new) /\ Len(new) \in Nat /\ DOMAIN todo \subseteq Nat \ {0}
           /\ todo' \in Seq(Visits) /\ 1 \in DOMAIN todo /\ V = todo[1]
<1>1. new \in Seq(Visits) /\ todo' = new \o Tail(todo) /\ todo \in Seq(Visits)
  BY DEF Replaces, Types
<1>0. todo # <<>>
  OBVIOUS
<1>2. /\ todo' \in Seq(Visits) /\ Len(new) \in Nat /\ Len(todo) \in Nat /\ 1 \in DOMAIN todo
      /\ Head(todo) = todo[1] /\ Head(todo) \in Visits
      /\ \A k \in DOMAIN todo' :
             \/ k \in DOMAIN new /\ todo'[k] = new[k]
             \/ /\ k - Len(new) + 1 \in DOMAIN todo /\ k > Len(new)
                /\ k - Len(new) + 1 # 1
                /\ todo'[k] = todo[k - Len(new) + 1]
      /\ \A k \in DOMAIN new : k \in DOMAIN todo' /\ todo'[k] = new[k]
      /\ \A k \in DOMAIN todo : k # 1 => k + Len(new) - 1 \in DOMAIN todo' /\ todo'[k + Len(new) - 1] = todo[k]
  <2>1. /\ (new \o Tail(todo)) \in Seq(Visits) /\ Len(new) \in Nat /\ Len(todo) \in Nat /\ 1 \in DOMAIN todo
        /\ Head(todo) = todo[1] /\ Head(todo) \in Visits
        /\ \A k \in DOMAIN (new \o Tail(todo)) :
               \/ k \in DOMAIN new /\ (new \o Tail(todo))[k] = new[k]
               \/ /\ k - Len(new) + 1 \in DOMAIN todo /\ k > Len(new)
                  /\ k - Len(new) + 1 # 1
                  /\ (new \o Tail(todo))[k] = todo[k - Len(new) + 1]
        /\ \A k \in DOMAIN new : k \in DOMAIN (new \o Tail(todo)) /\ (new \o Tail(todo))[k] = new[k]
        /\ \A k \in DOMAIN todo : k # 1 => k + Len(new) - 1 \in DOMAIN (new \o Tail(todo)) /\ (new \o Tail(todo))[k + Len(new) - 1] = todo[k]
    BY <1>1, <1>0, FirstTodo, Zenon
  <2> QED BY <1>1, <2>1, Zenon
<1>3. DOMAIN new = 1..Len(new) /\ DOMAIN todo \subseteq Nat \ {0} /\ DOMAIN todo' \subseteq Nat \ {0}
  BY <1>1, <1>2
<1>4. ASSUME NEW k \in DOMAIN todo'
      PROVE  \/ k \in DOMAIN new /\ todo'[k] = new[k]
             \/ \E j \in DOMAIN todo : j # 1 /\ k = j + Len(new) - 1 /\ todo'[k] = todo[j]
  <2>1. CASE k \in DOMAIN new /\ todo'[k] = new[k]
    BY <2>1
  <2>2. CASE /\ k - Len(new) + 1 \in DOMAIN todo /\ k - Len(new) + 1 # 1
             /\ todo'[k] = todo[k - Len(new) + 1]
    <3> DEFINE j == k - Len(new) + 1
    <3>1. k = j + Len(new) - 1
      BY <1>2, <1>3
    <3> QED BY <2>2, <3>1
  <2> QED BY <1>2, <2>1, <2>2
<1> QED BY <1>2, <1>3, <1>4 DEF V

\* Copies and deletions planned before remain, at most one comes last.
LEMMA Planned ==
    ASSUME Types, NEW new, Plans(new)
    PROVE  /\ copies \in Seq(Items) /\ deletes \in Seq(Deletions)
           /\ \A i \in DOMAIN copies : i \in DOMAIN copies' /\ copies'[i] = copies[i]
           /\ \A i \in DOMAIN deletes : i \in DOMAIN deletes' /\ deletes'[i] = deletes[i]
           /\ \A i \in DOMAIN copies' :
                 \/ i \in DOMAIN copies /\ copies'[i] = copies[i]
                 \/ i = Len(copies) + 1 /\ deletes' = deletes /\ PlansCopy(new, copies'[i])
           /\ \A i \in DOMAIN deletes' :
                 \/ i \in DOMAIN deletes /\ deletes'[i] = deletes[i]
                 \/ i = Len(deletes) + 1 /\ copies' = copies /\ PlansDeletion(new, deletes'[i])
<1>1. copies \in Seq(Items) /\ deletes \in Seq(Deletions)
  BY DEF Types
<1>2. CASE UNCHANGED plan
  BY <1>1, <1>2 DEF plan
<1>3. ASSUME NEW c, PlansCopy(new, c)
      PROVE  /\ \A i \in DOMAIN copies : i \in DOMAIN copies' /\ copies'[i] = copies[i]
             /\ \A i \in DOMAIN copies' :
                   \/ i \in DOMAIN copies /\ copies'[i] = copies[i]
                   \/ i = Len(copies) + 1 /\ copies'[i] = c
             /\ deletes' = deletes
  <2>1. copies' = Append(copies, c) /\ deletes' = deletes /\ c \in Items
    BY <1>3 DEF PlansCopy
  <2> QED BY <1>1, <2>1
<1>4. ASSUME NEW d, PlansDeletion(new, d)
      PROVE  /\ \A i \in DOMAIN deletes : i \in DOMAIN deletes' /\ deletes'[i] = deletes[i]
             /\ \A i \in DOMAIN deletes' :
                   \/ i \in DOMAIN deletes /\ deletes'[i] = deletes[i]
                   \/ i = Len(deletes) + 1 /\ deletes'[i] = d
             /\ copies' = copies
  <2>1. deletes' = Append(deletes, d) /\ copies' = copies
    BY <1>4 DEF PlansDeletion
  <2> QED BY <1>1, <2>1
<1>5. CASE \E c : PlansCopy(new, c)
  <2>1. PICK c : PlansCopy(new, c)
    BY <1>5
  <2> QED BY <1>1, <1>3, <2>1
<1>6. CASE \E d : PlansDeletion(new, d)
  <2>1. PICK d : PlansDeletion(new, d)
    BY <1>6
  <2> QED BY <1>1, <1>4, <2>1
<1> QED BY <1>2, <1>5, <1>6 DEF Plans

LEMMA AdvanceApart ==
    ASSUME Types, Steady, NEW new, Advances(new)
    PROVE  (\A k \in DOMAIN todo : VisitOK(todo[k]))' /\ Apart'
<1>0. pc = "scan" /\ todo # <<>> /\ Replaces(new) /\ Divides(new) /\ UNCHANGED <<trees, user>>
  BY DEF Advances
<1>1. /\ \A k \in DOMAIN todo' :
            \/ k \in DOMAIN new /\ todo'[k] = new[k]
            \/ \E j \in DOMAIN todo : j # 1 /\ k = j + Len(new) - 1 /\ todo'[k] = todo[j]
      /\ DOMAIN todo \subseteq Nat \ {0} /\ Len(new) \in Nat
  BY <1>0, Upcoming
<1>2. ScanInv /\ \A k \in DOMAIN todo : k # 1 => Span(todo[k]) \cap Span(V) = {}
  BY <1>0, Hand DEF Steady, Scan
<1>3. \A k \in DOMAIN todo' : VisitOK(todo'[k])
  BY <1>0, <1>1, <1>2 DEF Divides, ScanInv
<1>4. \A k \in DOMAIN todo' : VisitOK(todo'[k]) => VisitOK(todo[k])'
  BY <1>0 DEF VisitOK, Hidden, Exists, Dirs, trees, user
<1>5. ASSUME NEW k \in DOMAIN todo', NEW m \in DOMAIN todo', k # m PROVE Span(todo'[k]) \cap Span(todo'[m]) = {}
  <2>1. \A i \in DOMAIN new : Span(new[i]) \subseteq Span(V)
    BY <1>0 DEF Divides
  <2>2. CASE k \in DOMAIN new /\ todo'[k] = new[k] /\ m \in DOMAIN new /\ todo'[m] = new[m]
    BY <1>0, <1>5, <2>2 DEF Divides
  <2>3. CASE k \in DOMAIN new /\ todo'[k] = new[k] /\ \E j \in DOMAIN todo : j # 1 /\ todo'[m] = todo[j]
    BY <1>2, <2>1, <2>3
  <2>4. CASE m \in DOMAIN new /\ todo'[m] = new[m] /\ \E j \in DOMAIN todo : j # 1 /\ todo'[k] = todo[j]
    BY <1>2, <2>1, <2>4
  <2>5. CASE /\ \E j \in DOMAIN todo : j # 1 /\ k = j + Len(new) - 1 /\ todo'[k] = todo[j]
             /\ \E j \in DOMAIN todo : j # 1 /\ m = j + Len(new) - 1 /\ todo'[m] = todo[j]
    BY <1>2, <1>5, <2>5 DEF ScanInv, Apart
  <2> QED BY <1>1, <2>2, <2>3, <2>4, <2>5
<1>6. Apart'
  BY <1>5 DEF Apart
<1> QED BY <1>3, <1>4, <1>6

LEMMA AdvanceFresh ==
    ASSUME Types, Steady, NEW new, Advances(new)
    PROVE  Fresh'
<1>0. pc = "scan" /\ todo # <<>> /\ Replaces(new) /\ Divides(new) /\ Plans(new)
  BY DEF Advances
<1>1. /\ \A k \in DOMAIN todo' :
            \/ k \in DOMAIN new /\ todo'[k] = new[k]
            \/ \E j \in DOMAIN todo : j # 1 /\ todo'[k] = todo[j]
      /\ new \in Seq(Visits)
  <2>1. new \in Seq(Visits)
    BY <1>0 DEF Replaces
  <2>2. \A k \in DOMAIN todo' :
            \/ k \in DOMAIN new /\ todo'[k] = new[k]
            \/ \E j \in DOMAIN todo : j # 1 /\ k = j + Len(new) - 1 /\ todo'[k] = todo[j]
    BY <1>0, Upcoming, Zenon
  <2> QED BY <2>1, <2>2, Zenon
<1>2. /\ V \in Visits /\ V.path \in Span(V) /\ V.path \in Entries
      /\ \A i \in DOMAIN copies : copies[i].path \notin Span(V)
      /\ \A i \in DOMAIN deletes : deletes[i].path \notin Span(V)
      /\ V.do # "full" => \A i \in DOMAIN copies : V.path \notin Below[copies[i].path]
      /\ \A k \in DOMAIN todo : k # 1 => Span(todo[k]) \cap Span(V) = {}
  BY <1>0, Hand
<1>3. Fresh
  BY <1>0 DEF Steady, Scan, ScanInv
<1>4. /\ \A i \in DOMAIN copies' :
            \/ i \in DOMAIN copies /\ copies'[i] = copies[i]
            \/ PlansCopy(new, copies'[i])
      /\ \A i \in DOMAIN deletes' :
            \/ i \in DOMAIN deletes /\ deletes'[i] = deletes[i]
            \/ PlansDeletion(new, deletes'[i])
  BY <1>0, Planned
<1>5. ASSUME NEW k \in DOMAIN new
      PROVE  /\ \A i \in DOMAIN copies' : copies'[i].path \notin Span(new[k])
             /\ \A i \in DOMAIN deletes' : deletes'[i].path \notin Span(new[k])
             /\ new[k].do # "full" => \A i \in DOMAIN copies' : new[k].path \notin Below[copies'[i].path]
  <2>1. Span(new[k]) \subseteq Span(V) /\ (V.do = "full" => new[k].do = "full")
    BY <1>0 DEF Divides
  <2>2. \A i \in DOMAIN copies' : copies'[i].path \notin Span(new[k])
    BY <1>2, <1>4, <2>1 DEF PlansCopy
  <2>3. \A i \in DOMAIN deletes' : deletes'[i].path \notin Span(new[k])
    BY <1>2, <1>4, <2>1 DEF PlansDeletion
  <2>4. ASSUME new[k].do # "full", NEW i \in DOMAIN copies', new[k].path \in Below[copies'[i].path] PROVE FALSE
    <3>1. i \in DOMAIN copies /\ copies'[i] = copies[i]
      BY <1>4, <2>4 DEF PlansCopy
    <3>2. V.path \notin Below[copies[i].path] /\ copies[i].path \notin Span(V)
      BY <1>2, <2>1, <2>4, <3>1
    <3>3. new[k] \in Visits
      BY <1>1
    <3>4. new[k].path \in Span(V)
      BY <2>1, <3>3, SpanHolds
    <3>5. copies[i].path \in Entries
      BY <3>1, InHand DEF Entries
    <3>6. CASE V.do = "push"
      <4>1. new[k].path = V.path
        BY <3>4, <3>6 DEF Span
      <4> QED BY <2>4, <3>1, <3>2, <4>1
    <3>7. CASE V.do # "push"
      <4>1. Span(V) = Below[V.path]
        BY <3>7 DEF Span
      <4>2. new[k].path \in Below[copies[i].path]
        BY <2>4, <3>1
      <4> QED BY <1>2, <3>2, <3>4, <3>5, <4>1, <4>2, BelowNested
    <3> QED BY <3>6, <3>7
  <2> QED BY <2>2, <2>3, <2>4
<1>6. ASSUME NEW j \in DOMAIN todo, j # 1
      PROVE  /\ \A i \in DOMAIN copies' : copies'[i].path \notin Span(todo[j])
             /\ \A i \in DOMAIN deletes' : deletes'[i].path \notin Span(todo[j])
             /\ todo[j].do # "full" => \A i \in DOMAIN copies' : todo[j].path \notin Below[copies'[i].path]
  <2>1. Span(todo[j]) \cap Span(V) = {} /\ V.path \notin Span(todo[j])
    BY <1>2, <1>6
  <2>2. \A i \in DOMAIN copies' : copies'[i].path \notin Span(todo[j])
    BY <1>3, <1>4, <2>1 DEF Fresh, PlansCopy
  <2>3. \A i \in DOMAIN deletes' : deletes'[i].path \notin Span(todo[j])
    BY <1>3, <1>4, <2>1 DEF Fresh, PlansDeletion
  <2>4. ASSUME todo[j].do # "full", NEW i \in DOMAIN copies', PlansCopy(new, copies'[i])
        PROVE  todo[j].path \notin Below[copies'[i].path]
    <3>1. todo[j] \in Visits
      BY DEF Types
    <3>2. Span(V) = Below[copies'[i].path]
      BY <2>4 DEF PlansCopy, Span
    <3> QED BY <2>1, <3>1, <3>2, SpanHolds
  <2>5. todo[j].do # "full" => \A i \in DOMAIN copies' : todo[j].path \notin Below[copies'[i].path]
    BY <1>3, <1>4, <2>4 DEF Fresh
  <2> QED BY <2>2, <2>3, <2>5
<1>7. ASSUME NEW k \in DOMAIN todo'
      PROVE  /\ \A i \in DOMAIN copies' : copies'[i].path \notin Span(todo'[k])
             /\ \A i \in DOMAIN deletes' : deletes'[i].path \notin Span(todo'[k])
             /\ todo'[k].do # "full" => \A i \in DOMAIN copies' : todo'[k].path \notin Below[copies'[i].path]
  <2>1. CASE k \in DOMAIN new /\ todo'[k] = new[k]
    BY <1>5, <2>1
  <2>2. CASE \E j \in DOMAIN todo : j # 1 /\ todo'[k] = todo[j]
    BY <1>6, <2>2
  <2> QED BY <1>1, <2>1, <2>2
<1> QED BY <1>7 DEF Fresh

LEMMA AdvancePushed ==
    ASSUME Types, Steady, NEW new, Advances(new)
    PROVE  PushedLast'
<1>0. pc = "scan" /\ todo # <<>> /\ Replaces(new) /\ Divides(new) /\ Plans(new) /\ DealsWith(new) /\ was' = was
  BY DEF Advances, user
<1>1. /\ \A k \in DOMAIN todo' :
            \/ k \in DOMAIN new /\ todo'[k] = new[k]
            \/ \E j \in DOMAIN todo : j # 1 /\ k = j + Len(new) - 1 /\ todo'[k] = todo[j]
      /\ \A k \in DOMAIN new : k \in DOMAIN todo' /\ todo'[k] = new[k]
      /\ \A j \in DOMAIN todo : j # 1 => j + Len(new) - 1 \in DOMAIN todo' /\ todo'[j + Len(new) - 1] = todo[j]
      /\ DOMAIN new = 1..Len(new) /\ Len(new) \in Nat /\ DOMAIN todo \subseteq Nat \ {0}
      /\ V = todo[1]
  BY <1>0, Upcoming, Zenon
<1>2. PushedLast
  BY <1>0 DEF Steady, Scan, ScanInv
<1>3. \A i \in DOMAIN deletes : i \in DOMAIN deletes' /\ deletes'[i] = deletes[i]
  BY <1>0, Planned
<1> SUFFICES ASSUME NEW k \in DOMAIN todo', todo'[k].do = "push", NEW c \in Named(was, todo'[k].path)
             PROVE  \/ \E i \in DOMAIN deletes' : deletes'[i].path = c
                    \/ \E m \in DOMAIN todo' : m < k /\ todo'[m].do \in {"left", "push"} /\ todo'[m].path = c
  BY <1>0 DEF PushedLast, Named, Children, Exists
<1>4. CASE k \in DOMAIN new /\ todo'[k] = new[k]
  <2>1. PICK m \in DOMAIN new : m < k /\ new[m].do \in {"left", "push"} /\ new[m].path = c
    BY <1>0, <1>4 DEF Divides
  <2>2. m \in DOMAIN todo' /\ todo'[m] = new[m]
    BY <1>1
  <2> QED BY <2>1, <2>2
<1>5. ASSUME NEW j \in DOMAIN todo, j # 1, k = j + Len(new) - 1, todo'[k] = todo[j]
      PROVE  \/ \E i \in DOMAIN deletes' : deletes'[i].path = c
             \/ \E m \in DOMAIN todo' : m < k /\ todo'[m].do \in {"left", "push"} /\ todo'[m].path = c
  <2>1. \/ \E i \in DOMAIN deletes : deletes[i].path = c
        \/ \E m \in DOMAIN todo : m < j /\ todo[m].do \in {"left", "push"} /\ todo[m].path = c
    BY <1>2, <1>5 DEF PushedLast
  <2>2. CASE \E i \in DOMAIN deletes : deletes[i].path = c
    BY <1>3, <2>2
  <2>3. ASSUME NEW m \in DOMAIN todo, m < j, todo[m].do \in {"left", "push"}, todo[m].path = c, m # 1
        PROVE  \E q \in DOMAIN todo' : q < k /\ todo'[q].do \in {"left", "push"} /\ todo'[q].path = c
    <3> DEFINE q == m + Len(new) - 1
    <3>1. q \in DOMAIN todo' /\ todo'[q] = todo[m]
      BY <1>1, <2>3
    <3>2. q < k
      BY <1>1, <1>5, <2>3
    <3> HIDE DEF q
    <3> QED BY <2>3, <3>1, <3>2
  <2>4. ASSUME V.do \in {"left", "push"}, V.path = c
        PROVE  \/ \E i \in DOMAIN deletes' : deletes'[i].path = c
               \/ \E m \in DOMAIN todo' : m < k /\ todo'[m].do \in {"left", "push"} /\ todo'[m].path = c
    <3>1. \/ \E i \in DOMAIN new : new[i].do \in {"left", "push"} /\ new[i].path = c
          \/ \E i \in DOMAIN deletes' : deletes'[i].path = c
      BY <1>0, <2>4 DEF DealsWith
    <3>2. ASSUME NEW i \in DOMAIN new, new[i].do \in {"left", "push"}, new[i].path = c
          PROVE  \E m \in DOMAIN todo' : m < k /\ todo'[m].do \in {"left", "push"} /\ todo'[m].path = c
      <4>1. i \in DOMAIN todo' /\ todo'[i] = new[i]
        BY <1>1
      <4>2. i < k
        BY <1>1, <1>5
      <4> QED BY <3>2, <4>1, <4>2
    <3> QED BY <3>1, <3>2
  <2> QED BY <1>1, <2>1, <2>2, <2>3, <2>4
<1> QED BY <1>1, <1>4, <1>5

LEMMA AdvancePlan ==
    ASSUME Types, Steady, NEW new, Advances(new)
    PROVE  PlanInv'
<1>0. pc = "scan" /\ todo # <<>> /\ Plans(new) /\ UNCHANGED <<src, was, delete_extraneous>>
  BY DEF Advances, trees, user
<1>1. /\ V.path \in Span(V) /\ V.path \in Entries
      /\ \A i \in DOMAIN copies : copies[i].path \notin Span(V)
      /\ \A i \in DOMAIN deletes : deletes[i].path \notin Span(V)
      /\ V.do # "full" => \A i \in DOMAIN copies : V.path \notin Below[copies[i].path]
      /\ V.do = "push" => \A c \in Named(was, V.path) : \E i \in DOMAIN deletes : deletes[i].path = c
  BY <1>0, Hand
<1>2. PlanInv
  BY <1>0 DEF Steady
<1>3. /\ \A i \in DOMAIN copies : i \in DOMAIN copies' /\ copies'[i] = copies[i]
      /\ \A i \in DOMAIN deletes : i \in DOMAIN deletes' /\ deletes'[i] = deletes[i]
      /\ \A i \in DOMAIN copies' :
            \/ i \in DOMAIN copies /\ copies'[i] = copies[i]
            \/ i = Len(copies) + 1 /\ deletes' = deletes /\ PlansCopy(new, copies'[i])
      /\ \A i \in DOMAIN deletes' :
            \/ i \in DOMAIN deletes /\ deletes'[i] = deletes[i]
            \/ i = Len(deletes) + 1 /\ copies' = copies /\ PlansDeletion(new, deletes'[i])
  BY <1>0, Planned, Zenon
<1>4. DOMAIN copies = 1..Len(copies) /\ Len(copies) \in Nat /\ DOMAIN deletes = 1..Len(deletes) /\ Len(deletes) \in Nat
  BY InHand
<1>5. \A c : PlansCopy(new, c) => V.do # "push" /\ c.path = V.path /\ Below[c.path] = Span(V) /\ ItemOK(c)
  BY DEF PlansCopy, Span
<1>6. \A d : PlansDeletion(new, d) => V.do = "push" /\ d.path = V.path /\ DeletionOK(d)
  BY DEF PlansDeletion
<1>7. (\A i \in DOMAIN copies : ItemOK(copies[i]))'
  <2>1. \A i \in DOMAIN copies' : ItemOK(copies'[i])
    BY <1>2, <1>3, <1>5 DEF PlanInv
  <2>2. \A i \in DOMAIN copies' : ItemOK(copies'[i]) => ItemOK(copies[i])'
    BY <1>0 DEF ItemOK, Hidden, Exists
  <2> QED BY <2>1, <2>2
<1>8. (\A i \in DOMAIN deletes : DeletionOK(deletes[i]))'
  <2>1. \A i \in DOMAIN deletes' : DeletionOK(deletes'[i])
    BY <1>2, <1>3, <1>6 DEF PlanInv
  <2>2. \A i \in DOMAIN deletes' : DeletionOK(deletes'[i]) => DeletionOK(deletes[i])'
    BY <1>0 DEF DeletionOK, Exists
  <2> QED BY <2>1, <2>2
<1>9. ASSUME NEW i \in DOMAIN copies', NEW j \in DOMAIN copies', i < j PROVE copies'[i].path \notin Below[copies'[j].path]
  <2>1. CASE j \in DOMAIN copies /\ copies'[j] = copies[j]
    <3>1. i # Len(copies) + 1
      BY <1>4, <1>9, <2>1
    <3>2. i \in DOMAIN copies /\ copies'[i] = copies[i]
      BY <1>3, <3>1
    <3> QED BY <1>2, <1>9, <2>1, <3>2 DEF PlanInv, ParentsFirst
  <2>2. CASE j = Len(copies) + 1 /\ PlansCopy(new, copies'[j])
    <3>1. i # Len(copies) + 1
      BY <1>4, <1>9, <2>2
    <3>2. i \in DOMAIN copies /\ copies'[i] = copies[i]
      BY <1>3, <3>1
    <3> QED BY <1>1, <1>5, <2>2, <3>2
  <2> QED BY <1>3, <2>1, <2>2
<1>10. ASSUME NEW i \in DOMAIN deletes', NEW j \in DOMAIN deletes', deletes'[i].path = deletes'[j].path PROVE i = j
  <2>1. CASE i \in DOMAIN deletes /\ deletes'[i] = deletes[i] /\ j \in DOMAIN deletes /\ deletes'[j] = deletes[j]
    BY <1>2, <1>10, <2>1 DEF PlanInv, ChildrenFirst
  <2>2. CASE i \in DOMAIN deletes /\ deletes'[i] = deletes[i] /\ PlansDeletion(new, deletes'[j])
    BY <1>1, <1>6, <1>10, <2>2
  <2>3. CASE PlansDeletion(new, deletes'[i]) /\ j \in DOMAIN deletes /\ deletes'[j] = deletes[j]
    BY <1>1, <1>6, <1>10, <2>3
  <2>4. CASE i = Len(deletes) + 1 /\ j = Len(deletes) + 1
    BY <2>4
  <2> QED BY <1>3, <2>1, <2>2, <2>3, <2>4
<1>11. ASSUME NEW i \in DOMAIN deletes', NEW c \in Named(was, deletes'[i].path)
       PROVE  \E j \in DOMAIN deletes' : j < i /\ deletes'[j].path = c
  <2>1. CASE i \in DOMAIN deletes /\ deletes'[i] = deletes[i]
    <3>1. PICK j \in DOMAIN deletes : j < i /\ deletes[j].path = c
      BY <1>2, <2>1 DEF PlanInv, ChildrenFirst
    <3> QED BY <1>3, <3>1
  <2>2. CASE i = Len(deletes) + 1 /\ PlansDeletion(new, deletes'[i])
    <3>1. PICK j \in DOMAIN deletes : deletes[j].path = c
      BY <1>1, <1>6, <2>2
    <3>2. j < i
      BY <1>4, <2>2
    <3> QED BY <1>3, <3>1, <3>2
  <2> QED BY <1>3, <2>1, <2>2
<1>12. ASSUME NEW i \in DOMAIN deletes', NEW j \in DOMAIN copies' PROVE deletes'[i].path \notin Below[copies'[j].path]
  <2>1. CASE i \in DOMAIN deletes /\ deletes'[i] = deletes[i] /\ j \in DOMAIN copies /\ copies'[j] = copies[j]
    BY <1>2, <2>1 DEF PlanInv
  <2>2. CASE i \in DOMAIN deletes /\ deletes'[i] = deletes[i] /\ PlansCopy(new, copies'[j])
    BY <1>1, <1>5, <2>2
  <2>3. CASE PlansDeletion(new, deletes'[i]) /\ j \in DOMAIN copies /\ copies'[j] = copies[j]
    BY <1>1, <1>6, <2>3
  <2>4. ~(PlansDeletion(new, deletes'[i]) /\ PlansCopy(new, copies'[j]))
    BY <1>5, <1>6
  <2> QED BY <1>3, <2>1, <2>2, <2>3, <2>4
<1>13. ParentsFirst'
  BY <1>9 DEF ParentsFirst
<1>14. ChildrenFirst'
  <2>1. \A p : Named(was, p)' = Named(was, p)
    BY <1>0 DEF Named, Children, Exists
  <2> QED BY <1>0, <1>10, <1>11 DEF ChildrenFirst, Named, Children, Exists
<1>15. (\A i \in DOMAIN deletes, j \in DOMAIN copies : deletes[i].path \notin Below[copies[j].path])'
  BY <1>12
<1> QED BY <1>7, <1>8, <1>13, <1>14, <1>15 DEF PlanInv

LEMMA AdvanceCovered ==
    ASSUME Types, Steady, NEW new, Advances(new)
    PROVE  Covered'
<1>0. pc = "scan" /\ todo # <<>> /\ Replaces(new) /\ Plans(new) /\ DealsWith(new)
      /\ UNCHANGED <<src, was, delete_extraneous>>
  BY DEF Advances, trees, user
<1>1. /\ \A k \in DOMAIN new : k \in DOMAIN todo' /\ todo'[k] = new[k]
      /\ \A j \in DOMAIN todo : j # 1 => j + Len(new) - 1 \in DOMAIN todo' /\ todo'[j + Len(new) - 1] = todo[j]
      /\ V = todo[1]
  BY <1>0, Upcoming, Zenon
<1>2. /\ \A i \in DOMAIN copies : i \in DOMAIN copies' /\ copies'[i] = copies[i]
      /\ \A i \in DOMAIN deletes : i \in DOMAIN deletes' /\ deletes'[i] = deletes[i]
  BY <1>0, Planned, Zenon
<1>3. \A p \in Path : Settles(p) => Settles(p)'
  <2> SUFFICES ASSUME NEW p \in Path, Settles(p), ~Hidden(p) PROVE Settles(p)'
    BY DEF Settles, Hidden
  <2>1. Exists(src, p) => Same(p)' \/ \E i \in DOMAIN copies' : copies'[i].path = p
    BY <1>0, <1>2 DEF Settles, Same
  <2>2. delete_extraneous /\ Exists(was, p) /\ ~Exists(src, p) =>
            (\E i \in DOMAIN deletes' : deletes'[i].path = p) \/ Replaced(p)'
    BY <1>2 DEF Settles, Replaced
  <2> QED BY <1>0, <2>1, <2>2 DEF Settles, Exists
<1>4. ASSUME NEW p \in Path PROVE Settles(p)' \/ \E k \in DOMAIN todo' : p \in Span(todo'[k])
  <2>1. Settles(p) \/ \E k \in DOMAIN todo : p \in Span(todo[k])
    BY <1>0 DEF Steady, Covered
  <2>2. ASSUME NEW k \in DOMAIN todo, k # 1, p \in Span(todo[k]) PROVE \E m \in DOMAIN todo' : p \in Span(todo'[m])
    BY <1>1, <2>2
  <2>3. CASE p \in Span(V)
    BY <1>0, <1>1, <2>3 DEF DealsWith
  <2> QED BY <1>1, <1>3, <2>1, <2>2, <2>3
<1> QED BY <1>4 DEF Covered

\* A step of the scan that does as Advances says keeps the invariant.
LEMMA ScanAdvances ==
    ASSUME Types, Steady, NEW new, Advances(new)
    PROVE  Steady'
<1>1. PlanInv' /\ Covered' /\ Fresh' /\ PushedLast' /\ Apart' /\ (\A k \in DOMAIN todo : VisitOK(todo[k]))'
  BY AdvancePlan, AdvanceCovered, AdvanceFresh, AdvancePushed, AdvanceApart
<1>2. (dst = was)' /\ pc' = "scan"
  BY DEF Advances, Steady, Scan, ScanInv, trees, user
<1>3. ScanInv'
  BY <1>1, <1>2 DEF ScanInv
<1> QED BY <1>1, <1>2, <1>3 DEF Steady, Scan, Exec

\* When an entry has been dealt with.
LEMMA SettledNow ==
    ASSUME NEW p \in Path, UNCHANGED <<trees, user>>
    PROVE  /\ Exists(src, p) /\ Same(p) => Settles(p)'
           /\ Exists(src, p) /\ (\E i \in DOMAIN copies' : copies'[i].path = p) => Settles(p)'
           /\ ~Exists(src, p) /\ ~(delete_extraneous /\ Exists(was, p)) => Settles(p)'
           /\ ~Exists(src, p) /\ (\E i \in DOMAIN deletes' : deletes'[i].path = p) => Settles(p)'
           /\ ~Exists(src, p) /\ Replaced(p)' => Settles(p)'
           /\ Hidden(p) => Settles(p)'
<1>1. src' = src /\ was' = was /\ delete_extraneous' = delete_extraneous
  BY DEF trees, user
<1>2. Same(p) => Same(p)'
  BY <1>1 DEF Same
<1>3. Hidden(p) => Settles(p)'
  BY DEF Settles, Hidden
<1> QED BY <1>1, <1>2, <1>3 DEF Settles, Exists

\* An entry that a complete listing passes over settles itself, as does all
\* that lies below it.
LEMMA HiddenBelow ==
    ASSUME NEW c \in NotUtf8, NEW p \in Below[c]
    PROVE  Hidden(p) /\ c \in Path
BY PathAssumption DEF Hidden

\* What a listing shows of a directory that is not hidden is not hidden.
LEMMA ShownBelow ==
    ASSUME NEW c \in Path
    PROVE  /\ c \notin NotUtf8 /\ ~Hidden(Parent[c]) => ~Hidden(c)
           /\ ~Hidden(c) => ~Hidden(Parent[c])
<1>1. ASSUME NEW q \in NotUtf8, c \in Below[q], c # q PROVE Hidden(Parent[c])
  <2>1. q \in Entries
    BY PathAssumption DEF Entries
  <2> QED BY <1>1, <2>1, BelowParent DEF Hidden
<1>2. ASSUME NEW q \in NotUtf8, Parent[c] \in Below[q] PROVE c \in Below[q]
  <2>1. q \in Entries
    BY PathAssumption DEF Entries
  <2> QED BY <1>2, <2>1, BelowClosed DEF ClosedDown
<1> QED BY <1>1, <1>2 DEF Hidden

LEMMA RootShown == ~Hidden(Root)
BY RootAbove, PathAssumption DEF Hidden

\* Where nothing is, nothing lies below.
LEMMA NothingBelow ==
    ASSUME NEW t, Tree(t), NEW c \in Path, ~Exists(t, c), NEW p \in Below[c]
    PROVE  p \in Path /\ ~Exists(t, p)
<1>1. p \in Path /\ WellFormed(t) /\ t[c].kind # "dir"
  BY RootAbove DEF Tree, Exists
<1> QED BY <1>1, TreeBelow

\* A visit that leads to none, or to one of the same span.
LEMMA DividesFew ==
    ASSUME Types, NEW v \in Visits, VisitOK(v), Span(v) \subseteq Span(V), v.do # "push", V.do # "full"
    PROVE  Divides(<<>>) /\ Divides(<<v>>)
BY FewVisits DEF Divides

LEMMA DiffDirAdvances ==
    ASSUME Types, Steady, DiffDir, V.path \in Dirs(src) \cap Dirs(dst), ~disturbed'
    PROVE  \E new : Advances(new)
<1>0. pc = "scan" /\ todo # <<>> /\ V.do = "diff"
  BY DEF DiffDir, Visiting, V
<1>1. /\ VisitOK(V) /\ ~Hidden(V.path) /\ V.path \in Entries /\ dst = was
      /\ V.path \in Dirs(src) \cap Dirs(was) /\ Span(V) = Below[V.path]
  BY <1>0, Hand DEF VisitOK, Span
<1> DEFINE M == Named(src, V.path)   T == Named(dst, V.path)   L == Leftovers(M, T)
<1>2. \E new : /\ Replaces(new)
               /\ \A i \in DOMAIN new : DirVisit(new[i], M, T)
               /\ \A c \in M \cup L : \E i \in DOMAIN new : new[i].path = c
               /\ UNCHANGED <<trees, user, copies, deletes>> /\ pc' = "scan"
  <2>1. PICK mine \in SUBSET Named(src, V.path) : \E theirs \in SUBSET Named(dst, V.path) : \E new :
              /\ Replaces(new)
              /\ \A i \in DOMAIN new : DirVisit(new[i], mine, theirs)
              /\ \A c \in mine \cup Leftovers(mine, theirs) : \E i \in DOMAIN new : new[i].path = c
              /\ Lists(mine = Named(src, V.path) /\ theirs = Named(dst, V.path))
              /\ UNCHANGED <<trees, user, idx, opened, outcome, copies, deletes>> /\ pc' = "scan"
    BY DiffDirStep, Zenon
  <2>2. PICK theirs \in SUBSET Named(dst, V.path) : \E new :
              /\ Replaces(new)
              /\ \A i \in DOMAIN new : DirVisit(new[i], mine, theirs)
              /\ \A c \in mine \cup Leftovers(mine, theirs) : \E i \in DOMAIN new : new[i].path = c
              /\ Lists(mine = Named(src, V.path) /\ theirs = Named(dst, V.path))
              /\ UNCHANGED <<trees, user, idx, opened, outcome, copies, deletes>> /\ pc' = "scan"
    BY <2>1, Zenon
  <2>3. mine = M /\ theirs = T
    BY <2>2 DEF Lists
  <2> QED BY <2>2, <2>3
<1> HIDE DEF M, T, L
<1>3. PICK new : /\ Replaces(new)
                 /\ \A i \in DOMAIN new : DirVisit(new[i], M, T)
                 /\ \A c \in M \cup L : \E i \in DOMAIN new : new[i].path = c
                 /\ UNCHANGED <<trees, user, plan>> /\ pc' = "scan"
  BY <1>2 DEF plan
<1>4. Tree(src) /\ Tree(was)
  BY DEF Types
<1>5. ASSUME NEW i \in DOMAIN new
      PROVE  /\ new[i].path \in Path /\ Parent[new[i].path] = V.path
             /\ new[i].do \in {"entry", "full", "left"} /\ Span(new[i]) = Below[new[i].path]
             /\ VisitOK(new[i]) /\ Span(new[i]) \subseteq Span(V)
  <2> DEFINE c == new[i].path
  <2>1. \/ c \in M /\ new[i] = MineVisit(c, T)
        \/ c \in L /\ new[i] = LeftVisit(c)
    BY <1>3 DEF DirVisit, L
  <2> HIDE DEF c
  <2>2. c \in Path /\ Parent[c] = V.path
    BY <2>1 DEF Named, Children, Leftovers, M, T, L
  <2>3. src[c] \in Node /\ dst[c] \in Node /\ Absent \in Node /\ c \in Entries
    BY <2>2, TreeParts, Foreign, RootAbove DEF Types
  <2>8. c \notin NotUtf8
    BY <2>1 DEF Named, Leftovers, M, T, L
  <2>7. ~Hidden(c)
    BY <1>1, <2>2, <2>8, ShownBelow
  <2>4. new[i].do \in {"entry", "full", "left"} /\ VisitOK(new[i]) /\ new[i].path = c
    <3>1. CASE c \in M /\ new[i] = MineVisit(c, T)
      <4>0. Exists(src, c) /\ c \notin NotUtf8
        BY <3>1 DEF Named, Children, M
      <4>1. CASE c \in T
        <5>1. new[i].do = "entry" /\ new[i].path = c /\ new[i].meta = src[c] /\ new[i].old = dst[c]
          BY <2>3, <3>1, <4>1, VisitsTyped DEF MineVisit, Whats
        <5>2. Exists(dst, c)
          BY <4>1 DEF Named, Children, T
        <5> QED BY <1>1, <2>7, <4>0, <5>1, <5>2 DEF VisitOK, Exists
      <4>2. CASE c \notin T
        <5>1. new[i].do = "full" /\ new[i].path = c /\ new[i].meta = src[c] /\ new[i].old = Absent
          BY <2>3, <3>1, <4>2, VisitsTyped DEF MineVisit, Whats
        <5>2. ~Exists(was, c)
          BY <1>1, <2>2, <4>0, <4>2 DEF Named, Children, T
        <5>3. was[c] = Absent /\ Absent.kind = "none"
          BY <1>4, <2>2, <5>2, TreeParts DEF Exists
        <5> QED BY <2>7, <4>0, <5>1, <5>3 DEF VisitOK, Exists
      <4> QED BY <4>1, <4>2
    <3>2. CASE c \in L /\ new[i] = LeftVisit(c)
      <4>1. new[i].do = "left" /\ new[i].path = c
        BY <2>2, <3>2, EachTyped
      <4>2. delete_extraneous /\ Exists(was, c) /\ ~Exists(src, c)
        BY <1>1, <3>2 DEF Leftovers, Named, Children, M, T, L
      <4> QED BY <2>7, <4>1, <4>2 DEF VisitOK
    <3> QED BY <2>1, <3>1, <3>2
  <2>5. Span(new[i]) = Below[c]
    BY <2>4 DEF Span
  <2>6. Below[c] \subseteq Below[V.path]
    BY <2>2, ChildBelow
  <2> QED BY <1>1, <2>2, <2>4, <2>5, <2>6
<1>6. ASSUME NEW i \in DOMAIN new, NEW j \in DOMAIN new, i # j PROVE Span(new[i]) \cap Span(new[j]) = {}
  <2>1. new[i].path # new[j].path
    BY <1>3, <1>6 DEF Replaces, Distinct
  <2> QED BY <1>5, <2>1, SiblingsApart
<1>7. Divides(new)
  BY <1>0, <1>5, <1>6 DEF Divides
<1>8. ASSUME NEW p \in Path \cap Span(V) PROVE Settles(p)' \/ \E i \in DOMAIN new : p \in Span(new[i])
  <2>1. CASE p = V.path
    <3>1. src[p].kind = "dir" /\ was[p].kind = "dir"
      BY <1>1, <2>1, PathAssumption DEF Dirs
    <3>2. src[p] = Dir /\ was[p] = Dir
      BY <1>4, <3>1, TreeParts
    <3>3. Exists(src, p) /\ Same(p)
      BY <3>1, <3>2 DEF Exists, Same
    <3> QED BY <1>3, <3>3, SettledNow
  <2>2. CASE p # V.path
    <3>1. PICK c \in Path : Parent[c] = V.path /\ p \in Below[c]
      BY <1>1, <1>8, <2>2, BelowChild
    <3>2. CASE c \in M \cup L
      BY <1>3, <1>5, <3>1, <3>2
    <3>4. CASE c \in NotUtf8
      <4>1. Hidden(p)
        BY <3>1, <3>4, HiddenBelow
      <4> QED BY <1>3, <4>1, SettledNow
    <3>3. CASE c \notin M \cup L /\ c \notin NotUtf8
      <4>1. ~Exists(src, c) /\ ~(delete_extraneous /\ Exists(was, c))
        BY <1>1, <3>1, <3>3 DEF Named, Children, Leftovers, M, T, L
      <4>2. ~Exists(src, p) /\ (~Exists(was, c) => ~Exists(was, p))
        BY <1>4, <3>1, <4>1, NothingBelow
      <4> QED BY <1>3, <4>1, <4>2, SettledNow
    <3> QED BY <3>2, <3>3, <3>4
  <2> QED BY <2>1, <2>2
<1>9. DealsWith(new)
  BY <1>0, <1>8 DEF DealsWith
<1>10. Plans(new)
  BY <1>3 DEF Plans
<1>11. UNCHANGED <<trees, user>>
  BY <1>3
<1> QED BY <1>0, <1>3, <1>7, <1>9, <1>10, <1>11 DEF Advances

LEMMA DiffEntryAdvances ==
    ASSUME Types, Steady, DiffEntry
    PROVE  \E new : Advances(new)
<1>0. pc = "scan" /\ todo # <<>> /\ V.do = "entry" /\ V.path \in Path
  BY InHand DEF DiffEntry, Visiting, V
<1>1. /\ V \in Visits /\ dst = was /\ Span(V) = Below[V.path] /\ V.path \in Entries /\ ~Hidden(V.path)
      /\ Exists(src, V.path) /\ Exists(was, V.path) /\ V.meta = src[V.path] /\ V.old = was[V.path]
  BY <1>0, Hand DEF VisitOK, Span
<1>2. UNCHANGED <<trees, user>> /\ deletes' = deletes /\ pc' = "scan"
  BY DEF DiffEntry, Goto, ScanStep, Listing
<1>3. Tree(src) /\ Tree(was) /\ V.meta \in Node /\ V.old \in Node
  BY <1>0, InHand DEF Types
<1>4. CASE V.meta.kind # V.old.kind
  <2> DEFINE full == [V EXCEPT !.do = "full"]
  <2>1. First(<<full>>) /\ copies' = copies
    BY <1>4 DEF DiffEntry
  <2>2. /\ full \in Visits /\ full.do = "full" /\ full.path = V.path
        /\ full.meta = V.meta /\ full.old = V.old
    BY <1>1 DEF Visits, Whats
  <2> HIDE DEF full
  <2>3. VisitOK(full) /\ Span(full) = Span(V)
    BY <1>1, <1>4, <2>2 DEF VisitOK, Span
  <2>4. Divides(<<full>>) /\ Replaces(<<full>>) /\ DOMAIN <<full>> = {1} /\ <<full>>[1] = full
    BY <1>0, <2>1, <2>2, <2>3, DividesFew, FewVisits
  <2>5. DealsWith(<<full>>)
    BY <1>0, <2>3, <2>4 DEF DealsWith
  <2>6. Plans(<<full>>)
    BY <1>2, <2>1 DEF Plans, plan
  <2> QED BY <1>0, <1>2, <2>4, <2>5, <2>6 DEF Advances
<1>5. CASE V.meta.kind = "dir" /\ V.old.kind = "dir"
  <2> DEFINE diff == Visit("diff", V.path, V.meta, V.old)
  <2>1. First(<<diff>>) /\ copies' = copies
    BY <1>5 DEF DiffEntry
  <2>2. diff \in Visits /\ diff.do = "diff" /\ diff.path = V.path
    BY <1>1, <1>3, VisitsTyped DEF Whats
  <2> HIDE DEF diff
  <2>3. VisitOK(diff) /\ Span(diff) = Span(V)
    BY <1>0, <1>1, <1>5, <2>2 DEF VisitOK, Span, Dirs
  <2>4. Divides(<<diff>>) /\ Replaces(<<diff>>) /\ DOMAIN <<diff>> = {1} /\ <<diff>>[1] = diff
    BY <1>0, <2>1, <2>2, <2>3, DividesFew, FewVisits
  <2>5. DealsWith(<<diff>>)
    BY <1>0, <2>3, <2>4 DEF DealsWith
  <2>6. Plans(<<diff>>)
    BY <1>2, <2>1 DEF Plans, plan
  <2> QED BY <1>0, <1>2, <2>4, <2>5, <2>6 DEF Advances
<1>6. CASE V.meta.kind = "link" /\ V.old.kind = "link"
  <2> DEFINE c == Item(V.path, V.meta, V.old)
  <2>1. First(<<>>) /\ copies' = IF V.meta = V.old THEN copies ELSE Append(copies, c)
    BY <1>6 DEF DiffEntry
  <2>2. c.path = V.path /\ c.meta = V.meta /\ c.old = V.old /\ c \in Items
    BY <1>0, <1>3 DEF Item, Items
  <2> HIDE DEF c
  <2>3. ItemOK(c)
    BY <1>1, <1>6, <2>2 DEF ItemOK
  <2>4. Replaces(<<>>) /\ Divides(<<>>) /\ DOMAIN <<>> = {}
    <3>1. DOMAIN <<>> = {}
      BY <1>1, FewVisits
    <3> QED BY <1>1, <2>1, <3>1, FewVisits DEF Divides
  <2>5. Plans(<<>>)
    BY <1>0, <1>2, <2>1, <2>2, <2>3, <2>4 DEF Plans, PlansCopy, plan
  <2>6. ASSUME NEW p \in Path \cap Span(V) PROVE Settles(p)'
    <3>1. CASE p = V.path /\ V.meta = V.old
      <4>1. Same(p)
        BY <1>1, <3>1 DEF Same
      <4> QED BY <1>1, <1>2, <3>1, <4>1, SettledNow
    <3>2. CASE p = V.path /\ V.meta # V.old
      <4>1. copies \in Seq(Items) /\ copies' = Append(copies, c)
        BY <2>1, <3>2 DEF Types
      <4>2. Len(copies) + 1 \in DOMAIN copies' /\ copies'[Len(copies) + 1] = c
        BY <2>2, <4>1
      <4> QED BY <1>1, <1>2, <2>2, <3>2, <4>2, SettledNow
    <3>3. CASE p # V.path
      <4>1. ~Exists(src, p) /\ ~Exists(was, p)
        BY <1>0, <1>1, <1>3, <1>6, <2>6, <3>3, TreeBelow DEF Tree
      <4> QED BY <1>2, <4>1, SettledNow
    <3> QED BY <3>1, <3>2, <3>3
  <2>7. DealsWith(<<>>)
    BY <1>0, <2>6 DEF DealsWith
  <2> QED BY <1>0, <1>2, <2>4, <2>5, <2>7 DEF Advances
<1>8. CASE V.meta.kind = "other" /\ V.old.kind = "other"
  <2>1. First(<<>>) /\ copies' = copies
    BY <1>8 DEF DiffEntry
  <2>2. Replaces(<<>>) /\ Divides(<<>>) /\ DOMAIN <<>> = {}
    <3>1. DOMAIN <<>> = {}
      BY <1>1, FewVisits
    <3> QED BY <1>1, <2>1, <3>1, FewVisits DEF Divides
  <2>3. Plans(<<>>)
    BY <1>2, <2>1 DEF Plans, plan
  <2>4. ASSUME NEW p \in Path \cap Span(V) PROVE Settles(p)'
    <3>1. CASE p = V.path
      <4>1. Same(p)
        BY <1>1, <1>8, <3>1 DEF Same
      <4> QED BY <1>1, <1>2, <3>1, <4>1, SettledNow
    <3>2. CASE p # V.path
      <4>1. ~Exists(src, p) /\ ~Exists(was, p)
        BY <1>0, <1>1, <1>3, <1>8, <2>4, <3>2, TreeBelow DEF Tree
      <4> QED BY <1>2, <4>1, SettledNow
    <3> QED BY <3>1, <3>2
  <2>5. DealsWith(<<>>)
    BY <1>0, <2>4 DEF DealsWith
  <2> QED BY <1>0, <1>2, <2>2, <2>3, <2>5 DEF Advances
<1>7. V.meta.kind \in {"dir", "file", "link", "other"} /\ ~(V.meta.kind = "file" /\ V.old.kind = "file")
  BY <1>1, <1>3 DEF DiffEntry, Node, NodeKinds, Exists
<1> QED BY <1>4, <1>5, <1>6, <1>7, <1>8

LEMMA DiffFileAdvances ==
    ASSUME Types, Steady, DiffFile
    PROVE  \E new : Advances(new)
<1>0. pc = "scan" /\ todo # <<>> /\ V.do = "entry" /\ V.path \in Path /\ V.meta.kind = "file" /\ V.old.kind = "file"
  BY InHand DEF DiffFile, Visiting, V
<1>1. /\ V \in Visits /\ dst = was /\ Span(V) = Below[V.path] /\ V.path \in Entries /\ ~Hidden(V.path)
      /\ Exists(src, V.path) /\ Exists(was, V.path) /\ V.meta = src[V.path] /\ V.old = was[V.path]
  BY <1>0, Hand DEF VisitOK, Span
<1>2. Tree(src) /\ Tree(was) /\ V.meta \in Node /\ V.old \in Node
  BY <1>0, InHand DEF Types
<1> DEFINE hashes == Size(V.meta.data) = Size(V.old.data)
<1>3. PICK s \in IF hashes THEN QuickHash("src", SrcWhere, src, V.path) ELSE {"unasked"},
           d \in IF hashes THEN QuickHash("dst", DstWhere, dst, V.path) ELSE {"unasked"} :
          IF "error" \in {s, d} THEN ScanFails
          ELSE /\ First(<<>>)
               /\ copies' = IF FileNeedsCopy(s, d)
                            THEN Append(copies, Item(V.path, V.meta, Absent)) ELSE copies
               /\ Goto("scan") /\ deletes' = deletes /\ ScanStep
  BY DEF DiffFile
<1>4. /\ s # "error" /\ d # "error"
      /\ hashes => (s # "hash" => SrcWhere = "remote") /\ (d # "hash" => DstWhere = "remote")
  BY <1>0, <1>1, <1>3, ModeAssumption DEF QuickHash
<1>5. First(<<>>) /\ deletes' = deletes /\ pc' = "scan" /\ UNCHANGED <<trees, user>>
      /\ copies' = IF FileNeedsCopy(s, d) THEN Append(copies, Item(V.path, V.meta, Absent)) ELSE copies
  BY <1>3, <1>4 DEF Goto, ScanStep, Listing
<1> DEFINE c == Item(V.path, V.meta, Absent)
<1>6. c.path = V.path /\ c.meta = V.meta /\ c.old = Absent /\ c \in Items
  BY <1>0, <1>2, Foreign DEF Item, Items
<1>7. copies' = copies \/ copies' = Append(copies, c)
  BY <1>5
<1>8. ~FileNeedsCopy(s, d) => Same(V.path)
  <2> SUFFICES ASSUME ~FileNeedsCopy(s, d) PROVE Same(V.path)
    OBVIOUS
  <2>1. hashes
    BY DEF FileNeedsCopy
  <2>2. CASE s = "hash" /\ d = "hash"
    <3>1. src[V.path].data = dst[V.path].data
      BY <2>1, <2>2 DEF FileNeedsCopy
    <3> QED BY <1>0, <1>1, <3>1 DEF Same
  <2>3. CASE ~(s = "hash" /\ d = "hash")
    <3>1. ~MtimeLooksChanged(V.meta.time, V.old.time)
      BY <2>1, <2>3 DEF FileNeedsCopy
    <3>2. "remote" \in {SrcWhere, DstWhere}
      BY <1>4, <2>1, <2>3
    <3> QED BY <1>0, <1>1, <2>1, <3>1, <3>2 DEF Same
  <2> QED BY <2>2, <2>3
<1>9. FileNeedsCopy(s, d) => copies' = Append(copies, c)
  BY <1>5
<1> HIDE DEF c, hashes
<1>10. ItemOK(c)
  BY <1>0, <1>1, <1>6 DEF ItemOK
<1>11. Replaces(<<>>) /\ Divides(<<>>) /\ DOMAIN <<>> = {}
  <2>1. DOMAIN <<>> = {}
    BY <1>1, FewVisits
  <2> QED BY <1>1, <1>5, <2>1, FewVisits DEF Divides
<1>12. Plans(<<>>)
  BY <1>0, <1>5, <1>6, <1>7, <1>10, <1>11 DEF Plans, PlansCopy, plan
<1>13. ASSUME NEW p \in Path \cap Span(V) PROVE Settles(p)'
  <2>1. CASE p = V.path /\ Same(p)
    BY <1>1, <1>5, <2>1, SettledNow
  <2>2. CASE p = V.path /\ copies' = Append(copies, c)
    <3>1. copies \in Seq(Items)
      BY DEF Types
    <3>2. Len(copies) + 1 \in DOMAIN copies' /\ copies'[Len(copies) + 1] = c
      BY <1>6, <2>2, <3>1
    <3> QED BY <1>1, <1>5, <1>6, <2>2, <3>2, SettledNow
  <2>3. CASE p # V.path
    <3>1. ~Exists(src, p) /\ ~Exists(was, p)
      BY <1>0, <1>1, <1>2, <1>13, <2>3, TreeBelow DEF Tree
    <3> QED BY <1>5, <3>1, SettledNow
  <2> QED BY <1>8, <1>9, <2>1, <2>2, <2>3
<1>14. DealsWith(<<>>)
  BY <1>0, <1>13 DEF DealsWith
<1> QED BY <1>0, <1>5, <1>11, <1>12, <1>14 DEF Advances

LEMMA PushFullCopyAdvances ==
    ASSUME Types, Steady, PushFullCopy, ~disturbed'
    PROVE  \E new : Advances(new)
<1>0. pc = "scan" /\ todo # <<>> /\ V.do = "full" /\ V.path \in Path
  BY InHand DEF PushFullCopy, Visiting, V
<1>1. /\ V \in Visits /\ dst = was /\ Span(V) = Below[V.path] /\ V.path \in Entries /\ ~Hidden(V.path)
      /\ Exists(src, V.path) /\ V.meta = src[V.path] /\ V.old = was[V.path] /\ V.meta.kind # V.old.kind
  BY <1>0, Hand DEF VisitOK, Span
<1>2. Tree(src) /\ Tree(was) /\ V.meta \in Node /\ V.old \in Node
  BY <1>0, InHand DEF Types
<1>3. ~(V.meta.kind = "dir" /\ V.path \notin Dirs(src))
  BY <1>0, <1>1 DEF Dirs
<1> DEFINE S == IF V.meta.kind = "dir" THEN Named(src, V.path) ELSE {}
           c == Item(V.path, V.meta, V.old)
<1>4. PICK new : /\ Replaces(new)
                 /\ \A i \in DOMAIN new : new[i].path \in S /\ new[i] = FullVisit(new[i].path)
                 /\ \A k \in S : \E i \in DOMAIN new : new[i].path = k
                 /\ UNCHANGED <<trees, user, deletes>> /\ pc' = "scan" /\ copies' = Append(copies, c)
  <2>1. PICK mine \in SUBSET S : \E new :
              /\ Replaces(new)
              /\ \A i \in DOMAIN new : new[i].path \in mine /\ new[i] = FullVisit(new[i].path)
              /\ \A k \in mine : \E i \in DOMAIN new : new[i].path = k
              /\ Lists(mine = S)
              /\ UNCHANGED <<trees, user, idx, opened, outcome, deletes>> /\ pc' = "scan"
              /\ copies' = Append(copies, c)
    BY <1>3, PushFullCopyStep, Zenon
  <2> HIDE DEF S, c
  <2>2. mine = S
    BY <2>1 DEF Lists
  <2> QED BY <2>1, <2>2
<1>5. deletes' = deletes /\ pc' = "scan" /\ UNCHANGED <<trees, user>> /\ copies' = Append(copies, c)
  BY <1>4
<1>6. c.path = V.path /\ c.meta = V.meta /\ c.old = V.old /\ c \in Items
  BY <1>0, <1>2 DEF Item, Items
<1> HIDE DEF c
<1>7. ItemOK(c)
  BY <1>1, <1>6 DEF ItemOK
<1>8. ASSUME NEW i \in DOMAIN new
      PROVE  /\ new[i].path \in Path /\ Parent[new[i].path] = V.path /\ new[i].do = "full"
             /\ Span(new[i]) = Below[new[i].path] /\ VisitOK(new[i])
             /\ Span(new[i]) \subseteq Span(V) /\ V.path \notin Span(new[i])
  <2> DEFINE k == new[i].path
  <2>1. k \in Path /\ Parent[k] = V.path /\ Exists(src, k) /\ new[i] = FullVisit(k) /\ V.meta.kind = "dir"
    BY <1>4 DEF Named, Children
  <2>9. k \notin NotUtf8
    BY <1>4 DEF Named
  <2> HIDE DEF k
  <2>2. ~Exists(was, k)
    <3>1. V.path \notin Dirs(was)
      BY <1>0, <1>1, <2>1, PathAssumption DEF Dirs
    <3> QED BY <1>2, <2>1, <3>1, TreeParts
  <2>3. was[k] = Absent
    BY <1>2, <2>1, <2>2, TreeParts DEF Exists
  <2>4. new[i].do = "full" /\ new[i].path = k /\ new[i].meta = src[k] /\ new[i].old = Absent
    <3>1. src[k] \in Node /\ Absent \in Node /\ k \in Entries
      BY <1>2, <2>1, TreeParts, Foreign, RootAbove
    <3> QED BY <2>1, <3>1, VisitsTyped DEF FullVisit, Whats
  <2>8. ~Hidden(k)
    BY <1>1, <2>1, <2>9, ShownBelow
  <2>5. VisitOK(new[i])
    BY <2>1, <2>3, <2>4, <2>8, Foreign DEF VisitOK, Exists
  <2>6. Span(new[i]) = Below[k]
    BY <2>4 DEF Span
  <2>7. Below[k] \subseteq Below[V.path] /\ V.path \notin Below[k]
    BY <2>1, ChildBelow
  <2> QED BY <1>1, <2>1, <2>4, <2>5, <2>6, <2>7
<1>9. ASSUME NEW i \in DOMAIN new, NEW j \in DOMAIN new, i # j PROVE Span(new[i]) \cap Span(new[j]) = {}
  <2>1. new[i].path # new[j].path
    BY <1>4, <1>9 DEF Replaces, Distinct
  <2> QED BY <1>8, <2>1, SiblingsApart
<1>10. Divides(new)
  BY <1>8, <1>9 DEF Divides
<1>11. PlansCopy(new, c)
  BY <1>0, <1>5, <1>6, <1>7, <1>8 DEF PlansCopy
<1>12. Len(copies) + 1 \in DOMAIN copies' /\ copies'[Len(copies) + 1] = c
  <2>1. copies \in Seq(Items)
    BY DEF Types
  <2> QED BY <1>5, <1>6, <2>1
<1>13. ASSUME NEW p \in Path \cap Span(V) PROVE Settles(p)' \/ \E i \in DOMAIN new : p \in Span(new[i])
  <2>1. CASE p = V.path
    BY <1>1, <1>5, <1>6, <1>12, <2>1, SettledNow
  <2>2. CASE p # V.path
    <3>1. PICK k \in Path : Parent[k] = V.path /\ p \in Below[k]
      BY <1>1, <1>13, <2>2, BelowChild
    <3>2. CASE k \in S
      BY <1>4, <1>8, <3>1, <3>2
    <3>4. CASE k \in NotUtf8
      <4>1. Hidden(p)
        BY <3>1, <3>4, HiddenBelow
      <4> QED BY <1>5, <4>1, SettledNow
    <3>3. CASE k \notin S /\ k \notin NotUtf8
      <4>1. ~Exists(src, k)
        <5>1. CASE V.meta.kind = "dir"
          BY <3>1, <3>3, <5>1 DEF Named, Children
        <5>2. CASE V.meta.kind # "dir"
          <6>1. V.path \notin Dirs(src)
            BY <1>0, <1>1, <5>2, PathAssumption DEF Dirs
          <6> QED BY <1>2, <3>1, <6>1, TreeParts
        <5> QED BY <5>1, <5>2
      <4>2. ~Exists(src, p)
        BY <1>2, <3>1, <4>1, NothingBelow
      <4>3. CASE ~Exists(was, p)
        BY <1>5, <4>2, <4>3, SettledNow
      <4>4. CASE Exists(was, p)
        <5>1. was[V.path].kind = "dir"
          BY <1>0, <1>1, <1>2, <1>13, <2>2, <4>4, TreeBelow DEF Tree
        <5>2. c.old # Absent
          BY <1>1, <1>6, <5>1, Foreign
        <5>3. Replaced(p)'
          BY <1>1, <1>6, <1>12, <1>13, <5>2 DEF Replaced
        <5> QED BY <1>5, <4>2, <5>3, SettledNow
      <4> QED BY <4>3, <4>4
    <3> QED BY <3>2, <3>3, <3>4
  <2> QED BY <2>1, <2>2
<1>14. DealsWith(new)
  BY <1>0, <1>13 DEF DealsWith
<1>15. Plans(new)
  BY <1>11 DEF Plans
<1> QED BY <1>0, <1>4, <1>5, <1>10, <1>14, <1>15 DEF Advances

LEMMA WalkForDeleteAdvances ==
    ASSUME Types, Steady, WalkForDelete, ~disturbed'
    PROVE  \E new : Advances(new)
<1>0. pc = "scan" /\ todo # <<>> /\ V.do = "left" /\ V.path \in Path
  BY InHand DEF WalkForDelete, Visiting, V
<1>1. /\ V \in Visits /\ dst = was /\ Span(V) = Below[V.path] /\ V.path \in Entries /\ ~Hidden(V.path)
      /\ delete_extraneous /\ Exists(was, V.path) /\ ~Exists(src, V.path)
  BY <1>0, Hand DEF VisitOK, Span
<1>2. Tree(src) /\ Tree(was)
  BY DEF Types
<1> DEFINE last == Visit("push", V.path, Absent, dst[V.path])   S == Named(dst, V.path)
<1>4. PICK new : /\ Replaces(new) /\ new # <<>> /\ Len(new) \in DOMAIN new /\ new[Len(new)] = last
                 /\ \A i \in DOMAIN new :
                       \/ /\ i < Len(new) /\ new[i].path \in S
                          /\ new[i] = LeftVisit(new[i].path)
                       \/ i = Len(new)
                 /\ \A c \in S : \E i \in DOMAIN new : i < Len(new) /\ new[i].path = c
                 /\ UNCHANGED <<trees, user, copies, deletes>> /\ pc' = "scan"
  <2>0. Exists(dst, V.path)
    BY <1>1
  <2>1. PICK theirs \in SUBSET S : \E new :
              /\ Replaces(new) /\ new # <<>> /\ Len(new) \in DOMAIN new
              /\ new[Len(new)] = last
              /\ \A i \in DOMAIN new :
                    \/ /\ i < Len(new) /\ new[i].path \in theirs
                       /\ new[i] = LeftVisit(new[i].path)
                    \/ i = Len(new)
              /\ \A c \in theirs : \E i \in DOMAIN new : i < Len(new) /\ new[i].path = c
              /\ Lists(theirs = S)
              /\ UNCHANGED <<trees, user, idx, opened, outcome, copies, deletes>> /\ pc' = "scan"
    BY <2>0, WalkForDeleteStep, Zenon
  <2> HIDE DEF S, last
  <2>2. theirs = S
    BY <2>1 DEF Lists
  <2> QED BY <2>1, <2>2
<1>3. UNCHANGED <<trees, user, plan>> /\ pc' = "scan"
  BY <1>4 DEF plan
<1>5. last.do = "push" /\ last.path = V.path /\ last.old = was[V.path]
  <2>1. dst[V.path] \in Node /\ Absent \in Node
    BY <1>0, TreeParts, Foreign DEF Types
  <2> QED BY <1>0, <1>1, <2>1, VisitsTyped DEF Whats
<1> HIDE DEF last, S
<1>6. VisitOK(last) /\ Span(last) = {V.path} /\ Span(last) \subseteq Span(V)
  BY <1>1, <1>5, BelowClosed DEF VisitOK, Span
<1>7. ASSUME NEW i \in DOMAIN new, i # Len(new)
      PROVE  /\ i < Len(new) /\ new[i].path \in Path /\ Parent[new[i].path] = V.path /\ new[i].do = "left"
             /\ Span(new[i]) = Below[new[i].path] /\ VisitOK(new[i])
             /\ Span(new[i]) \subseteq Span(V) /\ V.path \notin Span(new[i])
  <2> DEFINE k == new[i].path
  <2>1. /\ k \in Path /\ Parent[k] = V.path /\ Exists(was, k) /\ new[i] = LeftVisit(k) /\ i < Len(new)
        /\ k \notin NotUtf8
    BY <1>1, <1>4, <1>7 DEF Named, Children, S
  <2> HIDE DEF k
  <2>2. ~Exists(src, k)
    <3>1. k \in Below[V.path]
      BY <2>1, ChildBelow
    <3> QED BY <1>0, <1>1, <1>2, <3>1, NothingBelow
  <2>3. new[i].do = "left" /\ new[i].path = k
    BY <2>1, EachTyped
  <2>4. VisitOK(new[i])
    BY <1>1, <2>1, <2>2, <2>3, ShownBelow DEF VisitOK
  <2>5. Span(new[i]) = Below[k]
    BY <2>3 DEF Span
  <2>6. Below[k] \subseteq Below[V.path] /\ V.path \notin Below[k]
    BY <2>1, ChildBelow
  <2> QED BY <1>1, <2>1, <2>3, <2>4, <2>5, <2>6
<1>8. ASSUME NEW i \in DOMAIN new, NEW j \in DOMAIN new, i # j PROVE Span(new[i]) \cap Span(new[j]) = {}
  <2>1. new[i].path # new[j].path
    BY <1>4, <1>8 DEF Replaces, Distinct
  <2>2. CASE i = Len(new)
    BY <1>4, <1>6, <1>7, <1>8, <2>2
  <2>3. CASE j = Len(new)
    BY <1>4, <1>6, <1>7, <1>8, <2>3
  <2>4. CASE i # Len(new) /\ j # Len(new)
    BY <1>7, <2>1, <2>4, SiblingsApart
  <2> QED BY <2>2, <2>3, <2>4
<1>9. ASSUME NEW k \in DOMAIN new, new[k].do = "push", NEW c \in Named(was, new[k].path)
      PROVE  \E m \in DOMAIN new : m < k /\ new[m].do \in {"left", "push"} /\ new[m].path = c
  <2>1. k = Len(new)
    BY <1>7, <1>9
  <2>2. c \in S
    BY <1>1, <1>4, <1>5, <1>9, <2>1 DEF S
  <2>3. PICK m \in DOMAIN new : m < Len(new) /\ new[m].path = c
    BY <1>4, <2>2
  <2>4. m # Len(new)
    <3>1. Len(new) \in Nat
      BY <1>4 DEF Replaces
    <3> QED BY <2>3, <3>1
  <2> QED BY <1>7, <2>1, <2>3, <2>4
<1>10. Divides(new)
  <2>1. \A i \in DOMAIN new : VisitOK(new[i]) /\ Span(new[i]) \subseteq Span(V)
    BY <1>4, <1>6, <1>7
  <2> QED BY <1>0, <1>8, <1>9, <2>1 DEF Divides
<1>11. ASSUME NEW p \in Path \cap Span(V) PROVE Settles(p)' \/ \E i \in DOMAIN new : p \in Span(new[i])
  <2>1. CASE p = V.path
    BY <1>4, <1>6, <2>1
  <2>2. CASE p # V.path
    <3>1. PICK c \in Path : Parent[c] = V.path /\ p \in Below[c]
      BY <1>1, <1>11, <2>2, BelowChild
    <3>4. CASE c \in NotUtf8
      <4>1. Hidden(p)
        BY <3>1, <3>4, HiddenBelow
      <4> QED BY <1>3, <4>1, SettledNow
    <3>2. CASE Exists(was, c) /\ c \notin NotUtf8
      <4>1. c \in S
        BY <1>1, <3>1, <3>2 DEF Named, Children, S
      <4>2. PICK i \in DOMAIN new : i < Len(new) /\ new[i].path = c
        BY <1>4, <4>1
      <4>3. i # Len(new)
        <5>1. Len(new) \in Nat
          BY <1>4 DEF Replaces
        <5> QED BY <4>2, <5>1
      <4> QED BY <1>7, <3>1, <4>2, <4>3
    <3>3. CASE ~Exists(was, c)
      <4>1. ~Exists(was, p) /\ ~Exists(src, p)
        BY <1>0, <1>1, <1>2, <1>11, <3>1, <3>3, NothingBelow
      <4> QED BY <1>3, <4>1, SettledNow
    <3> QED BY <3>2, <3>3, <3>4
  <2> QED BY <2>1, <2>2
<1>12. DealsWith(new)
  BY <1>4, <1>5, <1>11 DEF DealsWith
<1>13. Plans(new)
  BY <1>3 DEF Plans
<1>14. UNCHANGED <<trees, user>>
  BY <1>3
<1> QED BY <1>0, <1>3, <1>4, <1>10, <1>12, <1>13, <1>14 DEF Advances

LEMMA PushDeleteAdvances ==
    ASSUME Types, Steady, PushDelete
    PROVE  \E new : Advances(new)
<1>0. pc = "scan" /\ todo # <<>> /\ V.do = "push" /\ V.path \in Path
  BY InHand DEF PushDelete, Visiting, V
<1>1. /\ V \in Visits /\ dst = was /\ Span(V) = {V.path} /\ V.old = was[V.path]
      /\ delete_extraneous /\ Exists(was, V.path) /\ ~Exists(src, V.path)
  BY <1>0, Hand DEF VisitOK, Span
<1> DEFINE d == [path |-> V.path, kind |-> V.old.kind]
<1>2. First(<<>>) /\ UNCHANGED <<trees, user, copies>> /\ pc' = "scan" /\ deletes' = Append(deletes, d)
  BY DEF PushDelete, Goto, ScanStep, Listing
<1>3. d.path = V.path /\ d.kind = V.old.kind
  OBVIOUS
<1> HIDE DEF d
<1>4. DeletionOK(d)
  BY <1>1, <1>3 DEF DeletionOK
<1>5. Replaces(<<>>) /\ Divides(<<>>)
  <2>1. DOMAIN <<>> = {}
    BY <1>1, FewVisits
  <2> QED BY <1>1, <1>2, <2>1, FewVisits DEF Divides
<1>6. Plans(<<>>)
  BY <1>0, <1>2, <1>3, <1>4 DEF Plans, PlansDeletion
<1>7. Len(deletes) + 1 \in DOMAIN deletes' /\ deletes'[Len(deletes) + 1] = d
  <2>1. deletes \in Seq(Deletions)
    BY DEF Types
  <2> QED BY <1>2, <2>1
<1>8. DealsWith(<<>>)
  <2>1. ASSUME NEW p \in Path \cap Span(V) PROVE Settles(p)'
    BY <1>0, <1>1, <1>2, <1>3, <1>7, <2>1, SettledNow
  <2> QED BY <1>3, <1>7, <2>1 DEF DealsWith
<1>9. UNCHANGED <<trees, user>>
  BY <1>2
<1> QED BY <1>0, <1>2, <1>5, <1>6, <1>8, <1>9 DEF Advances

-----------------------------------------------------------------------------
(* The destination while the plan is executed.                             *)

\* No path is copied twice.
LEMMA CopiedOnce ==
    ASSUME Types, PlanInv, NEW i \in DOMAIN copies, NEW j \in DOMAIN copies, copies[i].path = copies[j].path
    PROVE  i = j
<1>1. i \in Nat /\ j \in Nat /\ copies[i].path \in Path
  BY InHand
<1>2. copies[i].path \in Below[copies[i].path]
  BY <1>1, BelowClosed, RootAbove
<1>3. ~(i < j) /\ ~(j < i)
  BY <1>2 DEF PlanInv, ParentsFirst
<1> QED BY <1>1, <1>3

\* What the source has below an entry that is replaced, the destination had not.
LEMMA BelowReplaced ==
    ASSUME Types, PlanInv, NEW i \in DOMAIN copies, copies[i].old # Absent,
           NEW p \in Below[copies[i].path], p # copies[i].path
    PROVE  p \in Path /\ (Exists(src, p) => was[p] = Absent)
<1> DEFINE q == copies[i].path
<1>1. q \in Path /\ ItemOK(copies[i])
  BY InHand DEF PlanInv
<1>2. p \in Path
  BY <1>1, RootAbove
<1>3. Tree(src) /\ Tree(was)
  BY DEF Types
<1> SUFFICES ASSUME Exists(src, p) PROVE was[p] = Absent
  BY <1>2
<1>4. src[q].kind = "dir"
  BY <1>1, <1>3, TreeBelow DEF Tree
<1>5. was[q].kind # "dir"
  BY <1>1, <1>4 DEF ItemOK
<1>6. ~Exists(was, p)
  BY <1>1, <1>3, <1>5, TreeBelow DEF Tree
<1> QED BY <1>2, <1>3, <1>6, TreeParts DEF Exists

\* What both sides had is only cleared to be replaced itself.
LEMMA ClearedItself ==
    ASSUME Types, PlanInv, NEW p \in Path, Exists(src, p), Exists(was, p), Cleared(p)
    PROVE  \E i \in DOMAIN copies : Started(i) /\ copies[i].path = p
<1>1. PICK i \in DOMAIN copies : Started(i) /\ copies[i].old # Absent /\ p \in Below[copies[i].path]
  BY DEF Cleared
<1>2. was[p] # Absent
  BY Foreign DEF Exists
<1> QED BY <1>1, <1>2, BelowReplaced

\* What holds while the copies are executed.
LEMMA Copying ==
    ASSUME Types, Steady, pc \in {"copy", "apply", "pump"}
    PROVE  /\ PlanInv /\ Covered /\ ExecInv /\ pc \in Exec /\ todo = <<>>
           /\ \A p \in Path : Settles(p) /\ ~Deleted(p)
           /\ \A i : (Finished(i) <=> i < idx) /\ (Started(i) <=> i < idx \/ (i = idx /\ pc # "copy"))
           /\ idx \in Nat
<1>1. PlanInv /\ Covered /\ ExecInv /\ pc \in Exec
  BY DEF Steady, Exec
<1>2. todo = <<>>
  BY <1>1 DEF ExecInv
<1>3. \A p \in Path : Settles(p) /\ ~Deleted(p)
  BY <1>1, <1>2 DEF Covered, Deleted
<1>4. idx \in Nat
  BY DEF Types
<1> QED BY <1>1, <1>2, <1>3, <1>4 DEF Finished, Started

\* The directory of the next item is there.
LEMMA ParentReady ==
    ASSUME Types, Steady, pc \in {"copy", "apply"}, idx \in DOMAIN copies
    PROVE  Parent[C.path] \in Dirs(dst)
<1>0. /\ PlanInv /\ Covered /\ ExecInv
      /\ \A p \in Path : Settles(p) /\ ~Deleted(p)
      /\ \A i : (Finished(i) <=> i < idx) /\ (Started(i) <=> i < idx \/ (i = idx /\ pc # "copy"))
      /\ idx \in Nat
  BY Copying
<1> DEFINE P == Parent[C.path]
<1>1. C.path \in Path /\ Exists(src, C.path) /\ C = copies[idx] /\ ~Hidden(C.path)
  BY <1>0, InHand DEF PlanInv, ItemOK, C
<1>2. Tree(src) /\ Tree(dst) /\ Tree(was)
  BY DEF Types
<1>3. P \in Dirs(src)
  BY <1>1, <1>2, TreeParts
<1>4. CASE P = Root
  BY <1>4 DEF Dirs
<1>5. CASE P # Root
  <2>1. P \in Path /\ src[P].kind = "dir" /\ Exists(src, P)
    BY <1>3, <1>5 DEF Dirs, Exists
  <2>2. P # C.path /\ C.path \in Below[P]
    BY <1>1, ChildBelow
  <2>3. ASSUME NEW i \in DOMAIN copies, copies[i].path = P PROVE i < idx
    <3>1. i \in Nat /\ i # idx
      BY <1>1, <2>2, <2>3, InHand
    <3>2. ~(idx < i)
      BY <1>0, <1>1, <2>2, <2>3 DEF PlanInv, ParentsFirst
    <3> QED BY <1>0, <3>1, <3>2
  <2>4. ASSUME NEW i \in DOMAIN copies, copies[i].path = P PROVE dst[P].kind = "dir"
    <3>1. Finished(i)
      BY <1>0, <2>3, <2>4
    <3>2. copies[i].meta = src[P]
      BY <1>0, <2>4 DEF PlanInv, ItemOK
    <3> QED BY <1>0, <2>1, <2>4, <3>1, <3>2 DEF ExecInv, Renewed, Made
  <2>5. ASSUME \A i \in DOMAIN copies : copies[i].path # P PROVE dst[P].kind = "dir"
    <3>1. was[P].kind = "dir" /\ Exists(was, P)
      BY <1>0, <1>1, <2>1, <2>5, ShownBelow DEF Settles, Same, Exists
    <3>2. ~Written(P)
      BY <2>5 DEF Written
    <3>3. ~Cleared(P)
      BY <1>0, <2>1, <2>5, <3>1, ClearedItself
    <3> QED BY <1>0, <2>1, <3>1, <3>2, <3>3 DEF ExecInv
  <2>6. dst[P].kind = "dir"
    BY <2>4, <2>5
  <2> QED BY <2>1, <2>6 DEF Dirs
<1> QED BY <1>4, <1>5

\* The next item: as the scan saw it until its old entry is removed.
LEMMA NextItemReady ==
    ASSUME Types, Steady, pc \in {"copy", "apply"}, idx \in DOMAIN copies
    PROVE  /\ C = copies[idx] /\ C.path \in Path /\ ItemOK(C) /\ Exists(src, C.path) /\ C.meta = src[C.path]
           /\ ~Written(C.path)
           /\ pc = "copy" => dst[C.path] = was[C.path]
           /\ pc = "apply" => \/ dst[C.path] = Absent
                              \/ C.meta.kind = "file" /\ dst[C.path].kind = "file"
<1>0. /\ PlanInv /\ Covered /\ ExecInv
      /\ \A p \in Path : Settles(p) /\ ~Deleted(p)
      /\ \A i : (Finished(i) <=> i < idx) /\ (Started(i) <=> i < idx \/ (i = idx /\ pc # "copy"))
      /\ idx \in Nat
  BY Copying
<1>1. C = copies[idx] /\ C.path \in Path /\ ItemOK(C) /\ Exists(src, C.path) /\ C.meta = src[C.path]
  BY <1>0, InHand DEF PlanInv, ItemOK, C
<1>2. ~Written(C.path)
  <2> SUFFICES ASSUME NEW i \in DOMAIN copies, copies[i].path = C.path, Finished(i) PROVE FALSE
    BY DEF Written
  <2>1. i = idx
    BY <1>0, <1>1, CopiedOnce
  <2> QED BY <1>0, <2>1
<1>3. dst[C.path] = IF Cleared(C.path) THEN Absent ELSE was[C.path]
  BY <1>0, <1>1, <1>2 DEF ExecInv
<1>4. ASSUME pc = "copy" PROVE dst[C.path] = was[C.path]
  <2>1. CASE Cleared(C.path)
    <3>1. PICK i \in DOMAIN copies : Started(i) /\ copies[i].old # Absent /\ C.path \in Below[copies[i].path]
      BY <2>1 DEF Cleared
    <3>2. copies[i].path # C.path
      BY <1>0, <1>1, <1>4, <3>1, CopiedOnce
    <3> QED BY <1>0, <1>1, <1>3, <2>1, <3>1, <3>2, BelowReplaced
  <2> QED BY <1>3, <2>1
<1>5. ASSUME pc = "apply"
      PROVE  dst[C.path] = Absent \/ (C.meta.kind = "file" /\ dst[C.path].kind = "file")
  <2>1. CASE C.old # Absent
    <3>1. Started(idx) /\ C.path \in Below[C.path]
      BY <1>0, <1>1, <1>5, BelowClosed, RootAbove
    <3>2. Cleared(C.path)
      BY <1>1, <2>1, <3>1 DEF Cleared
    <3> QED BY <1>3, <3>2
  <2>2. CASE C.old = Absent
    BY <1>1, <1>3, <2>2 DEF ItemOK
  <2> QED BY <2>1, <2>2
<1> QED BY <1>1, <1>2, <1>4, <1>5

\* An item that has not been started is as it was.
LEMMA Untouched ==
    ASSUME Types, Steady, pc \in {"copy", "apply", "pump"}, NEW i \in DOMAIN copies, ~Started(i)
    PROVE  Intact(copies[i].path)
<1>0. /\ PlanInv /\ Covered /\ ExecInv
      /\ \A p \in Path : Settles(p) /\ ~Deleted(p)
      /\ \A j : (Finished(j) <=> j < idx) /\ (Started(j) <=> j < idx \/ (j = idx /\ pc # "copy"))
      /\ idx \in Nat
  BY Copying
<1> DEFINE p == copies[i].path
<1>1. p \in Path /\ Exists(src, p) /\ i \in Nat /\ Below[p] \subseteq Path /\ p \in Entries
  BY <1>0, InHand, RootAbove DEF PlanInv, ItemOK
<1>2. \A j \in DOMAIN copies : Started(j) => j < i
  BY <1>0, <1>1, InHand
<1>3. \A j \in DOMAIN copies : Started(j) => copies[j].path \notin Below[p]
  BY <1>0, <1>2 DEF PlanInv, ParentsFirst
<1> SUFFICES ASSUME NEW q \in Below[p] PROVE dst[q] = was[q]
  BY DEF Intact
<1>4. ~Written(q)
  BY <1>0, <1>3 DEF Written
<1>5. CASE Cleared(q)
  <2>1. PICK j \in DOMAIN copies : Started(j) /\ copies[j].old # Absent /\ q \in Below[copies[j].path]
    BY <1>5 DEF Cleared
  <2>2. copies[j].path \in Path /\ copies[j].path \in Entries /\ copies[j].path \notin Below[p]
    BY <1>3, <2>1, InHand, RootAbove
  <2>3. p \in Below[copies[j].path] /\ p # copies[j].path
    BY <1>1, <2>1, <2>2, BelowNested, BelowClosed
  <2>4. was[p] = Absent
    BY <1>0, <1>1, <2>1, <2>3, BelowReplaced
  <2>5. ~Exists(was, q)
    BY <1>1, <2>4, NothingBelow, Foreign DEF Types, Exists
  <2>6. was[q] = Absent
    BY <1>1, <2>5, TreeParts DEF Types, Exists
  <2> QED BY <1>0, <1>1, <1>4, <1>5, <2>6 DEF ExecInv
<1>6. CASE ~Cleared(q)
  BY <1>0, <1>1, <1>4, <1>6 DEF ExecInv
<1> QED BY <1>5, <1>6

-----------------------------------------------------------------------------
(* The execution keeps the invariant.                                      *)

LEMMA PlanStays ==
    ASSUME UNCHANGED <<src, user, scan>>, PlanInv, Covered
    PROVE  PlanInv' /\ Covered'
<1>1. UNCHANGED <<src, was, delete_extraneous, todo, copies, deletes>>
  BY DEF user, scan, plan
<1>2. PlanInv'
  BY <1>1 DEF PlanInv, ItemOK, DeletionOK, ParentsFirst, ChildrenFirst, Named, Children, Exists, Hidden
<1>3. \A p \in Path : Settles(p) => Settles(p)'
  BY <1>1 DEF Settles, Same, Replaced, Exists, Hidden
<1>4. Covered'
  BY <1>1, <1>3 DEF Covered
<1> QED BY <1>2, <1>4

\* An item has been applied.
LEMMA ItemDone ==
    ASSUME Types, Steady, pc \in {"apply", "pump"}, idx \in DOMAIN copies, UNCHANGED <<src, user, scan>>,
           NEW n, dst' = [dst EXCEPT ![C.path] = n], pc' = "copy", idx' = idx + 1, dropped \subseteq dropped',
           \/ n.kind = Made(src[C.path].kind) /\ n.data = src[C.path].data
           \/ C.path \in dropped' /\ C.meta.kind # "dir"
    PROVE  Steady'
<1>0. /\ PlanInv /\ Covered /\ ExecInv
      /\ \A p \in Path : Settles(p) /\ ~Deleted(p)
      /\ \A i : (Finished(i) <=> i < idx) /\ (Started(i) <=> i < idx \/ (i = idx /\ pc # "copy"))
      /\ idx \in Nat
  BY Copying
<1>1. UNCHANGED <<src, was, delete_extraneous, todo, copies, deletes>>
  BY DEF user, scan, plan
<1>2. PlanInv' /\ Covered'
  BY <1>0, PlanStays
<1>3. C = copies[idx] /\ C.path \in Path /\ DOMAIN copies = 1..Len(copies) /\ Len(copies) \in Nat
  BY InHand DEF C
<1>4. dst \in [Path -> Node]
  BY DEF Types, Tree
<1>5. dst'[C.path] = n /\ \A q \in Path : q # C.path => dst'[q] = dst[q]
  BY <1>3, <1>4
<1>6. \A i \in DOMAIN copies : (Finished(i)' <=> i = idx \/ Finished(i)) /\ (Started(i)' <=> Started(i))
  BY <1>0, <1>1, <1>3 DEF Finished, Started
<1>7. ASSUME NEW i \in DOMAIN copies, Finished(i)'
      PROVE  \/ Renewed(copies[i].path)'
             \/ copies[i].path \in dropped' /\ copies[i].meta.kind # "dir"
  <2>1. CASE i = idx
    BY <1>1, <1>3, <1>5, <2>1 DEF Renewed, Made
  <2>2. CASE i # idx
    <3>1. Finished(i) /\ copies[i].path # C.path /\ copies[i].path \in Path
      BY <1>0, <1>3, <1>6, <1>7, <2>2, CopiedOnce, InHand
    <3>2. dst'[copies[i].path] = dst[copies[i].path]
      BY <1>5, <3>1
    <3> QED BY <1>0, <1>1, <3>1, <3>2 DEF ExecInv, Renewed, Made
  <2> QED BY <2>1, <2>2
<1>8. ASSUME NEW p \in Path, ~Written(p)' PROVE dst'[p] = IF Cleared(p)' \/ Deleted(p)' THEN Absent ELSE was[p]
  <2>1. p # C.path /\ ~Written(p)
    <3>1. ASSUME p = C.path \/ Written(p) PROVE FALSE
      <4>1. ASSUME NEW i \in DOMAIN copies, copies[i].path = p, Finished(i) \/ i = idx PROVE FALSE
        BY <1>1, <1>6, <1>8, <4>1 DEF Written
      <4> QED BY <1>3, <3>1, <4>1 DEF Written
    <3> QED BY <3>1
  <2>2. ~Deleted(p)' /\ ~Deleted(p)
    BY <1>0 DEF Deleted
  <2>3. Cleared(p)' <=> Cleared(p)
    BY <1>1, <1>6 DEF Cleared
  <2> QED BY <1>0, <1>5, <2>1, <2>2, <2>3 DEF ExecInv
<1>9. ExecInv'
  BY <1>0, <1>1, <1>7, <1>8 DEF ExecInv
<1> QED BY <1>2, <1>9 DEF Steady, Exec, Scan

LEMMA ApplyDirSteady ==
    ASSUME Types, Steady, ApplyDir
    PROVE  Steady' /\ pc' # "idle"
<1>0. pc = "apply" /\ idx \in DOMAIN copies /\ C.meta.kind = "dir" /\ UNCHANGED <<src, user, scan, dropped>>
  BY InHand DEF ApplyDir, At, Executing, Types
<1>1. C.path \in Path /\ C.meta = src[C.path] /\ (dst[C.path] = Absent \/ C.meta.kind = "file")
  BY <1>0, NextItemReady
<1>2. CanMkdir(C.path)
  BY <1>0, <1>1, ParentReady, Foreign DEF CanMkdir
<1>3. dst' = [dst EXCEPT ![C.path] = Dir] /\ pc' = "copy" /\ idx' = idx + 1
  BY <1>2 DEF ApplyDir, NextItem, Goto
<1>4. src[C.path] = Dir
  BY <1>0, <1>1, TreeParts DEF Types
<1>5. Dir.kind = Made(src[C.path].kind) /\ Dir.data = src[C.path].data
  BY <1>0, <1>1, <1>4 DEF Made
<1> QED BY <1>0, <1>3, <1>5, ItemDone

LEMMA ApplyLinkSteady ==
    ASSUME Types, Steady, ApplyLink
    PROVE  Steady' /\ pc' # "idle"
<1>0. pc = "apply" /\ idx \in DOMAIN copies /\ C.meta.kind = "link" /\ UNCHANGED <<src, user, scan>>
      /\ pc' = "copy" /\ idx' = idx + 1
  BY InHand DEF ApplyLink, At, Executing, Types, NextItem, Goto
<1>1. C.path \in Path /\ C.meta = src[C.path] /\ dst[C.path] = Absent
  BY <1>0, NextItemReady
<1>2. CASE dst' = [dst EXCEPT ![C.path] = C.meta] /\ dropped' = dropped
  <2>1. C.meta.kind = Made(src[C.path].kind) /\ C.meta.data = src[C.path].data
    BY <1>0, <1>1 DEF Made
  <2> QED BY <1>0, <1>2, <2>1, ItemDone
<1>3. CASE dropped' = dropped \cup {C.path} /\ dst' = dst
  <2>1. dst' = [dst EXCEPT ![C.path] = Absent]
    BY <1>1, <1>3 DEF Types, Tree
  <2>2. C.path \in dropped' /\ dropped \subseteq dropped' /\ C.meta.kind # "dir"
    BY <1>0, <1>3
  <2> QED BY <1>0, <2>1, <2>2, ItemDone
<1> QED BY <1>2, <1>3 DEF ApplyLink

\* The file in hand is the next item's.
LEMMA Pumping ==
    ASSUME Types, Steady, pc = "pump"
    PROVE  /\ idx \in DOMAIN copies /\ C.path \in Path /\ C.meta = src[C.path]
           /\ C.meta.kind \in {"file", "other"} /\ opened = src[C.path].data
<1>1. ExecInv /\ PlanInv
  BY Copying
<1>2. idx \in DOMAIN copies
  BY InHand DEF Types
<1>3. ItemOK(C) /\ C.path \in Path
  BY <1>1, <1>2, InHand DEF PlanInv, C
<1> QED BY <1>1, <1>2, <1>3 DEF ExecInv, ItemOK

LEMMA TransferDoneSteady ==
    ASSUME Types, Steady, TransferDone
    PROVE  Steady' /\ pc' # "idle"
<1>0. pc = "pump" /\ UNCHANGED <<src, user, scan, dropped>>
      /\ pc' = "copy" /\ idx' = idx + 1 /\ dst' = [dst EXCEPT ![C.path] = File(opened, Now)]
  BY DEF TransferDone, At, Executing, NextItem, Goto
<1>1. C.meta.kind \in {"file", "other"} /\ opened = src[C.path].data /\ C.meta = src[C.path] /\ idx \in DOMAIN copies
  BY <1>0, Pumping
<1>2. File(opened, Now).kind = Made(src[C.path].kind) /\ File(opened, Now).data = src[C.path].data
  BY <1>1 DEF File, Made
<1> QED BY <1>0, <1>1, <1>2, ItemDone

LEMMA TransferCutSteady ==
    ASSUME Types, Steady, TransferCut
    PROVE  Steady' /\ pc' # "idle"
<1>0. pc = "pump" /\ UNCHANGED <<src, dst, user, scan>>
      /\ pc' = "copy" /\ idx' = idx + 1 /\ dropped' = dropped \cup {C.path}
  BY DEF TransferCut, At, Executing, NextItem, Goto
<1>1. C.meta.kind # "dir" /\ idx \in DOMAIN copies /\ C.path \in Path
  BY <1>0, Pumping
<1>2. dst' = [dst EXCEPT ![C.path] = dst[C.path]]
  BY <1>0, <1>1 DEF Types, Tree
<1>3. C.path \in dropped' /\ dropped \subseteq dropped'
  BY <1>0
<1> QED BY <1>0, <1>1, <1>2, <1>3, ItemDone

LEMMA BeginTransferSteady ==
    ASSUME Types, Steady, BeginTransfer
    PROVE  Steady' /\ pc' # "idle"
<1>1. pc = "apply" /\ idx \in DOMAIN copies /\ C.meta.kind \in {"file", "other"} /\ UNCHANGED <<src, user, scan, idx, dropped>>
  BY InHand DEF BeginTransfer, At, Executing, Types
<1>0. /\ PlanInv /\ Covered /\ ExecInv
      /\ \A p \in Path : Settles(p) /\ ~Deleted(p)
      /\ \A i : (Finished(i) <=> i < idx) /\ (Started(i) <=> i < idx \/ (i = idx /\ pc # "copy"))
      /\ idx \in Nat
  BY <1>1, Copying
<1>2. C = copies[idx] /\ C.path \in Path /\ C.meta = src[C.path]
      /\ (dst[C.path] = Absent \/ dst[C.path].kind = "file")
  BY <1>1, NextItemReady
<1>3. src[C.path].kind \in {"file", "other"} /\ CanCreate(C.path)
  BY <1>1, <1>2, ParentReady, Foreign DEF CanCreate
<1>4. dst' = [dst EXCEPT ![C.path] = File("torn", Now)] /\ opened' = src[C.path].data /\ pc' = "pump"
  BY <1>3 DEF BeginTransfer, Goto
<1>5. UNCHANGED <<src, was, delete_extraneous, todo, copies, deletes, idx, dropped>>
  BY <1>1 DEF user, scan, plan
<1>6. PlanInv' /\ Covered'
  BY <1>0, <1>1, PlanStays
<1>7. \A q \in Path : q # C.path => dst'[q] = dst[q]
  BY <1>2, <1>4 DEF Types, Tree
<1>8. \A i \in DOMAIN copies : (Finished(i)' <=> Finished(i)) /\ (Started(i)' <=> Started(i))
  BY <1>1, <1>4, <1>5 DEF Finished, Started
<1>9. ASSUME NEW i \in DOMAIN copies, Finished(i)
      PROVE  \/ Renewed(copies[i].path)'
             \/ copies[i].path \in dropped' /\ copies[i].meta.kind # "dir"
  <2>1. i # idx /\ copies[i].path # C.path /\ copies[i].path \in Path
    BY <1>0, <1>1, <1>2, <1>9, CopiedOnce, InHand
  <2>2. dst'[copies[i].path] = dst[copies[i].path]
    BY <1>7, <2>1
  <2> QED BY <1>0, <1>5, <1>9, <2>2 DEF ExecInv, Renewed, Made
<1>10. ASSUME NEW p \in Path, ~Written(p)' PROVE dst'[p] = IF Cleared(p)' \/ Deleted(p)' THEN Absent ELSE was[p]
  <2>1. p # C.path /\ ~Written(p)
    BY <1>1, <1>2, <1>4, <1>5, <1>8, <1>10 DEF Written
  <2>2. ~Deleted(p)' /\ ~Deleted(p)
    BY <1>0, <1>4 DEF Deleted
  <2>3. Cleared(p)' <=> Cleared(p)
    BY <1>5, <1>8 DEF Cleared
  <2> QED BY <1>0, <1>7, <2>1, <2>2, <2>3 DEF ExecInv
<1>11. C' = C
  BY <1>5 DEF C
<1>12. ExecInv'
  BY <1>0, <1>1, <1>4, <1>5, <1>8, <1>9, <1>10, <1>11 DEF ExecInv
<1> QED BY <1>4, <1>6, <1>12 DEF Steady, Exec, Scan

LEMMA CopyNextSteady ==
    ASSUME Types, Steady, CopyNext
    PROVE  \/ Stop("cancelled") /\ dst' = dst
           \/ Steady' /\ pc' # "idle"
<1>1. pc = "copy" /\ idx \in DOMAIN copies /\ UNCHANGED <<src, user, scan, idx, dropped, opened>>
  BY InHand DEF CopyNext, At, Executing, Types
<1>0. /\ PlanInv /\ Covered /\ ExecInv
      /\ \A p \in Path : Settles(p) /\ ~Deleted(p)
      /\ \A i : (Finished(i) <=> i < idx) /\ (Started(i) <=> i < idx \/ (i = idx /\ pc # "copy"))
      /\ idx \in Nat
  BY <1>1, Copying
<1>2. C = copies[idx] /\ C.path \in Path /\ ItemOK(C) /\ Exists(src, C.path) /\ dst[C.path] = was[C.path]
  BY <1>1, NextItemReady
<1>3. C.old # Absent => (C.old.kind = "dir") = (dst[C.path].kind = "dir") /\ Exists(dst, C.path)
  <2> SUFFICES ASSUME C.old # Absent PROVE (C.old.kind = "dir") = (dst[C.path].kind = "dir") /\ Exists(dst, C.path)
    OBVIOUS
  <2>1. C.old = was[C.path]
    BY <1>2 DEF ItemOK
  <2>2. Exists(dst, C.path)
    BY <1>2, <2>1, TreeParts DEF Types, Exists
  <2> QED BY <1>2, <2>1, <2>2
<1>4. \/ Stop("cancelled") /\ dst' = dst
      \/ /\ pc' = "apply"
         /\ \/ C.old = Absent /\ dst' = dst
            \/ C.old # Absent /\ dst' = Without(dst, Below[C.path])
  BY <1>3 DEF CopyNext, Goto
<1> SUFFICES ASSUME pc' = "apply",
                    \/ C.old = Absent /\ dst' = dst
                    \/ C.old # Absent /\ dst' = Without(dst, Below[C.path])
             PROVE  Steady'
  <2>1. CASE Stop("cancelled") /\ dst' = dst
    BY <2>1
  <2>2. CASE pc' = "apply"
    BY <1>4, <2>2 DEF Stop
  <2> QED BY <1>4, <2>1, <2>2
<1>5. UNCHANGED <<src, was, delete_extraneous, todo, copies, deletes, idx, dropped>>
  BY <1>1 DEF user, scan, plan
<1>6. PlanInv' /\ Covered'
  BY <1>0, <1>1, PlanStays
<1>7. \A q \in Path : dst'[q] = IF C.old # Absent /\ q \in Below[C.path] THEN Absent ELSE dst[q]
  BY DEF Without
<1>8. \A i \in DOMAIN copies : (Finished(i)' <=> Finished(i)) /\ (Started(i)' <=> Started(i) \/ i = idx)
  BY <1>1, <1>5 DEF Finished, Started
<1>9. ASSUME NEW i \in DOMAIN copies, Finished(i) PROVE dst'[copies[i].path] = dst[copies[i].path]
  <2>1. copies[i].path \notin Below[C.path] /\ copies[i].path \in Path
    BY <1>0, <1>1, <1>2, <1>9, InHand DEF PlanInv, ParentsFirst
  <2> QED BY <1>7, <2>1
<1>10. \A i \in DOMAIN copies : Finished(i)' =>
          \/ Renewed(copies[i].path)'
          \/ copies[i].path \in dropped' /\ copies[i].meta.kind # "dir"
  BY <1>0, <1>5, <1>8, <1>9 DEF ExecInv, Renewed, Made
<1>11. ASSUME NEW p \in Path, ~Written(p)' PROVE dst'[p] = IF Cleared(p)' \/ Deleted(p)' THEN Absent ELSE was[p]
  <2>1. ~Written(p)
    BY <1>1, <1>5, <1>8, <1>11 DEF Written
  <2>2. ~Deleted(p)' /\ ~Deleted(p)
    BY <1>0 DEF Deleted
  <2>3. Cleared(p)' <=> Cleared(p) \/ (C.old # Absent /\ p \in Below[C.path])
    BY <1>1, <1>2, <1>5, <1>8 DEF Cleared
  <2> QED BY <1>0, <1>7, <2>1, <2>2, <2>3 DEF ExecInv
<1>12. ExecInv'
  BY <1>0, <1>5, <1>10, <1>11 DEF ExecInv
<1> QED BY <1>6, <1>12 DEF Steady, Exec, Scan

LEMMA CopiesDoneSteady ==
    ASSUME Types, Steady, CopiesDone
    PROVE  Steady' /\ pc' # "idle"
<1>1. pc = "copy" /\ idx > Len(copies) /\ idx' = 1 /\ pc' = "delete" /\ UNCHANGED <<src, dst, user, scan, dropped>>
  BY DEF CopiesDone, Executing, Goto
<1>0. /\ PlanInv /\ Covered /\ ExecInv
      /\ \A p \in Path : Settles(p) /\ ~Deleted(p)
      /\ \A i : (Finished(i) <=> i < idx) /\ (Started(i) <=> i < idx \/ (i = idx /\ pc # "copy"))
      /\ idx \in Nat
  BY <1>1, Copying
<1>2. UNCHANGED <<src, dst, was, delete_extraneous, todo, copies, deletes, dropped>>
  BY <1>1 DEF user, scan, plan
<1>3. PlanInv' /\ Covered'
  BY <1>0, <1>1, PlanStays
<1>4. \A i \in DOMAIN copies : Finished(i) /\ Finished(i)' /\ Started(i) /\ Started(i)'
  BY <1>0, <1>1, InHand DEF Finished, Started
<1>5. \A p : (Written(p)' <=> Written(p)) /\ (Cleared(p)' <=> Cleared(p))
  BY <1>2, <1>4 DEF Written, Cleared
<1>6. \A p \in Path : ~Deleted(p)'
  BY <1>1, <1>2, InHand DEF Deleted
<1>7. \A i \in DOMAIN copies : Renewed(copies[i].path) => Renewed(copies[i].path)'
  BY <1>2 DEF Renewed, Made
<1>8. \A i \in DOMAIN copies : Finished(i)' =>
          \/ Renewed(copies[i].path)'
          \/ copies[i].path \in dropped' /\ copies[i].meta.kind # "dir"
  BY <1>0, <1>2, <1>4, <1>7 DEF ExecInv
<1>9. \A p \in Path : ~Written(p)' => dst'[p] = IF Cleared(p)' \/ Deleted(p)' THEN Absent ELSE was[p]
  BY <1>0, <1>2, <1>5, <1>6 DEF ExecInv
<1>10. ExecInv'
  BY <1>0, <1>1, <1>2, <1>8, <1>9 DEF ExecInv
<1> QED BY <1>1, <1>3, <1>10 DEF Steady, Exec, Scan

\* A directory that holds a name no listing shows cannot be removed.
Excused ==
    \/ /\ DstWhere = "remote" /\ idx \in DOMAIN copies
       /\ copies[idx].old.kind = "dir" /\ HoldsHidden(copies[idx].path)
    \/ /\ idx \in DOMAIN deletes /\ deletes[idx].kind = "dir"
       /\ Children(dst, deletes[idx].path) \cap NotUtf8 # {}

\* What holds while the deletions are executed.
LEMMA Deleting ==
    ASSUME Types, Steady, pc = "delete"
    PROVE  /\ PlanInv /\ Covered /\ ExecInv /\ \A p \in Path : Settles(p)
           /\ \A i : Finished(i) /\ Started(i)
           /\ \A p \in Path : Written(p) => Exists(src, p)
           /\ \A p \in Path : ~Written(p) => dst[p] = IF Cleared(p) \/ Deleted(p) THEN Absent ELSE was[p]
<1>1. PlanInv /\ Covered /\ ExecInv
  BY DEF Steady, Exec
<1>2. \A p \in Path : Settles(p)
  BY <1>1 DEF ExecInv, Covered
<1>3. \A p \in Path : Written(p) => Exists(src, p)
  BY <1>1 DEF Written, PlanInv, ItemOK
<1> QED BY <1>1, <1>2, <1>3 DEF Finished, Started, ExecInv

LEMMA DeleteNextSteady ==
    ASSUME Types, Steady, DeleteNext
    PROVE  \/ Stop("cancelled") /\ dst' = dst
           \/ Stop("failed") /\ UNCHANGED <<dst, idx>> /\ Excused
           \/ Steady' /\ pc' # "idle"
<1>1. pc = "delete" /\ idx \in DOMAIN deletes /\ UNCHANGED <<src, user, scan, dropped>> /\ idx \in Nat
  BY InHand DEF DeleteNext, At, Executing, Types
<1>0. /\ PlanInv /\ Covered /\ ExecInv
      /\ \A i : Finished(i) /\ Started(i)
      /\ \A p \in Path : Written(p) => Exists(src, p)
      /\ \A p \in Path : ~Written(p) => dst[p] = IF Cleared(p) \/ Deleted(p) THEN Absent ELSE was[p]
  BY <1>1, Deleting
<1> DEFINE d == deletes[idx]
<1>2. d.path \in Path /\ Exists(was, d.path) /\ ~Exists(src, d.path) /\ d.kind = was[d.path].kind
  BY <1>0, <1>1, InHand DEF PlanInv, DeletionOK
<1>3. ~Cleared(d.path) /\ ~Deleted(d.path) /\ ~Written(d.path)
  <2>1. ~Cleared(d.path)
    BY <1>0, <1>1 DEF Cleared, PlanInv
  <2>2. ~Deleted(d.path)
    BY <1>0, <1>1 DEF Deleted, PlanInv, ChildrenFirst
  <2> QED BY <1>0, <1>2, <2>1, <2>2
<1>4. dst[d.path] = was[d.path]
  BY <1>0, <1>2, <1>3
<1>5. Named(dst, d.path) = {}
  <2> SUFFICES ASSUME NEW c \in Named(dst, d.path) PROVE FALSE
    OBVIOUS
  <2>1. c \in Path /\ Parent[c] = d.path /\ Exists(dst, c)
    BY DEF Named, Children
  <2>2. ~Exists(src, c)
    <3>1. c \in Below[d.path]
      BY <2>1, ChildBelow
    <3> QED BY <1>2, <3>1, NothingBelow DEF Types
  <2>3. dst[c] = was[c] /\ ~Deleted(c)
    BY <1>0, <2>1, <2>2, Foreign DEF Exists
  <2>4. c \in Named(was, d.path)
    BY <2>1, <2>3 DEF Named, Children, Exists
  <2>5. PICK j \in DOMAIN deletes : j < idx /\ deletes[j].path = c
    BY <1>0, <1>1, <2>4 DEF PlanInv, ChildrenFirst
  <2> QED BY <1>1, <2>3, <2>5 DEF Deleted
<1>6. CanRemove(d.path, d.kind) \/ Excused
  <2>1. dst[d.path].kind \in {"dir", "file", "link", "other"}
    BY <1>2, <1>4, TreeParts DEF Types, Node, NodeKinds, Exists
  <2>2. CASE d.kind = "dir" /\ Children(dst, d.path) # {}
    <3>1. Children(dst, d.path) \cap NotUtf8 # {}
      BY <1>5, <2>2 DEF Named
    <3> QED BY <1>1, <2>2, <3>1 DEF Excused
  <2> QED BY <1>2, <1>4, <2>1, <2>2 DEF CanRemove
<1>7. \/ Stop("cancelled") /\ dst' = dst
      \/ Stop("failed") /\ UNCHANGED <<dst, idx>> /\ Excused
      \/ dst' = Without(dst, {d.path}) /\ idx' = idx + 1 /\ pc' = "delete"
  BY <1>6 DEF DeleteNext, Goto
<1> SUFFICES ASSUME dst' = Without(dst, {d.path}), idx' = idx + 1, pc' = "delete" PROVE Steady'
  BY <1>7
<1>8. UNCHANGED <<src, was, delete_extraneous, todo, copies, deletes, dropped>>
  BY <1>1 DEF user, scan, plan
<1>9. PlanInv' /\ Covered'
  BY <1>0, <1>1, PlanStays
<1>10. \A q \in Path : dst'[q] = IF q = d.path THEN Absent ELSE dst[q]
  BY DEF Without
<1>11. \A i : Finished(i)' /\ Started(i)'
  BY DEF Finished, Started
<1>12. ASSUME NEW i \in DOMAIN copies
       PROVE  \/ Renewed(copies[i].path)'
              \/ copies[i].path \in dropped' /\ copies[i].meta.kind # "dir"
  <2>1. copies[i].path \in Path /\ copies[i].path # d.path
    BY <1>0, <1>2, InHand DEF PlanInv, ItemOK
  <2>2. dst'[copies[i].path] = dst[copies[i].path]
    BY <1>10, <2>1
  <2> QED BY <1>0, <1>8, <2>2 DEF ExecInv, Renewed, Made
<1>13. ASSUME NEW p \in Path, ~Written(p)' PROVE dst'[p] = IF Cleared(p)' \/ Deleted(p)' THEN Absent ELSE was[p]
  <2>1. ~Written(p)
    BY <1>0, <1>8, <1>11, <1>13 DEF Written
  <2>2. Cleared(p)' <=> Cleared(p)
    BY <1>0, <1>8, <1>11 DEF Cleared
  <2>3. Deleted(p)' <=> Deleted(p) \/ p = d.path
    <3>1. \A i \in DOMAIN deletes : i \in Nat
      BY InHand
    <3>2. \A i \in DOMAIN deletes : i < idx + 1 <=> i < idx \/ i = idx
      BY <1>1, <3>1
    <3> QED BY <1>1, <1>8, <3>2 DEF Deleted
  <2> QED BY <1>0, <1>10, <2>1, <2>2, <2>3
<1>14. ExecInv'
  BY <1>0, <1>8, <1>12, <1>13 DEF ExecInv
<1> QED BY <1>9, <1>14 DEF Steady, Exec, Scan

\* The user agrees: nothing has been done yet.
LEMMA ConfirmSteady ==
    ASSUME Types, Steady, Confirm
    PROVE  Steady' /\ pc' # "idle"
<1>1. pc = "confirm" /\ pc' = "copy" /\ idx = 1 /\ UNCHANGED <<trees, user, scan, idx>>
  BY DEF Confirm, Goto, Types
<1>2. UNCHANGED <<src, dst, was, delete_extraneous, todo, copies, deletes, idx>>
  BY <1>1 DEF trees, user, scan, plan
<1>3. PlanInv /\ Covered /\ dst = was /\ todo = <<>>
  BY <1>1 DEF Steady, Scan, ScanInv
<1>4. PlanInv' /\ Covered'
  BY <1>1, <1>2, <1>3, PlanStays
<1>5. \A i \in DOMAIN copies : ~Finished(i)' /\ ~Started(i)'
  BY <1>1, InHand DEF Finished, Started
<1>6. \A p \in Path : ~Cleared(p)' /\ ~Deleted(p)'
  BY <1>1, <1>2, <1>5 DEF Cleared, Deleted
<1>7. ExecInv'
  BY <1>1, <1>2, <1>3, <1>5, <1>6 DEF ExecInv
<1> QED BY <1>1, <1>4, <1>7 DEF Steady, Exec, Scan

\* The scan starts with the two directories.
LEMMA StartScanSteady ==
    ASSUME Types, StartScan
    PROVE  Steady'
<1> DEFINE v == Visit("diff", Root, Dir, Dir)
<1>1. pc' = "begin" /\ was' = dst /\ dst' = dst /\ src' = src /\ todo' = <<v>> /\ copies' = <<>> /\ deletes' = <<>>
  BY DEF StartScan, trees
<1>2. v.do = "diff" /\ v.path = Root
  BY VisitsTyped, Foreign, RootAbove DEF Whats
<1> HIDE DEF v
<1>3. Span(v) = Entries
  BY <1>2, RootAbove DEF Span
<1>4. VisitOK(v)'
  BY <1>2, RootShown DEF VisitOK, Dirs, Hidden
<1>5. DOMAIN todo' = {1} /\ todo'[1] = v /\ DOMAIN copies' = {} /\ DOMAIN deletes' = {}
  BY <1>1
<1>6. PlanInv'
  BY <1>5 DEF PlanInv, ParentsFirst, ChildrenFirst
<1>7. Covered'
  BY <1>3, <1>5 DEF Covered, Entries
<1>8. Apart' /\ Fresh' /\ PushedLast'
  BY <1>2, <1>5 DEF Apart, Fresh, PushedLast
<1>9. ScanInv'
  BY <1>1, <1>4, <1>5, <1>8 DEF ScanInv
<1> QED BY <1>1, <1>6, <1>7, <1>9 DEF Steady, Scan, Exec

\* A step that changes neither tree nor plan.
LEMMA StandsStill ==
    ASSUME Types, Steady, UNCHANGED <<trees, user, scan, idx, opened, dropped>>,
           pc' = pc \/ (pc = "begin" /\ pc' = "scan") \/ (pc = "scan" /\ pc' = "confirm" /\ todo = <<>>)
    PROVE  Steady'
<1>1. UNCHANGED <<src, dst, was, delete_extraneous, todo, copies, deletes, idx, opened, dropped>>
  BY DEF trees, user, scan, plan
<1>2. pc # "idle" => PlanInv' /\ Covered'
  <2>1. UNCHANGED <<src, user, scan>>
    BY DEF trees
  <2> QED BY <2>1, PlanStays DEF Steady
<1>3. pc \in Scan => ScanInv'
  <2>1. ScanInv => ScanInv'
    BY <1>1 DEF ScanInv, VisitOK, Apart, Fresh, PushedLast, Named, Children, Exists, Dirs, Hidden
  <2> QED BY <2>1 DEF Steady
<1>4. pc \in Exec => ExecInv'
  <2> SUFFICES ASSUME pc \in Exec PROVE ExecInv'
    OBVIOUS
  <2>1. pc' = pc /\ ExecInv /\ C' = C
    BY <1>1 DEF Exec, Steady, C
  <2>2. \A i : (Finished(i)' <=> Finished(i)) /\ (Started(i)' <=> Started(i))
    BY <1>1, <2>1 DEF Finished, Started
  <2>3. \A p : (Written(p)' <=> Written(p)) /\ (Cleared(p)' <=> Cleared(p)) /\ (Deleted(p)' <=> Deleted(p))
    BY <1>1, <2>1, <2>2 DEF Written, Cleared, Deleted
  <2>4. \A i \in DOMAIN copies : Renewed(copies[i].path)' <=> Renewed(copies[i].path)
    BY <1>1 DEF Renewed, Made
  <2> QED BY <1>1, <2>1, <2>2, <2>3, <2>4 DEF ExecInv
<1> QED BY <1>1, <1>2, <1>3, <1>4 DEF Steady, Scan, Exec

-----------------------------------------------------------------------------
(* What the invariant promises.                                            *)

\* The promises of a state in which nothing has changed yet.
LEMMA UntouchedPromises ==
    ASSUME dst = was
    PROVE  OneBroken /\ KeepsUnrelated
<1>1. \A p \in Path : Below[p] \subseteq Path
  BY RootAbove
<1>2. \A i \in DOMAIN copies : ~Broken(i)
  BY DEF Broken, Intact
<1> QED BY <1>2 DEF OneBroken, KeepsUnrelated

\* What only the destination has is not below an entry that is replaced.
LEMMA NotReplaced ==
    ASSUME Types, PlanInv, NEW p \in Path, Exists(was, p), ~Exists(src, p),
           \A q \in Path \ {p} : p \in Below[q] => src[q].kind \in {"none", "dir"},
           NEW i \in DOMAIN copies, copies[i].old # Absent
    PROVE  p \notin Below[copies[i].path]
<1> DEFINE q == copies[i].path
<1>1. q \in Path /\ ItemOK(copies[i])
  BY InHand DEF PlanInv
<1> SUFFICES ASSUME p \in Below[q] PROVE FALSE
  OBVIOUS
<1>2. q # p /\ src[q].kind = "dir"
  BY <1>1 DEF ItemOK, Exists
<1>3. was[q].kind # "dir"
  BY <1>1, <1>2 DEF ItemOK
<1> QED BY <1>1, <1>2, <1>3, TreeBelow DEF Types, Tree

LEMMA ExecPromises ==
    ASSUME Types, Steady, pc \in Exec
    PROVE  OneBroken /\ KeepsUnrelated
<1>1. PlanInv /\ ExecInv
  BY DEF Steady, Exec
<1>2. OneBroken
  <2> SUFFICES ASSUME NEW i \in DOMAIN copies, NEW j \in DOMAIN copies, Broken(i), Broken(j) PROVE i = j
    BY DEF OneBroken
  <2>1. ~Finished(i) /\ ~Finished(j)
    BY <1>1 DEF ExecInv, Broken
  <2>2. pc \in {"copy", "apply", "pump"}
    BY <2>1 DEF Finished, Exec
  <2>3. Started(i) /\ Started(j)
    BY <2>2, Untouched DEF Broken
  <2> QED BY <2>1, <2>3 DEF Started
<1>3. KeepsUnrelated
  <2> SUFFICES ASSUME ~delete_extraneous, NEW p \in Path, Exists(was, p), ~Exists(src, p),
                      \A q \in Path \ {p} : p \in Below[q] => src[q].kind \in {"none", "dir"}
               PROVE  dst[p] = was[p]
    BY DEF KeepsUnrelated
  <2>1. ~Written(p)
    BY <1>1 DEF Written, PlanInv, ItemOK
  <2>2. ~Cleared(p)
    BY <1>1, NotReplaced DEF Cleared
  <2>3. ~Deleted(p)
    BY <1>1 DEF Deleted, PlanInv, DeletionOK
  <2> QED BY <1>1, <2>1, <2>2, <2>3 DEF ExecInv
<1> QED BY <1>2, <1>3

\* What CompletedMirrors promises of a sync that is complete.
Served(p) ==
    \/ dst[p].kind = Made(src[p].kind) /\ Alike(p)
    \/ src[p].kind = "other" /\ dst[p].kind = "other"
    \/ p \in dropped
Mirror ==
    \A p \in Path : ~Hidden(p) =>
        /\ Exists(src, p) => Served(p)
        /\ delete_extraneous /\ Exists(dst, p) => Exists(src, p)

LEMMA SettledMirrors ==
    ASSUME NEW p \in Path, dst[p] = was[p], Exists(src, p), Same(p)
    PROVE  Served(p)
BY DEF Same, Alike, Served, Made

\* The plan has been executed.
LEMMA ExecutedMirrors ==
    ASSUME Types, Steady, pc = "delete", idx > Len(deletes)
    PROVE  Mirror
<1>0. /\ PlanInv /\ ExecInv /\ \A p \in Path : Settles(p)
      /\ \A i : Finished(i) /\ Started(i)
      /\ \A p \in Path : Written(p) => Exists(src, p)
      /\ \A p \in Path : ~Written(p) => dst[p] = IF Cleared(p) \/ Deleted(p) THEN Absent ELSE was[p]
  BY Deleting
<1>1. \A i \in DOMAIN copies : Renewed(copies[i].path) \/ copies[i].path \in dropped
  BY <1>0 DEF ExecInv
<1>2. \A i \in DOMAIN deletes : Deleted(deletes[i].path)
  <2>1. \A i \in DOMAIN deletes : i < idx
    BY InHand DEF Types
  <2> QED BY <2>1 DEF Deleted
<1>3. ASSUME NEW p \in Path, ~Hidden(p), Exists(src, p) PROVE Served(p)
  <2>1. CASE \E i \in DOMAIN copies : copies[i].path = p
    BY <1>1, <2>1 DEF Renewed, Alike, Served
  <2>2. CASE ~\E i \in DOMAIN copies : copies[i].path = p
    <3>1. Same(p) /\ ~Written(p)
      BY <1>0, <1>3, <2>2 DEF Settles, Written
    <3>2. ~Deleted(p)
      BY <1>0, <1>3 DEF Deleted, PlanInv, DeletionOK
    <3>3. Exists(was, p)
      BY <1>3, <3>1 DEF Same, Exists
    <3>4. ~Cleared(p)
      BY <1>0, <1>3, <2>2, <3>3, ClearedItself
    <3>5. dst[p] = was[p]
      BY <1>0, <3>1, <3>2, <3>4
    <3> QED BY <1>3, <3>1, <3>5, SettledMirrors
  <2> QED BY <2>1, <2>2
<1>4. ASSUME delete_extraneous, NEW p \in Path, ~Hidden(p), Exists(dst, p), ~Exists(src, p) PROVE FALSE
  <2>1. dst[p] = was[p] /\ ~Cleared(p) /\ ~Deleted(p)
    BY <1>0, <1>4, Foreign DEF Exists
  <2>2. (\E i \in DOMAIN deletes : deletes[i].path = p) \/ Replaced(p)
    BY <1>0, <1>4, <2>1 DEF Settles, Exists
  <2>3. ~Replaced(p)
    BY <1>0, <2>1 DEF Replaced, Cleared
  <2> QED BY <1>2, <2>1, <2>2, <2>3
<1> QED BY <1>3, <1>4 DEF Mirror

\* There is nothing to do.
LEMMA NothingToDo ==
    ASSUME Types, Steady, pc = "scan", todo = <<>>, copies = <<>>, deletes = <<>>
    PROVE  Mirror
<1>1. dst = was /\ Covered
  BY DEF Steady, Scan, ScanInv
<1>2. \A p \in Path : Settles(p)
  BY <1>1 DEF Covered
<1>3. ASSUME NEW p \in Path, ~Hidden(p), Exists(src, p) PROVE Served(p)
  <2>1. Same(p)
    BY <1>2, <1>3 DEF Settles
  <2> QED BY <1>1, <1>3, <2>1, SettledMirrors
<1>4. ASSUME delete_extraneous, NEW p \in Path, ~Hidden(p), Exists(dst, p), ~Exists(src, p) PROVE FALSE
  BY <1>1, <1>2, <1>4 DEF Settles, Replaced
<1> QED BY <1>3, <1>4 DEF Mirror

\* A removal that fails has broken the entry in hand only, and nothing that is
\* to be kept.
LEMMA RemovalPromises ==
    ASSUME Types, Steady, RemovalFails, ~disturbed
    PROVE  OneBroken' /\ KeepsUnrelated' /\ (faulted' \/ Excused')
<1>1. pc = "copy" /\ idx \in DOMAIN copies /\ UNCHANGED <<src, user, scan, idx, dropped>>
      /\ C.old.kind = "dir" /\ C.old # Absent
  BY InHand, Foreign DEF RemovalFails, At, Types
<1>0. /\ PlanInv /\ Covered /\ ExecInv
      /\ \A p \in Path : Settles(p) /\ ~Deleted(p)
      /\ \A i : (Finished(i) <=> i < idx) /\ (Started(i) <=> i < idx \/ (i = idx /\ pc # "copy"))
      /\ idx \in Nat
  BY <1>1, Copying
<1>2. C = copies[idx] /\ C.path \in Path /\ ItemOK(C) /\ Exists(src, C.path) /\ C.meta = src[C.path]
      /\ C.path \in Entries
  BY <1>1, NextItemReady, RootAbove
<1>3. PICK gone \in SUBSET (Below[C.path] \ {C.path}) :
          (DstWhere = "remote" => \A p \in gone : ~Hidden(p)) /\ dst' = Without(dst, gone)
  BY DEF RemovalFails
<1>4. \A q \in Path : dst'[q] = IF q \in gone THEN Absent ELSE dst[q]
  BY <1>3 DEF Without
<1>5. UNCHANGED <<src, was, delete_extraneous, copies, deletes, dropped>>
  BY <1>1 DEF user, scan, plan
<1>6. src[C.path].kind # "dir"
  BY <1>1, <1>2 DEF ItemOK
<1>7. \A q \in Below[C.path] : q # C.path => ~Exists(src, q)
  BY <1>2, <1>6, TreeBelow DEF Types, Tree
<1>8. ASSUME NEW i \in DOMAIN copies, copies[i].path \notin dropped, i # idx PROVE ~Broken(i)'
  <2> DEFINE p == copies[i].path
  <2>1. p \in Path /\ p \in Entries /\ Exists(src, p) /\ i \in Nat /\ p # C.path
    BY <1>0, <1>1, <1>2, <1>8, InHand, RootAbove, CopiedOnce DEF PlanInv, ItemOK
  <2>2. p \notin Below[C.path]
    BY <1>7, <2>1
  <2>3. CASE i < idx
    <3>1. Renewed(p)
      BY <1>0, <1>8, <2>3 DEF ExecInv
    <3>2. dst'[p] = dst[p]
      BY <1>4, <2>1, <2>2
    <3> QED BY <1>5, <3>1, <3>2 DEF Broken, Renewed, Made
  <2>4. CASE ~(i < idx)
    <3>1. idx < i
      BY <1>0, <1>8, <2>1, <2>4
    <3>2. C.path \notin Below[p]
      BY <1>0, <1>1, <1>2, <3>1 DEF PlanInv, ParentsFirst
    <3>3. Intact(p)
      BY <1>0, <1>1, <1>8, <2>4, Untouched
    <3>4. ASSUME NEW q \in Below[p] PROVE dst'[q] = was[q]
      <4>1. q \in Path
        BY <2>1, RootAbove
      <4>2. q \notin Below[C.path]
        BY <1>2, <2>1, <2>2, <3>2, <3>4, BelowNested
      <4>3. dst'[q] = dst[q]
        BY <1>4, <4>1, <4>2
      <4> QED BY <3>3, <4>3 DEF Intact
    <3>5. Intact(p)'
      BY <1>5, <3>4 DEF Intact
    <3> QED BY <1>5, <3>5 DEF Broken
  <2> QED BY <2>3, <2>4
<1>9. OneBroken'
  <2>1. ASSUME NEW i \in DOMAIN copies, Broken(i)' PROVE i = idx
    BY <1>5, <1>8, <2>1 DEF Broken
  <2> QED BY <1>5, <2>1 DEF OneBroken
<1>10. KeepsUnrelated'
  <2>1. KeepsUnrelated
    BY <1>1, ExecPromises DEF Exec
  <2>2. ASSUME NEW p \in Path, Exists(was, p), ~Exists(src, p),
               \A q \in Path \ {p} : p \in Below[q] => src[q].kind \in {"none", "dir"}
        PROVE  dst'[p] = dst[p]
    <3>1. p \notin Below[copies[idx].path]
      BY <1>0, <1>1, <1>2, <2>2, NotReplaced
    <3> QED BY <1>2, <1>4, <3>1
  <2>3. ASSUME ~delete_extraneous, NEW p \in Path, Exists(was, p), ~Exists(src, p),
               \A q \in Path \ {p} : p \in Below[q] => src[q].kind \in {"none", "dir"}
        PROVE  dst'[p] = was[p]
    BY <2>1, <2>2, <2>3 DEF KeepsUnrelated
  <2>4. ~delete_extraneous => \A p \in Path :
            Exists(was, p) /\ ~Exists(src, p)
            /\ (\A q \in Path \ {p} : p \in Below[q] => src[q].kind \in {"none", "dir"}) => dst'[p] = was[p]
    BY <2>3
  <2> QED BY <1>5, <2>4 DEF KeepsUnrelated, Exists
<1>11. faulted' \/ Excused'
  <2>1. CASE faulted' = TRUE
    BY <2>1
  <2>2. CASE DstWhere = "remote" /\ HoldsHidden(C.path)
    <3>1. PICK q \in NotUtf8 \cap Below[C.path] : Exists(dst, q)
      BY <2>2 DEF HoldsHidden
    <3>2. q \in Path /\ Hidden(q)
      BY PathAssumption, RootAbove, BelowClosed DEF Hidden
    <3>3. Exists(dst', q)
      BY <1>3, <1>4, <2>2, <3>1, <3>2 DEF Exists
    <3>4. \E r \in NotUtf8 \cap Below[copies[idx].path] : Exists(dst', r)
      BY <1>2, <3>3
    <3>5. HoldsHidden(copies[idx].path)'
      BY <1>1, <1>5, <3>4 DEF HoldsHidden, Exists
    <3>6. copies[idx].old.kind = "dir"
      BY <1>1, <1>2
    <3> QED BY <1>1, <1>5, <2>2, <3>5, <3>6 DEF Excused
  <2> QED BY <2>1, <2>2 DEF RemovalFails
<1> QED BY <1>9, <1>10, <1>11

-----------------------------------------------------------------------------
(* The invariant is inductive.                                             *)

\* While a round goes on, its promises follow from the rest of the invariant.
Active == pc # "idle"

LEMMA Promised == Types /\ Steady /\ Active => IInv
<1> SUFFICES ASSUME Types, Steady, pc # "idle" PROVE IInv
  BY DEF Active
<1>1. outcome = "none" /\ (pc \in Scan \/ pc \in Exec)
  BY DEF Types
<1>2. OneBroken /\ KeepsUnrelated
  <2>1. CASE pc \in Scan
    BY <2>1, UntouchedPromises DEF Steady, ScanInv
  <2>2. CASE pc \in Exec
    BY <2>2, ExecPromises
  <2> QED BY <1>1, <2>1, <2>2
<1> QED BY <1>1, <1>2 DEF IInv, CompletedMirrors, OnlyRealFailures

LEMMA PromisedNext == Types' /\ Steady' /\ pc' # "idle" => IInv'
<1>1. Types' /\ Steady' /\ Active' => IInv'
  BY Promised, PTL
<1> QED BY <1>1, Zenon DEF Active

\* Once another program has interfered, nothing is promised.
LEMMA NothingPromised == Types /\ disturbed => IInv
BY DEF IInv, CompletedMirrors, OnlyRealFailures, OneBroken, KeepsUnrelated

LEMMA InitInv == Init => IInv
<1> SUFFICES ASSUME Init PROVE IInv
  OBVIOUS
<1>1. Types
  BY InitTyped
<1>2. dst = was /\ pc = "idle" /\ outcome = "none"
  BY DEF Init
<1>3. Steady
  BY <1>2 DEF Steady, Scan, Exec
<1>4. OneBroken /\ KeepsUnrelated
  BY <1>2, UntouchedPromises
<1> QED BY <1>1, <1>2, <1>3, <1>4 DEF IInv, CompletedMirrors, OnlyRealFailures

\* The round ends, and both trees are as they were.
LEMMA Ends ==
    ASSUME IInv, Types', ~disturbed, UNCHANGED <<trees, user, scan, dropped>>, pc' = "idle",
           outcome' \in {"completed", "nothing"} => Mirror,
           outcome' = "failed" => faulted' \/ Excused'
    PROVE  IInv'
<1>1. UNCHANGED <<src, dst, was, delete_extraneous, copies, dropped>>
  BY DEF trees, user, scan, plan
<1>2. Steady'
  BY DEF Steady, Scan, Exec
<1>3. OneBroken' /\ KeepsUnrelated'
  <2>1. OneBroken /\ KeepsUnrelated
    BY DEF IInv
  <2>2. \A i : Broken(i)' <=> Broken(i)
    BY <1>1 DEF Broken, Intact, Renewed, Made
  <2>3. OneBroken'
    BY <1>1, <2>1, <2>2 DEF OneBroken
  <2>4. KeepsUnrelated'
    BY <1>1, <2>1 DEF KeepsUnrelated, Exists
  <2> QED BY <2>3, <2>4
<1>4. Mirror => Mirror'
  BY <1>1 DEF Mirror, Served, Alike, Made, Exists, Hidden
<1>5. CompletedMirrors'
  BY <1>1, <1>4 DEF CompletedMirrors, Mirror, Served
<1>6. OnlyRealFailures'
  BY DEF OnlyRealFailures, Excused
<1> QED BY <1>2, <1>3, <1>5, <1>6 DEF IInv

LEMMA Stuttering ==
    ASSUME IInv, UNCHANGED vars
    PROVE  IInv'
<1>1. UNCHANGED <<src, dst, was, delete_extraneous, copies, deletes, dropped, disturbed, faulted, outcome, pc>>
      /\ UNCHANGED <<trees, user, scan, idx, opened, dropped>>
  BY DEF vars, trees, user, scan, plan
<1>2. Types'
  BY NextTyped DEF IInv
<1>3. ~disturbed => Steady'
  BY <1>1, StandsStill DEF IInv
<1>4. \A i : Broken(i)' <=> Broken(i)
  BY <1>1 DEF Broken, Intact, Renewed, Made
<1>5. OneBroken' /\ KeepsUnrelated'
  BY <1>1, <1>4 DEF IInv, OneBroken, KeepsUnrelated, Exists
<1>6. CompletedMirrors'
  BY <1>1 DEF IInv, CompletedMirrors, Alike, Made, Exists, Hidden
<1>7. OnlyRealFailures'
  BY <1>1 DEF IInv, OnlyRealFailures, HoldsHidden, Children, Exists
<1> QED BY <1>1, <1>2, <1>3, <1>5, <1>6, <1>7 DEF IInv

\* The scan.
LEMMA ScanningKeeps ==
    ASSUME IInv, ~disturbed, ~disturbed', Types', Scanning
    PROVE  IInv'
<1>0. Types /\ Steady
  BY DEF IInv
<1>1. (\E new : Advances(new)) => IInv'
  <2> SUFFICES ASSUME NEW new, Advances(new) PROVE IInv'
    OBVIOUS
  <2>1. Steady' /\ pc' = "scan"
    BY <1>0, ScanAdvances DEF Advances
  <2>2. Types' /\ Steady' /\ pc' # "idle" => IInv'
    BY PromisedNext, Zenon
  <2> QED BY <2>1, <2>2
<1>6. ASSUME DiffDir PROVE V.path \in Dirs(src) \cap Dirs(dst)
  <2>1. pc = "scan" /\ todo # <<>> /\ V.do = "diff"
    BY <1>6 DEF DiffDir, Visiting, V
  <2> QED BY <1>0, <2>1, Hand DEF VisitOK
<1>2. CASE DiffDir \/ DiffEntry \/ DiffFile \/ PushFullCopy \/ WalkForDelete \/ PushDelete
  BY <1>0, <1>1, <1>2, <1>6, DiffDirAdvances, DiffEntryAdvances, DiffFileAdvances, PushFullCopyAdvances,
     WalkForDeleteAdvances, PushDeleteAdvances
<1>3. CASE StartScan
  <2>1. Steady' /\ pc' # "idle"
    BY <1>0, <1>3, StartScanSteady DEF StartScan
  <2>2. Types' /\ Steady' /\ pc' # "idle" => IInv'
    BY PromisedNext, Zenon
  <2> QED BY <2>1, <2>2
<1>4. CASE BeginScan
  <2>1. pc = "begin" /\ UNCHANGED <<trees, user, scan, idx, opened, dropped>>
    BY <1>4 DEF BeginScan
  <2>2. CASE pc' = "scan"
    <3>1. Steady'
      BY <1>0, <2>1, <2>2, StandsStill
    <3>2. Types' /\ Steady' /\ pc' # "idle" => IInv'
      BY PromisedNext, Zenon
    <3> QED BY <2>2, <3>1, <3>2
  <2>3. CASE Stop("cancelled")
    <3>1. UNCHANGED <<trees, user, scan, dropped>>
      BY <2>1
    <3> QED BY <2>3, <3>1, Ends DEF Stop
  <2> QED BY <1>4, <2>2, <2>3 DEF BeginScan, Goto
<1>5. CASE ScanDone
  <2>1. pc = "scan" /\ todo = <<>> /\ UNCHANGED <<trees, user, scan, idx, opened, dropped>>
    BY <1>5 DEF ScanDone, ScanStep, Listing
  <2>2. CASE pc' = "confirm"
    <3>1. Steady'
      BY <1>0, <2>1, <2>2, StandsStill
    <3>2. Types' /\ Steady' /\ pc' # "idle" => IInv'
      BY PromisedNext, Zenon
    <3> QED BY <2>2, <3>1, <3>2
  <2>3. CASE copies = <<>> /\ deletes = <<>> /\ Stop("nothing")
    <3>1. UNCHANGED <<trees, user, scan, dropped>>
      BY <2>1
    <3>2. Mirror
      BY <1>0, <2>1, <2>3, NothingToDo
    <3> QED BY <2>3, <3>1, <3>2, Ends DEF Stop
  <2> QED BY <1>5, <2>2, <2>3 DEF ScanDone, Goto
<1> QED BY <1>2, <1>3, <1>4, <1>5 DEF Scanning

\* The execution.
LEMMA ApplyingKeeps ==
    ASSUME IInv, ~disturbed, Types', Applying
    PROVE  IInv'
<1>0. Types /\ Steady /\ (Types' /\ Steady' /\ pc' # "idle" => IInv')
  <2>1. Types' /\ Steady' /\ pc' # "idle" => IInv'
    BY PromisedNext, Zenon
  <2> QED BY <2>1 DEF IInv
<1>1. CASE Confirm \/ ApplyDir \/ ApplyLink \/ BeginTransfer \/ TransferDone \/ TransferCut \/ CopiesDone
  BY <1>0, <1>1, ConfirmSteady, ApplyDirSteady, ApplyLinkSteady, BeginTransferSteady, TransferDoneSteady,
     TransferCutSteady, CopiesDoneSteady
<1>2. ASSUME Stop("cancelled"), dst' = dst, Executing, dropped' = dropped PROVE IInv'
  <2>1. UNCHANGED <<trees, user, scan, dropped>>
    BY <1>2 DEF Executing, trees
  <2> QED BY <1>2, <2>1, Ends DEF Stop
<1>3. CASE CopyNext \/ DeleteNext
  <2>1. Executing /\ dropped' = dropped
    BY <1>3 DEF CopyNext, DeleteNext
  <2>2. \/ Stop("cancelled") /\ dst' = dst
        \/ Stop("failed") /\ UNCHANGED <<dst, idx>> /\ Excused
        \/ Steady' /\ pc' # "idle"
    BY <1>0, <1>3, CopyNextSteady, DeleteNextSteady
  <2>3. CASE Stop("failed") /\ UNCHANGED <<dst, idx>> /\ Excused
    <3>1. UNCHANGED <<trees, user, scan, dropped>>
      BY <2>1, <2>3 DEF Executing, trees
    <3>2. Excused'
      BY <2>3, <3>1 DEF Excused, HoldsHidden, Children, Exists, scan, plan
    <3> QED BY <2>3, <3>1, <3>2, Ends DEF Stop
  <2> QED BY <1>0, <1>2, <2>1, <2>2, <2>3
<1>4. CASE TransferCancelled
  <2>1. Stop("cancelled") /\ dst' = dst /\ Executing /\ dropped' = dropped
    BY <1>4 DEF TransferCancelled
  <2> QED BY <1>2, <2>1
<1>5. CASE Decline
  <2>1. UNCHANGED <<trees, user, scan, dropped>> /\ Stop("declined")
    BY <1>5 DEF Decline, ScanStep, Listing
  <2> QED BY <2>1, Ends DEF Stop
<1>6. CASE SyncDone
  <2>1. UNCHANGED <<trees, user, scan, dropped>> /\ Stop("completed") /\ pc = "delete" /\ idx > Len(deletes)
    BY <1>6 DEF SyncDone, Executing, trees
  <2>2. Mirror
    BY <1>0, <2>1, ExecutedMirrors
  <2> QED BY <2>1, <2>2, Ends DEF Stop
<1>7. CASE RemovalFails
  <2>1. OneBroken' /\ KeepsUnrelated' /\ (faulted' \/ Excused')
    BY <1>0, <1>7, RemovalPromises
  <2>2. pc' = "idle" /\ outcome' = "failed"
    BY <1>7 DEF RemovalFails, Stop
  <2>3. Steady'
    BY <2>2 DEF Steady, Scan, Exec
  <2>4. CompletedMirrors' /\ OnlyRealFailures'
    BY <2>1, <2>2 DEF CompletedMirrors, OnlyRealFailures, Excused
  <2> QED BY <2>1, <2>3, <2>4 DEF IInv
<1> QED BY <1>1, <1>3, <1>4, <1>5, <1>6, <1>7, Zenon DEF Applying

\* What has been passed over stays so until the round ends.
LEMMA StaysDisturbed ==
    ASSUME Types, Scanning, ~StartScan, ~disturbed'
    PROVE  ~disturbed
<1>1. ASSUME disturbed' = disturbed PROVE ~disturbed
  BY <1>1
<1>2. CASE BeginScan \/ DiffEntry \/ DiffFile \/ PushDelete \/ ScanDone
  BY <1>1, <1>2 DEF BeginScan, DiffEntry, DiffFile, PushDelete, ScanDone, ScanStep, ScanFails, world
<1>3. CASE ScanFails
  BY <1>1, <1>3 DEF ScanFails, ScanStep
<1>4. CASE DiffDir /\ ~ScanFails
  BY <1>4, DiffDirStep, Zenon DEF Lists, DiffDir
<1>5. CASE PushFullCopy /\ ~ScanFails
  BY <1>5, PushFullCopyStep, Zenon DEF Lists, PushFullCopy
<1>6. CASE WalkForDelete /\ ~ScanFails
  BY <1>6, WalkForDeleteStep, Zenon DEF Lists, WalkForDelete
<1> QED BY <1>2, <1>3, <1>4, <1>5, <1>6 DEF Scanning

LEMMA NextInv == IInv /\ [Next]_vars => IInv'
<1> SUFFICES ASSUME IInv, [Next]_vars PROVE IInv'
  OBVIOUS
<1>1. Types' /\ Types
  BY NextTyped DEF IInv
<1>2. Types' /\ disturbed' => IInv'
  BY NothingPromised, PTL
<1>3. CASE UNCHANGED vars
  BY <1>3, Stuttering
<1>4. CASE OtherProgram
  <2>1. disturbed'
    BY <1>4 DEF OtherProgram
  <2> QED BY <1>1, <1>2, <2>1
<1>5. CASE StartScan
  <2>1. Steady' /\ pc' # "idle"
    BY <1>1, <1>5, StartScanSteady DEF StartScan
  <2>2. Types' /\ Steady' /\ pc' # "idle" => IInv'
    BY PromisedNext, Zenon
  <2> QED BY <1>1, <2>1, <2>2
<1>6. CASE Cancel
  <2>1. pc # "idle" /\ UNCHANGED <<trees, user, scan, idx, opened, dropped, disturbed, pc>>
    BY <1>6 DEF Cancel, world
  <2>2. CASE disturbed
    BY <1>1, <1>2, <2>1, <2>2
  <2>3. CASE ~disturbed
    <3>1. Steady
      BY <2>3 DEF IInv
    <3>2. UNCHANGED <<trees, user, scan, idx, opened, dropped>>
      BY <2>1
    <3>3. Steady' /\ pc' # "idle"
      BY <1>1, <2>1, <3>1, <3>2, StandsStill
    <3>4. Types' /\ Steady' /\ pc' # "idle" => IInv'
      BY PromisedNext, Zenon
    <3> QED BY <1>1, <3>3, <3>4
  <2> QED BY <2>2, <2>3 DEF Types
<1>7. CASE VfsFails
  <2>1. UNCHANGED <<trees, user, scan, dropped>> /\ Stop("failed") /\ faulted' = TRUE /\ disturbed' = disturbed
    BY <1>7 DEF VfsFails, world
  <2>2. CASE disturbed
    BY <1>1, <1>2, <2>1, <2>2
  <2>3. CASE ~disturbed
    BY <1>1, <2>1, <2>3, Ends DEF Stop
  <2> QED BY <2>2, <2>3
<1>8. CASE ~StartScan /\ (Scanning \/ Applying)
  <2>1. CASE disturbed'
    BY <1>1, <1>2, <2>1
  <2>2. CASE ~disturbed'
    <3>1. Scanning => ~disturbed
      BY <1>1, <1>8, <2>2, StaysDisturbed
    <3>2. Applying => disturbed' = disturbed
      BY DEF Applying, Confirm, Decline, CopyNext, RemovalFails, ApplyDir, ApplyLink, BeginTransfer, TransferDone,
             TransferCut, TransferCancelled, CopiesDone, DeleteNext, SyncDone, ScanStep, Executing, world
    <3>3. ~disturbed
      BY <1>8, <2>2, <3>1, <3>2
    <3> QED BY <1>1, <1>8, <2>2, <3>3, ScanningKeeps, ApplyingKeeps
  <2> QED BY <2>1, <2>2
<1> QED BY <1>3, <1>4, <1>5, <1>6, <1>7, <1>8, Zenon DEF Next

-----------------------------------------------------------------------------
(* The theorems.                                                           *)

LEMMA Invariant == Spec => []IInv
BY InitInv, NextInv, PTL DEF Spec

\* A sync that says it is complete, or that there was nothing to do, leaves the
\* destination a mirror of the source, as far as listings show the two and a
\* call's Ok can be trusted: build_sync_plan has missed no entry, and nothing
\* execute_sync_plan did later undid what it did before.
THEOREM CompletedMirrorsTheorem == Spec => []CompletedMirrors
<1>1. IInv => CompletedMirrors
  BY DEF IInv
<1> QED BY <1>1, Invariant, PTL

\* A sync only fails when a call failed on its own, another program has
\* interfered, a listing has passed over an entry it could not read, or a
\* directory that is to go holds a name that is not UTF-8: otherwise the plan's
\* order always works.
THEOREM OnlyRealFailuresTheorem == Spec => []OnlyRealFailures
<1>1. IInv => OnlyRealFailures
  BY DEF IInv
<1> QED BY <1>1, Invariant, PTL

\* Wherever a sync stops, cancelled, failed or half-way through a removal, at
\* most one of the entries it was to copy, and has not been told are done, is
\* neither as it was nor renewed.
THEOREM AtMostOneBrokenTheorem == Spec => []AtMostOneBroken
<1>1. IInv => AtMostOneBroken
  <2> SUFFICES ASSUME IInv, ~disturbed
               PROVE  Cardinality({i \in DOMAIN copies : Broken(i)}) <= 1
    BY DEF AtMostOneBroken
  <2> DEFINE S == {i \in DOMAIN copies : Broken(i)}
  <2>1. \A i, j \in S : i = j
    BY DEF IInv, OneBroken
  <2> HIDE DEF S
  <2>2. CASE S = {}
    BY <2>2, FS_EmptySet DEF S
  <2>3. CASE S # {}
    <3>1. PICK x : x \in S
      BY <2>3
    <3>2. S = {x}
      BY <2>1, <3>1
    <3>3. Cardinality(S) = 1
      BY <3>2, FS_Singleton
    <3> QED BY <3>3 DEF S
  <2> QED BY <2>2, <2>3
<1> QED BY <1>1, Invariant, PTL

\* Without sync_delete_extraneous, what only the destination has is kept,
\* wherever the directories it lies in are directories on both sides.
THEOREM KeepsUnrelatedTheorem == Spec => []KeepsUnrelated
<1>1. IInv => KeepsUnrelated
  BY DEF IInv
<1> QED BY <1>1, Invariant, PTL
=============================================================================
