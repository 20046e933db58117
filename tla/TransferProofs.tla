--------------------------- MODULE TransferProofs ---------------------------
(***************************************************************************)
(* Proofs about TransferJob, for every tree, every number of chunks and    *)
(* every order in which a backend lists a directory: TypeCorrect,          *)
(* NoFileLost, PromptStopTheorem, NoMixedContentTheorem,                   *)
(* ProgressSoundTheorem, CompletedIsCompleteTheorem,                       *)
(* OnlyRealFailuresTheorem and the refinement MoveKeepsContract.           *)
(***************************************************************************)
EXTENDS TransferInvariant, TransferRefinement, FiniteSetTheorems, SequenceTheorems, TLAPS

-----------------------------------------------------------------------------
(* Lemmas on the operators the model is built from.                        *)

\* A listing of a finite set is a sequence of its elements with all of them
\* in it, each once.
LEMMA ListingFacts ==
    ASSUME NEW S, IsFiniteSet(S), NEW f \in Listings(S)
    PROVE  /\ f \in Seq(S)
           /\ \A c \in S : \E i \in DOMAIN f : f[i] = c
           /\ \A i, j \in DOMAIN f : f[i] = f[j] => i = j
           /\ DOMAIN f = 1..Len(f)
  <1>1. Cardinality(S) \in Nat
    BY FS_CardinalityType
  <1>2. f \in [1..Cardinality(S) -> S]
    BY DEF Listings, Bijection, Injection, Surjection
  <1>3. f \in Seq(S) /\ DOMAIN f = 1..Len(f)
    BY <1>1, <1>2
  <1>4. \A c \in S : \E i \in DOMAIN f : f[i] = c
    BY <1>2 DEF Listings, Bijection, Surjection
  <1>5. \A i, j \in DOMAIN f : f[i] = f[j] => i = j
    BY <1>2 DEF Listings, Bijection, Injection, IsInjective
  <1> QED
    BY <1>3, <1>4, <1>5

LEMMA NodeFacts ==
    /\ \A k \in NodeKinds : Leaf(k) \in Node /\ Leaf(k).kind = k
    /\ \A d \in Contents, n \in Nat : File(d, n) \in Node /\ File(d, n).kind = "file"
    /\ Absent \in Node /\ Absent.kind = "none"
    /\ Chunks \in Nat /\ 0 \in Nat
  BY ModeAssumption DEF Leaf, File, Absent, Node, NodeKinds, Contents

\* The frames a listing becomes.
LEMMA VisitListing ==
    ASSUME NEW S \in SUBSET Path, NEW f \in Listings(Visits(S))
    PROVE  /\ f \in Seq([path : Path, post : BOOLEAN])
           /\ \A c \in S : \E i \in DOMAIN f : f[i].path = c
           /\ \A i \in DOMAIN f : f[i].path \in S
  <1>1. IsFiniteSet(S)
    BY PathAssumption, FS_Subset
  <1>2. IsFiniteSet(Visits(S))
    <2> DEFINE g == [p \in S |-> [path |-> p, post |-> FALSE]]
    <2>1. g \in Surjection(S, Visits(S))
      BY DEF Surjection, Visits
    <2> QED BY <1>1, <2>1, FS_Surjection
  <1>3. /\ f \in Seq(Visits(S)) /\ DOMAIN f = 1..Len(f)
        /\ \A c \in Visits(S) : \E i \in DOMAIN f : f[i] = c
    BY <1>2, ListingFacts
  <1>4. Visits(S) \subseteq [path : Path, post : BOOLEAN]
    <2> SUFFICES ASSUME NEW v \in Visits(S) PROVE v \in [path : Path, post : BOOLEAN]
      OBVIOUS
    <2>1. PICK p \in S : v = [path |-> p, post |-> FALSE]
      BY DEF Visits
    <2> QED BY <2>1
  <1>5. f \in Seq([path : Path, post : BOOLEAN])
    BY <1>3, <1>4, SeqMonotonic
  <1>6. \A c \in S : [path |-> c, post |-> FALSE] \in Visits(S)
    BY DEF Visits
  <1>7. \A i \in DOMAIN f : f[i] \in Visits(S)
    BY <1>3, ElementOfSeq
  <1>8. \A v \in Visits(S) : v.path \in S
    <2> SUFFICES ASSUME NEW v \in Visits(S) PROVE v.path \in S
      OBVIOUS
    <2>1. PICK p \in S : v = [path |-> p, post |-> FALSE]
      BY DEF Visits
    <2> QED BY <2>1
  <1>9. ASSUME NEW c \in S PROVE \E i \in DOMAIN f : f[i].path = c
    <2>1. PICK i \in DOMAIN f : f[i] = [path |-> c, post |-> FALSE]
      BY <1>3, <1>6
    <2> QED BY <2>1
  <1>10. \A i \in DOMAIN f : f[i].path \in S
    BY <1>7, <1>8
  <1> QED
    BY <1>5, <1>9, <1>10

\* What a listing shows has a name and is there.
LEMMA ShownFacts ==
    ASSUME NEW t, NEW where, NEW p, NEW shown \in Shown(t, where, p)
    PROVE  /\ shown \subseteq Named(t, p) /\ Named(t, p) \subseteq Children(t, p)
           /\ Children(t, p) \subseteq Path /\ shown \in SUBSET Path
  BY DEF Shown, Named, Children

\* A path lies below itself, and whatever lies in an entry below a path does.
LEMMA BelowFacts ==
    ASSUME NEW p \in Path
    PROVE  /\ p \in Below[p] /\ Below[p] \subseteq Path
           /\ \A c \in Path : Parent[c] \in Below[p] => c \in Below[p]
  <1>1. \A q : q \in Below[p] <=> q \in Path /\ \A S \in SUBSET Path : p \in S /\ ClosedDown(S) => q \in S
    BY DEF Below
  <1>2. ASSUME NEW c \in Path, Parent[c] \in Below[p] PROVE c \in Below[p]
    <2> SUFFICES ASSUME NEW S \in SUBSET Path, p \in S, ClosedDown(S) PROVE c \in S
      BY <1>1
    <2>1. Parent[c] \in S
      BY <1>1, <1>2
    <2> QED BY <2>1 DEF ClosedDown
  <1> QED BY <1>1, <1>2

\* An entry below a path, other than that path, lies in an entry below it.
LEMMA BelowParent ==
    ASSUME NEW p \in Path, NEW q \in Below[p], q # p
    PROVE  q \in Path /\ Parent[q] \in Below[p]
  <1>1. \A c : c \in Below[p] <=> c \in Path /\ \A S \in SUBSET Path : p \in S /\ ClosedDown(S) => c \in S
    BY DEF Below
  <1> DEFINE S == Below[p] \ {q}
  <1>2. S \in SUBSET Path /\ p \in S
    BY BelowFacts
  <1>3. ~ClosedDown(S)
    BY <1>1, <1>2
  <1>4. PICK c \in Path : Parent[c] \in S /\ c \notin S
    BY <1>3 DEF ClosedDown
  <1>5. c \in Below[p]
    BY <1>4, BelowFacts
  <1> QED BY <1>1, <1>4, <1>5

\* So does what lies below an entry that was not shown.
LEMMA UnseenFacts ==
    ASSUME TypeOK
    PROVE  /\ \A p \in missed : Unseen(p)
           /\ \A c \in Path : Unseen(Parent[c]) => Unseen(c)
           /\ missed = {} => \A p : ~Unseen(p)
  <1>1. missed \subseteq Path
    BY DEF TypeOK
  <1>2. ASSUME NEW p \in missed PROVE Unseen(p)
    BY <1>1, BelowFacts DEF Unseen
  <1>3. ASSUME NEW c \in Path, Unseen(Parent[c]) PROVE Unseen(c)
    <2>1. PICK q \in missed : Parent[c] \in Below[q]
      BY <1>3 DEF Unseen
    <2>2. c \in Below[q]
      BY <1>1, <2>1, BelowFacts
    <2> QED BY <2>2 DEF Unseen
  <1>4. missed = {} => \A p : ~Unseen(p)
    BY DEF Unseen
  <1> QED BY <1>2, <1>3, <1>4

\* Likewise of an entry that no listing shows.
LEMMA UnlistedFacts ==
    /\ \A p \in NotUtf8 : Unlisted(p)
    /\ \A c \in Path : Unlisted(Parent[c]) => Unlisted(c)
    /\ \A c \in Path : c \notin NotUtf8 /\ ~Unlisted(Parent[c]) => ~Unlisted(c)
    /\ \A c \in Items : ~Unlisted(c)
  <1>1. NotUtf8 \subseteq Path
    BY NotUtf8Assumption
  <1>2. ASSUME NEW p \in NotUtf8 PROVE Unlisted(p)
    BY <1>1, BelowFacts DEF Unlisted
  <1>3. ASSUME NEW c \in Path, Unlisted(Parent[c]) PROVE Unlisted(c)
    <2>1. PICK q \in NotUtf8 : Parent[c] \in Below[q]
      BY <1>3 DEF Unlisted
    <2>2. c \in Below[q]
      BY <1>1, <2>1, BelowFacts
    <2> QED BY <2>2 DEF Unlisted
  <1>4. ASSUME NEW c \in Path, c \notin NotUtf8, ~Unlisted(Parent[c]) PROVE ~Unlisted(c)
    <2> SUFFICES ASSUME NEW q \in NotUtf8, c \in Below[q] PROVE FALSE
      BY DEF Unlisted
    <2>1. Parent[c] \in Below[q]
      BY <1>1, <1>4, BelowParent
    <2> QED BY <1>4, <2>1 DEF Unlisted
  <1>5. ASSUME NEW c \in Items PROVE ~Unlisted(c)
    <2>1. c \in Path /\ Parent[c] = Root /\ c \notin NotUtf8 /\ Root \notin Path
      BY PathAssumption, NotUtf8Assumption
    <2>2. ~Unlisted(Root)
      BY <1>1, <2>1, BelowFacts DEF Unlisted
    <2> QED BY <1>4, <2>1, <2>2
  <1> QED BY <1>2, <1>3, <1>4, <1>5

\* What was not shown stays that way.
LEMMA UnseenStays ==
    ASSUME missed \subseteq missed', NEW p, Unseen(p)
    PROVE  Unseen(p)'
  BY DEF Unseen

\* The entry being worked on is a planned entry.
LEMMA ItemTyped ==
    ASSUME TypeOK, idx <= Len(plan)
    PROVE  /\ Item \in [path : Path, kind : NodeKinds]
           /\ Item.path \in Path /\ Item.kind \in NodeKinds
           /\ idx \in DOMAIN plan
  <1>1. plan \in Seq([path : Path, kind : NodeKinds]) /\ idx \in 1..Len(plan)
    BY DEF TypeOK
  <1>2. Item \in [path : Path, kind : NodeKinds]
    BY <1>1, ElementOfSeq DEF Item
  <1> QED BY <1>1, <1>2, LenProperties

\* The frame the walk visits next, and the ones after it.
LEMMA HeadTyped ==
    ASSUME TypeOK, todo # <<>>
    PROVE  /\ Head(todo) \in [path : Path, post : BOOLEAN]
           /\ Head(todo).path \in Path
           /\ Head(todo) = todo[1] /\ 1 \in DOMAIN todo
           /\ Tail(todo) \in Seq([path : Path, post : BOOLEAN])
           /\ \A i \in DOMAIN todo : i # 1 =>
                  \E j \in DOMAIN Tail(todo) : Tail(todo)[j] = todo[i]
           /\ \A j \in DOMAIN Tail(todo) : \E i \in DOMAIN todo : todo[i] = Tail(todo)[j]
  <1>1. /\ Head(todo) \in [path : Path, post : BOOLEAN]
        /\ Tail(todo) \in Seq([path : Path, post : BOOLEAN])
    BY HeadTailProperties DEF TypeOK
  <1>2. Head(todo) = todo[1]
    BY DEF TypeOK
  <1>3. /\ Len(Tail(todo)) = Len(todo) - 1 /\ DOMAIN todo = 1..Len(todo) /\ Len(todo) \in Nat
        /\ DOMAIN Tail(todo) = 1..Len(Tail(todo))
        /\ \A j \in 1..Len(Tail(todo)) : Tail(todo)[j] = todo[j+1]
    BY HeadTailProperties, LenProperties DEF TypeOK
  <1>4. Len(todo) # 0
    BY DEF TypeOK
  <1>5. \A i \in DOMAIN todo : i # 1 => i - 1 \in DOMAIN Tail(todo) /\ Tail(todo)[i - 1] = todo[i]
    BY <1>3
  <1>6. \A j \in DOMAIN Tail(todo) : j + 1 \in DOMAIN todo /\ todo[j + 1] = Tail(todo)[j]
    BY <1>3
  <1>7. Head(todo).path \in Path
    BY <1>1
  <1>8. 1 \in DOMAIN todo
    BY <1>3, <1>4
  <1>9. \A i \in DOMAIN todo : i # 1 => \E j \in DOMAIN Tail(todo) : Tail(todo)[j] = todo[i]
    BY <1>5
  <1>10. \A j \in DOMAIN Tail(todo) : \E i \in DOMAIN todo : todo[i] = Tail(todo)[j]
    BY <1>6
  <1> QED BY <1>1, <1>2, <1>7, <1>8, <1>9, <1>10

-----------------------------------------------------------------------------
(* Type correctness.                                                       *)

LEMMA InitTyped == Init => TypeOK
  <1> SUFFICES ASSUME Init PROVE TypeOK
    OBVIOUS
  <1>1. /\ src \in [Path -> Node] /\ dst \in [Path -> Node] /\ orig \in [Path -> Node]
    <2>1. {Absent, Leaf("dir"), Leaf("link"), File("orig", Chunks), File("old", Chunks)} \subseteq Node
      BY NodeFacts DEF NodeKinds, Contents
    <2>2. src \in [Path -> Node] /\ orig = src
      BY <2>1 DEF Init, InitialTrees
    <2>3. CASE SameDir
      BY <2>2, <2>3 DEF Init, InitialTrees
    <2>4. CASE ~SameDir
      BY <2>1, <2>2, <2>4 DEF Init, InitialTrees
    <2> QED BY <2>2, <2>3, <2>4
  <1>2. kind \in JobKinds /\ pc \in PCs
    BY ModeAssumption DEF Init, FirstPc, JobKinds, PCs
  <1>3. /\ todo \in Seq([path : Path, post : BOOLEAN])
        /\ plan \in Seq([path : Path, kind : NodeKinds])
    <2> DEFINE P == {[path |-> p, kind |-> src[p].kind] : p \in Items}
    <2>1. Items \in SUBSET Path /\ IsFiniteSet(Items)
      BY PathAssumption, FS_Subset
    <2>2. IsFiniteSet(P)
      <3> DEFINE g == [p \in Items |-> [path |-> p, kind |-> src[p].kind]]
      <3>1. g \in Surjection(Items, P)
        BY DEF Surjection
      <3> QED BY <2>1, <3>1, FS_Surjection
    <2>3. P \subseteq [path : Path, kind : NodeKinds]
      BY <2>1, <1>1 DEF Node
    <2>4. CASE kind = "rename"
      <3>1. todo = <<>> /\ plan \in Listings(P)
        BY <2>4 DEF Init
      <3>2. plan \in Seq(P)
        BY <3>1, <2>2, ListingFacts
      <3>3. plan \in Seq([path : Path, kind : NodeKinds])
        BY <3>2, <2>3, SeqMonotonic
      <3> QED BY <3>1, <3>3, EmptySeq
    <2>5. CASE kind # "rename"
      <3>1. todo \in Listings(Visits(Items)) /\ plan = <<>>
        BY <2>5 DEF Init
      <3>2. todo \in Seq([path : Path, post : BOOLEAN])
        BY <3>1, <2>1, VisitListing
      <3> QED BY <3>1, <3>2, EmptySeq
    <2> QED BY <2>4, <2>5
  <1>4. /\ idx \in Nat \ {0} /\ pos \in Nat /\ done \in Nat /\ total \in Nat
        /\ transport \in {"none", "stream", "upload", "download"}
        /\ reader \in Node /\ held \in Node
    BY <1>3, NodeFacts DEF Init
  <1>5. /\ cancelled \in BOOLEAN /\ faulted \in BOOLEAN
        /\ outcome \in {"none", "completed", "cancelled", "failed"}
        /\ touched = {} /\ copied = {} /\ missed = {} /\ cut = {} /\ late = {}
        /\ edits \in Nat
    BY DEF Init
  <1> QED
    BY <1>1, <1>2, <1>3, <1>4, <1>5 DEF TypeOK

\* What the writing steps do to the two trees, as far as types go.
LEMMA TreeSteps ==
    ASSUME TypeOK, NEW p \in Path
    PROVE  /\ \A n \in Node : PutDst(p, n) => src' \in [Path -> Node] /\ dst' \in [Path -> Node]
           /\ DropSrc(p) => src' \in [Path -> Node] /\ dst' \in [Path -> Node]
           /\ src[p] \in Node /\ dst[p] \in Node
  BY NodeFacts DEF TypeOK, PutDst, DropSrc

LEMMA GrownTyped ==
    ASSUME NEW f \in Node, NEW d \in Contents
    PROVE  Grown(f, d) \in Node
  <1>1. (IF f.len = 0 \/ f.data = d THEN d ELSE "torn") \in Contents /\ f.len + 1 \in Nat
    BY DEF Node, Contents
  <1> QED BY <1>1, NodeFacts DEF Grown

LEMMA NextTyped == TypeOK /\ [Next]_vars => TypeOK'
  <1> SUFFICES ASSUME TypeOK, [Next]_vars PROVE TypeOK'
    OBVIOUS
  <1> USE DEF trees, walk, xfer, progress, history, End, Goto, PCs
  <1> DEFINE Frame == [path : Path, post : BOOLEAN]
             Entry == [path : Path, kind : NodeKinds]
  <1>0. /\ todo # <<>> => Head(todo) \in Frame /\ Tail(todo) \in Seq(Frame)
        /\ \A e \in Entry : Append(plan, e) \in Seq(Entry)
        /\ \A s, t \in Seq(Frame) : s \o t \in Seq(Frame)
        /\ <<>> \in Seq(Entry) /\ Len(plan) \in Nat
        /\ \A p \in Path, k \in NodeKinds : Planned(p, k) \in Entry
        /\ \A p \in Path : <<[path |-> p, post |-> TRUE]>> \in Seq(Frame)
    <2>1. todo # <<>> => Head(todo) \in Frame /\ Tail(todo) \in Seq(Frame)
      BY HeadTailProperties DEF TypeOK
    <2>2. \A e \in Entry : Append(plan, e) \in Seq(Entry)
      BY DEF TypeOK
    <2>3. \A s, t \in Seq(Frame) : s \o t \in Seq(Frame)
      BY ConcatProperties
    <2>4. <<>> \in Seq(Entry) /\ Len(plan) \in Nat
      BY EmptySeq DEF TypeOK
    <2>5. \A p \in Path, k \in NodeKinds : Planned(p, k) \in Entry
      BY DEF Planned
    <2>6. \A p \in Path : <<[path |-> p, post |-> TRUE]>> \in Seq(Frame)
      OBVIOUS
    <2> QED BY <2>1, <2>2, <2>3, <2>4, <2>5, <2>6
  <1>1. CASE WalkForCopy
    <2> DEFINE p == Head(todo).path
    <2>1. p \in Path /\ todo # <<>> /\ src[p] \in Node
      BY <1>0, <1>1 DEF WalkForCopy, TypeOK
    <2>2. ASSUME NEW shown \in Shown(src, SrcWhere, p), NEW kids \in Listings(Visits(shown))
          PROVE  kids \o Tail(todo) \in Seq(Frame)
      <3>1. shown \in SUBSET Path
        BY ShownFacts
      <3>2. kids \in Seq(Frame)
        BY <3>1, VisitListing
      <3> QED BY <3>2, <2>1, <1>0
    <2>3. todo' \in Seq(Frame) /\ plan' \in Seq(Entry) /\ idx' = idx
      <3>1. CASE ~Exists(src, p)
        BY <1>1, <3>1 DEF WalkForCopy, TypeOK
      <3>2. CASE Exists(src, p)
        <4>1. plan' = Append(plan, Planned(p, src[p].kind)) /\ idx' = idx
          BY <1>1, <3>2 DEF WalkForCopy
        <4>2. Planned(p, src[p].kind) \in Entry
          BY <1>0, <2>1 DEF Node
        <4>3. todo' \in Seq(Frame)
          BY <1>0, <1>1, <2>1, <2>2, <3>2 DEF WalkForCopy
        <4> QED BY <4>1, <4>2, <4>3, <1>0
      <3> QED BY <3>1, <3>2
    <2>4. missed' \subseteq Path /\ faulted' \in BOOLEAN
      <3>1. missed' \subseteq missed \cup Named(src, p)
        BY <1>1 DEF WalkForCopy
      <3>2. Named(src, p) \subseteq Path
        BY DEF Named, Children
      <3>3. faulted' \in BOOLEAN
        BY <1>1 DEF WalkForCopy, TypeOK
      <3> QED BY <3>1, <3>2, <3>3 DEF TypeOK
    <2>5. /\ UNCHANGED <<src, dst, kind, transport, reader, pos, held, done, total, cancelled,
                         orig, touched, edits, copied, cut, late>>
          /\ pc' \in {"copyWalk", "done"} /\ outcome' \in {outcome, "failed"}
      BY <1>1 DEF WalkForCopy
    <2> QED BY <2>3, <2>4, <2>5 DEF TypeOK
  <1>2. CASE StartCopying
    <2>1. Cardinality({i \in DOMAIN plan : plan[i].kind # "dir"}) \in Nat
      <3>1. DOMAIN plan = 1..Len(plan)
        BY LenProperties DEF TypeOK
      <3>2. IsFiniteSet(DOMAIN plan)
        BY <3>1, <1>0, FS_Interval
      <3>3. IsFiniteSet({i \in DOMAIN plan : plan[i].kind # "dir"})
        BY <3>2, FS_Subset
      <3> QED BY <3>3, FS_CardinalityType
    <2> QED BY <1>2, <2>1 DEF StartCopying, TypeOK, Negotiated
  <1>3. CASE CopyNext
    BY <1>3 DEF CopyNext, TypeOK
  <1>4. CASE CopyDir
    <2>1. Item.path \in Path
      BY <1>4, ItemTyped DEF CopyDir, AtItem
    <2>2. src' \in [Path -> Node] /\ dst' \in [Path -> Node]
      BY <1>4, <2>1, TreeSteps, NodeFacts DEF CopyDir, TypeOK, NodeKinds
    <2> QED BY <1>4, <2>1, <2>2 DEF CopyDir, TypeOK, ItemCopied, MarkLate
  <1>5. CASE CopyLink
    <2>1. Item.path \in Path
      BY <1>5, ItemTyped DEF CopyLink, AtItem
    <2>2. src' \in [Path -> Node] /\ dst' \in [Path -> Node]
      BY <1>5, <2>1, TreeSteps, NodeFacts DEF CopyLink, TypeOK, NodeKinds
    <2>3. faulted' \in BOOLEAN /\ late' \in {late, late \cup {Item.path}}
      BY <1>5 DEF CopyLink, TypeOK, MarkLate
    <2>4. UNCHANGED <<kind, todo, plan, xfer, progress, cancelled, history, cut>> /\ ItemCopied
      BY <1>5 DEF CopyLink
    <2> QED BY <2>1, <2>2, <2>3, <2>4 DEF TypeOK, ItemCopied
  <1>6. CASE BeginTransfer
    BY <1>6 DEF BeginTransfer, TypeOK
  <1>7. CASE OpenSource
    <2>1. src[Item.path] \in Node
      BY <1>7, ItemTyped, TreeSteps DEF OpenSource, AtItem
    <2> QED BY <1>7, <2>1, NodeFacts DEF OpenSource, TypeOK, Error
  <1>8. CASE CreateDest
    <2>1. Item.path \in Path
      BY <1>8, ItemTyped DEF CreateDest, AtItem
    <2>2. src' \in [Path -> Node] /\ dst' \in [Path -> Node] /\ reader' \in Node
      BY <1>8, <2>1, TreeSteps, NodeFacts DEF CreateDest, TypeOK, Contents
    <2> QED BY <1>8, <2>1, <2>2 DEF CreateDest, TypeOK, MarkLate, Error
  <1>9. CASE ReadChunk
    <2>1. held' \in Node /\ pos' \in Nat
      <3>1. held \in Node /\ reader \in Node /\ pos \in Nat
        BY DEF TypeOK
      <3>2. Grown(held, reader.data) \in Node
        BY <3>1, GrownTyped DEF Node
      <3> QED BY <1>9, <3>1, <3>2 DEF ReadChunk
    <2> QED BY <1>9, <2>1 DEF ReadChunk, TypeOK
  <1>24. CASE WriteChunk
    <2>1. Item.path \in Path /\ dst[Item.path] \in Node /\ held \in Node
      BY <1>24, ItemTyped, TreeSteps DEF WriteChunk, AtItem, TypeOK
    <2>2. Grown(dst[Item.path], held.data) \in Node
      BY <2>1, GrownTyped DEF Node
    <2>3. src' \in [Path -> Node] /\ dst' \in [Path -> Node]
      BY <1>24, <2>1, <2>2, TreeSteps DEF WriteChunk
    <2>4. held' \in Node
      <3>1. held.data \in Contents /\ held.len \in Nat
        BY <2>1 DEF Node
      <3>2. held.len > 0
        BY <1>24 DEF WriteChunk
      <3>3. held.len - 1 \in Nat
        BY <3>1, <3>2
      <3>4. File(held.data, held.len - 1) \in Node /\ Absent \in Node
        BY <3>1, <3>3, NodeFacts
      <3> QED BY <1>24, <3>4 DEF WriteChunk
    <2>5. late' \in {late, late \cup {Item.path}}
      BY <1>24 DEF WriteChunk, MarkLate
    <2> QED BY <1>24, <2>1, <2>3, <2>4, <2>5 DEF WriteChunk, TypeOK
  <1>10. CASE TransferDone \/ TransferCut
    <2>1. Item.path \in Path
      BY <1>10, ItemTyped DEF TransferDone, TransferCut, AtItem
    <2>2. faulted' \in BOOLEAN /\ cut' \subseteq Path
      BY <1>10, <2>1 DEF TransferDone, TransferCut, TypeOK
    <2>3. done' \in Nat
      BY <1>10 DEF TransferDone, TransferCut, Transferred, TypeOK
    <2>4. UNCHANGED <<kind, todo, plan, xfer, total, cancelled, history, late>> /\ ItemCopied
      BY <1>10 DEF TransferDone, TransferCut, Transferred
    <2>5. src' \in [Path -> Node] /\ dst' \in [Path -> Node]
      <3>1. CASE UNCHANGED trees
        BY <3>1 DEF TypeOK
      <3>2. CASE dst[Item.path].len > 0 /\ PutDst(Item.path, [dst[Item.path] EXCEPT !.len = @ - 1])
        <4>1. dst[Item.path] \in Node
          BY <2>1 DEF TypeOK
        <4>2. [dst[Item.path] EXCEPT !.len = @ - 1] \in Node
          BY <3>2, <4>1 DEF Node
        <4> QED BY <2>1, <3>2, <4>2, TreeSteps
      <3> QED BY <1>10, <3>1, <3>2 DEF TransferDone, TransferCut
    <2> QED BY <2>1, <2>2, <2>3, <2>4, <2>5 DEF TypeOK, ItemCopied
  <1>11. CASE TransferCancelled
    BY <1>11 DEF TransferCancelled, TypeOK
  <1>12. CASE CopyFinished
    <2>1. \A items \in Listings(Visits(Items)) : items \in Seq(Frame)
      BY PathAssumption, VisitListing
    <2>2. CASE kind = "copy"
      BY <1>12, <2>2 DEF CopyFinished, TypeOK
    <2>3. CASE kind # "copy"
      <3>1. /\ todo' \in Seq(Frame) /\ plan' = <<>> /\ idx' = 1 /\ done' = 0 /\ total' = 0
            /\ Goto("delWalk")
        BY <1>12, <2>1, <2>3 DEF CopyFinished
      <3>2. UNCHANGED <<trees, kind, xfer, cancelled, history, copied, cut, late, faulted>>
        BY <1>12 DEF CopyFinished
      <3> QED BY <1>0, <3>1, <3>2 DEF TypeOK
    <2> QED BY <2>2, <2>3
  <1>13. CASE WalkForDelete
    <2> DEFINE p == Head(todo).path
    <2>1. p \in Path /\ todo # <<>> /\ src[p] \in Node
      BY <1>0, <1>13 DEF WalkForDelete, TypeOK
    <2>2. ASSUME NEW shown \in Shown(src, SrcWhere, p), NEW kids \in Listings(Visits(shown))
          PROVE  kids \o <<[path |-> p, post |-> TRUE]>> \o Tail(todo) \in Seq(Frame)
      <3>1. shown \in SUBSET Path
        BY ShownFacts
      <3>2. kids \in Seq(Frame)
        BY <3>1, VisitListing
      <3> QED BY <3>2, <2>1, <1>0
    <2>3. todo' \in Seq(Frame) /\ plan' \in Seq(Entry) /\ idx' = idx
      <3>1. \A k \in {"dir", src[p].kind} : Append(plan, Planned(p, k)) \in Seq(Entry)
        BY <1>0, <2>1 DEF Node, NodeKinds
      <3>2. \/ todo' \in {todo, Tail(todo)}
            \/ \E shown \in Shown(src, SrcWhere, p) : \E kids \in Listings(Visits(shown)) :
                   todo' = kids \o <<[path |-> p, post |-> TRUE]>> \o Tail(todo)
        BY <1>13 DEF WalkForDelete
      <3>3. plan' = plan \/ \E k \in {"dir", src[p].kind} : plan' = Append(plan, Planned(p, k))
        BY <1>13 DEF WalkForDelete
      <3>4. todo' \in Seq(Frame)
        <4>1. todo \in Seq(Frame) /\ Tail(todo) \in Seq(Frame)
          BY <1>0, <2>1 DEF TypeOK
        <4> QED BY <2>2, <3>2, <4>1
      <3>5. plan' \in Seq(Entry)
        BY <3>1, <3>3 DEF TypeOK
      <3>6. idx' = idx
        BY <1>13 DEF WalkForDelete
      <3> QED BY <3>4, <3>5, <3>6
    <2>4. faulted' \in BOOLEAN
      BY <1>13 DEF WalkForDelete, TypeOK
    <2>5. /\ UNCHANGED <<src, dst, kind, transport, reader, pos, held, done, total, cancelled,
                         orig, touched, edits, copied, missed, cut, late>>
          /\ pc' \in {"delWalk", "done"} /\ outcome' \in {outcome, "failed"}
      BY <1>13 DEF WalkForDelete
    <2> QED BY <2>3, <2>4, <2>5 DEF TypeOK
  <1>14. CASE StartDeleting
    BY <1>14, <1>0 DEF StartDeleting, TypeOK
  <1>15. CASE DeleteNext
    BY <1>15 DEF DeleteNext, TypeOK
  <1>16. CASE DeleteItem
    <2>1. Item.path \in Path
      BY <1>16, ItemTyped DEF DeleteItem, AtItem
    <2>2. src' \in [Path -> Node] /\ dst' \in [Path -> Node]
      BY <1>16, <2>1, TreeSteps DEF DeleteItem, TypeOK
    <2> QED BY <1>16, <2>1, <2>2 DEF DeleteItem, TypeOK, MarkLate
  <1>17. CASE RenameNext
    BY <1>17 DEF RenameNext, TypeOK
  <1>18. CASE RenameItem
    <2>1. src' \in [Path -> Node] /\ dst' \in [Path -> Node]
      <3>1. CASE CanRename(Item.path)
        <4>1. /\ dst' = [q \in Path |-> IF ItemOf[q] = Item.path THEN src[q] ELSE dst[q]]
              /\ src' = [q \in Path |-> IF ItemOf[q] = Item.path THEN Absent ELSE src[q]]
          BY <1>18, <3>1 DEF RenameItem
        <4>2. Absent \in Node /\ \A q \in Path : src[q] \in Node /\ dst[q] \in Node
          BY NodeFacts DEF TypeOK
        <4> QED BY <4>1, <4>2
      <3>2. CASE ~CanRename(Item.path)
        BY <1>18, <3>2 DEF RenameItem, TypeOK
      <3> QED BY <3>1, <3>2
    <2>2. Item.path \in Path
      BY <1>18, ItemTyped DEF RenameItem, AtItem
    <2> QED BY <1>18, <2>1, <2>2 DEF RenameItem, TypeOK, MarkLate
  <1>19. CASE JobFinished
    BY <1>19 DEF JobFinished, TypeOK
  <1>20. CASE VfsFails
    BY <1>20 DEF VfsFails, TypeOK, Error
  <1>21. CASE Cancel
    BY <1>21 DEF Cancel, TypeOK
  <1>22. CASE OtherProgram
    <2>1. PICK p \in Path :
              /\ \/ src' = [src EXCEPT ![p] = File("edited", Chunks)]
                 \/ src' = [src EXCEPT ![p] = Absent]
              /\ reader' \in {reader, File("edited", Chunks)}
              /\ dst' \in {src', dst}
              /\ touched' = touched \cup {p}
      BY <1>22 DEF OtherProgram
    <2>2. File("edited", Chunks) \in Node /\ Absent \in Node
      BY NodeFacts DEF Contents
    <2>3. src' \in [Path -> Node] /\ dst' \in [Path -> Node] /\ reader' \in Node
      BY <2>1, <2>2 DEF TypeOK
    <2>4. touched' \in SUBSET Path /\ edits' \in Nat
      BY <1>22, <2>1 DEF OtherProgram, TypeOK
    <2> QED BY <1>22, <2>3, <2>4 DEF OtherProgram, TypeOK
  <1>25. CASE ChmodFails
    <2>1. Item.path \in Path
      BY <1>25, ItemTyped DEF ChmodFails, AtItem
    <2>2. src' \in [Path -> Node] /\ dst' \in [Path -> Node]
      BY <1>25, <2>1, TreeSteps, NodeFacts DEF ChmodFails, NodeKinds
    <2> QED BY <1>25, <2>1, <2>2 DEF ChmodFails, TypeOK, MarkLate
  <1>23. CASE UNCHANGED vars
    BY <1>23 DEF vars, TypeOK
  <1> QED
    BY <1>1, <1>2, <1>3, <1>4, <1>5, <1>6, <1>7, <1>8, <1>9, <1>10, <1>11, <1>12, <1>13,
       <1>14, <1>15, <1>16, <1>17, <1>18, <1>19, <1>20, <1>21, <1>22, <1>23,
       <1>24, <1>25
       DEF Next, JobStep, WriteAllRetries, Terminated

\* In every reachable state every variable holds a value of its type.
THEOREM TypeCorrect == Spec => []TypeOK
  BY InitTyped, NextTyped, PTL DEF Spec

-----------------------------------------------------------------------------
(* A move never loses a file.  The two panels show different directories   *)
(* (the configuration CopyOntoItself shows what happens otherwise).        *)

Sound == ~SameDir

\* A step that ends the job and leaves both trees as they are.
LEMMA EndKeepsCore ==
    ASSUME IInv, pc' = "done", UNCHANGED <<src, dst, kind, orig, touched, missed>>, cut \subseteq cut'
    PROVE  Core'
  <1>1. OrigIsTree' /\ SourceKnown'
    BY DEF IInv, Core, OrigIsTree, SourceKnown, Exists, Dirs, Copying
  <1>2. KindsMatch' /\ Closed' /\ TransferExact' /\ CopiedIsWhole' /\ DeletesKnown' /\ RenamesWhole'
    BY DEF KindsMatch, Closed, TransferExact, CopiedIsWhole, DeletesKnown, RenamesWhole,
           Copying, Deleting, Renaming
  <1>3. NothingLost'
    BY DEF IInv, Core, NothingLost, Unseen, Original, Exists
  <1> QED BY <1>1, <1>2, <1>3 DEF Core

\* The parts of Core that only look at the source.
LEMMA SourceSame ==
    ASSUME IInv, UNCHANGED <<src, orig, touched>>, pc' \in Copying => pc \in Copying
    PROVE  OrigIsTree' /\ SourceKnown'
  BY DEF IInv, Core, OrigIsTree, SourceKnown, Exists, Dirs

LEMMA LostSame ==
    ASSUME IInv, UNCHANGED <<src, dst, kind, orig, touched>>,
           missed \subseteq missed', cut \subseteq cut'
    PROVE  NothingLost'
  BY UnseenStays DEF IInv, Core, NothingLost, Original, Exists

\* The job is copying, so nothing is said of deletions and renames.
LEMMA CopyingOnly ==
    ASSUME IInv, pc \in Copying, pc' \in Copying, kind' = kind
    PROVE  DeletesKnown' /\ RenamesWhole'
  BY DEF IInv, Core, KindsMatch, DeletesKnown, RenamesWhole, Copying, Deleting, Renaming

LEMMA InitCore == Init => Core
  <1> SUFFICES ASSUME Init PROVE Core
    OBVIOUS
  <1>0. TypeOK
    BY InitTyped
  <1>1. /\ src = orig /\ touched = {} /\ copied = {} /\ idx = 1
        /\ pc = FirstPc(kind) /\ kind \in JobKinds
    BY <1>0 DEF Init, TypeOK
  <1>2. OrigIsTree
    BY <1>1 DEF Init, InitialTrees, OrigIsTree, WellFormed
  <1>3. SourceKnown /\ KindsMatch /\ TransferExact /\ NothingLost
    BY <1>1 DEF SourceKnown, KindsMatch, TransferExact, NothingLost, Unseen, FirstPc, Original,
                Exists, JobKinds, Copying, Deleting, Renaming
  <1>4. Closed
    <2> SUFFICES ASSUME pc \in Copying PROVE Closed
      BY DEF Closed
    <2>1. kind # "rename" /\ pc = "copyWalk"
      BY <1>1 DEF Copying, FirstPc
    <2>2. todo \in Listings(Visits(Items)) /\ plan = <<>>
      BY <2>1 DEF Init
    <2>3. \A c \in Items : \E i \in DOMAIN todo : todo[i].path = c
      BY <2>2, PathAssumption, VisitListing
    <2>4. Items \subseteq TodoPaths /\ PlannedPaths = {} /\ DOMAIN plan = {}
      BY <2>2, <2>3 DEF TodoPaths, PlannedPaths
    <2> QED BY <2>1, <2>4 DEF Closed
  <1>5. CopiedIsWhole
    BY <1>0, <1>1 DEF CopiedIsWhole, TypeOK
  <1>6. DeletesKnown
    BY <1>1 DEF DeletesKnown, FirstPc, Deleting
  <1>7. RenamesWhole
    <2> SUFFICES ASSUME kind = "rename" PROVE RenamesWhole
      BY DEF RenamesWhole
    <2> DEFINE P == {[path |-> p, kind |-> src[p].kind] : p \in Items}
    <2>1. IsFiniteSet(Items) /\ IsFiniteSet(P)
      <3>1. IsFiniteSet(Items)
        BY PathAssumption, FS_Subset
      <3> DEFINE g == [p \in Items |-> [path |-> p, kind |-> src[p].kind]]
      <3>2. g \in Surjection(Items, P)
        BY DEF Surjection
      <3> QED BY <3>1, <3>2, FS_Surjection
    <2>2. plan \in Listings(P)
      BY DEF Init
    <2>3. /\ plan \in Seq(P) /\ DOMAIN plan = 1..Len(plan)
          /\ \A i, j \in DOMAIN plan : plan[i] = plan[j] => i = j
      BY <2>1, <2>2, ListingFacts
    <2>4. \A i \in DOMAIN plan : plan[i] \in P
      BY <2>3, ElementOfSeq
    <2>5. \A a, b \in P : a.path = b.path => a = b
      OBVIOUS
    <2>6. \A i, j \in DOMAIN plan : plan[i].path = plan[j].path => i = j
      BY <2>3, <2>4, <2>5
    <2>7. \A i \in DOMAIN plan : ~(i < idx)
      BY <1>1, <2>3
    <2> QED BY <1>1, <2>6, <2>7 DEF RenamesWhole
  <1> QED
    BY <1>2, <1>3, <1>4, <1>5, <1>6, <1>7 DEF Core

\* After a step of the first walk an entry planned or listed before is still
\* planned or to be visited, and so are the children of the entry visited.
LEMMA WalkForCopyKeepsCore ==
    ASSUME IInv, TypeOK', WalkForCopy PROVE Core'
  <1> USE DEF trees, walk, xfer, progress, history, End, Goto
  <1> DEFINE p == Head(todo).path
  <1>1. CASE ~Exists(src, p)
    BY <1>1, EndKeepsCore DEF WalkForCopy
  <1>2. CASE Exists(src, p)
    <2>1. /\ pc = "copyWalk" /\ pc' = "copyWalk" /\ todo # <<>> /\ idx' = idx
          /\ plan' = Append(plan, Planned(p, src[p].kind))
          /\ UNCHANGED <<src, dst, kind, orig, touched, transport, copied, reader, pos, cut>>
          /\ missed \subseteq missed'
      BY <1>2 DEF WalkForCopy
    <2>2. p \in Path /\ DOMAIN plan = 1..Len(plan) /\ Len(plan) \in Nat /\ DOMAIN plan' = 1..Len(plan)+1
      <3>1. p \in Path
        BY <2>1, HeadTyped DEF IInv
      <3>2. DOMAIN plan = 1..Len(plan) /\ Len(plan) \in Nat
        BY LenProperties DEF IInv, TypeOK
      <3>3. Len(plan') = Len(plan) + 1
        BY <2>1 DEF IInv, TypeOK
      <3>4. DOMAIN plan' = 1..Len(plan')
        BY LenProperties DEF TypeOK
      <3> QED BY <3>1, <3>2, <3>3, <3>4
    <2>3. /\ \A i \in DOMAIN plan : plan'[i] = plan[i]
          /\ plan'[Len(plan) + 1] = Planned(p, src[p].kind)
      BY <2>1 DEF IInv, TypeOK
    <2>4. PlannedPaths' = PlannedPaths \cup {p}
      <3>1. plan'[Len(plan) + 1].path = p
        BY <2>3 DEF Planned
      <3>2. \A q : q \in PlannedPaths' <=> \E j \in DOMAIN plan' : plan'[j].path = q
        BY DEF PlannedPaths
      <3>3. \A q : q \in PlannedPaths <=> \E j \in DOMAIN plan : plan[j].path = q
        BY DEF PlannedPaths
      <3> QED BY <2>2, <2>3, <3>1, <3>2, <3>3
    <2>5. TodoPaths \subseteq {p} \cup TodoPaths'
      <3>1. \A i \in DOMAIN todo : i = 1 \/ \E j \in DOMAIN Tail(todo) : Tail(todo)[j] = todo[i]
        BY <2>1, HeadTyped DEF IInv
      <3>2. \A i \in DOMAIN Tail(todo) : \E j \in DOMAIN todo' : todo'[j] = Tail(todo)[i]
        <4>1. CASE src[p].kind = "dir"
          <5>1. PICK shown \in Shown(src, SrcWhere, p) : \E kids \in Listings(Visits(shown)) : todo' = kids \o Tail(todo)
            BY <4>1, <1>2 DEF WalkForCopy
          <5>4. PICK kids \in Listings(Visits(shown)) : todo' = kids \o Tail(todo)
            BY <5>1
          <5>2. /\ kids \in Seq([path : Path, post : BOOLEAN])
                /\ Tail(todo) \in Seq([path : Path, post : BOOLEAN])
            <6>1. shown \in SUBSET Path
              BY ShownFacts
            <6> QED BY <2>1, <6>1, VisitListing, HeadTailProperties DEF IInv, TypeOK
          <5>3. \A i \in DOMAIN Tail(todo) : Len(kids) + i \in DOMAIN todo' /\ todo'[Len(kids) + i] = Tail(todo)[i]
            BY <5>4, <5>2
          <5> QED BY <5>3
        <4>2. CASE src[p].kind # "dir"
          BY <4>2, <1>2 DEF WalkForCopy
        <4> QED BY <4>1, <4>2
      <3>3. Head(todo) = todo[1]
        BY <2>1, HeadTyped DEF IInv
      <3> QED BY <3>1, <3>2, <3>3 DEF TodoPaths
    <2>6. src[p].kind = "dir" => Named(src, p) \subseteq TodoPaths' \cup missed'
      <3> SUFFICES ASSUME src[p].kind = "dir", NEW c \in Named(src, p), c \notin missed' PROVE c \in TodoPaths'
        OBVIOUS
      <3>1. PICK shown \in Shown(src, SrcWhere, p) :
                /\ \E kids \in Listings(Visits(shown)) : todo' = kids \o Tail(todo)
                /\ missed' = missed \cup (Named(src, p) \ shown)
        BY <1>2 DEF WalkForCopy
      <3>5. PICK kids \in Listings(Visits(shown)) : todo' = kids \o Tail(todo)
        BY <3>1
      <3>6. c \in shown /\ shown \in SUBSET Path
        BY <3>1, ShownFacts
      <3>2. PICK i \in DOMAIN kids : kids[i].path = c
        BY <3>6, VisitListing
      <3>3. /\ kids \in Seq([path : Path, post : BOOLEAN])
            /\ Tail(todo) \in Seq([path : Path, post : BOOLEAN])
        BY <2>1, <3>6, VisitListing, HeadTailProperties DEF IInv, TypeOK
      <3>4. i \in DOMAIN todo' /\ todo'[i] = kids[i]
        BY <3>5, <3>2, <3>3
      <3> QED BY <3>2, <3>4 DEF TodoPaths
    <2>7. \A c \in Path : Original(c) /\ Parent[c] = p => c \in TodoPaths' \cup missed' \cup NotUtf8
      <3> SUFFICES ASSUME NEW c \in Path, Original(c), Parent[c] = p
                   PROVE  c \in TodoPaths' \cup missed' \cup NotUtf8
        OBVIOUS
      <3>1. src[c] = orig[c] /\ Exists(src, c)
        BY <2>1 DEF IInv, Core, SourceKnown, Copying, Original, Exists
      <3>2. orig[p].kind = "dir"
        <4>1. Parent[c] \in Dirs(orig)
          BY DEF IInv, Core, OrigIsTree, Exists, Original
        <4>2. p # Root
          BY <2>2, PathAssumption
        <4> QED BY <4>1, <4>2 DEF Dirs
      <3>3. src[p].kind = "dir"
        BY <2>1, <2>2, <3>2 DEF IInv, Core, SourceKnown, Copying
      <3> QED BY <3>1, <3>3, <2>6 DEF Children, Named
    <2>8. p \notin touched => src[p].kind = orig[p].kind
      BY <2>1, <2>2 DEF IInv, Core, SourceKnown, Copying
    <2>9. Closed'
      <3>1. \A j \in DOMAIN plan' : plan'[j].path \notin touched' => plan'[j].kind = orig'[plan'[j].path].kind
        BY <2>1, <2>2, <2>3, <2>8 DEF IInv, Core, Closed, Copying, Planned
      <3>2. Items \subseteq PlannedPaths' \cup TodoPaths'
        BY <2>1, <2>4, <2>5 DEF IInv, Core, Closed, Copying
      <3>3. \A c \in Path : Original(c)' /\ Parent[c] \in PlannedPaths' =>
                c \in PlannedPaths' \cup TodoPaths' \cup missed' \cup NotUtf8
        BY <2>1, <2>4, <2>5, <2>7 DEF IInv, Core, Closed, Copying, Original
      <3> QED BY <2>1, <3>1, <3>2, <3>3 DEF Closed
    <2>10. OrigIsTree' /\ SourceKnown' /\ NothingLost' /\ DeletesKnown' /\ RenamesWhole'
      <3>1. OrigIsTree' /\ SourceKnown' /\ DeletesKnown' /\ RenamesWhole'
        BY <2>1, SourceSame, CopyingOnly DEF Copying
      <3>2. NothingLost'
        BY <2>1, LostSame
      <3> QED BY <3>1, <3>2
    <2>11. KindsMatch' /\ TransferExact'
      BY <2>1 DEF IInv, Core, KindsMatch, TransferExact, Copying, Deleting, Renaming
    <2>12. CopiedIsWhole'
      <3>1. \A i \in DOMAIN plan' : ~(i < idx')
        BY <2>1, <2>2 DEF IInv, Core, CopiedIsWhole
      <3> QED BY <2>1, <2>4, <3>1 DEF IInv, Core, CopiedIsWhole, Copying, Deleting, Original
    <2> QED BY <2>9, <2>10, <2>11, <2>12 DEF Core
  <1> QED BY <1>1, <1>2

LEMMA StartCopyingKeepsCore ==
    ASSUME IInv, TypeOK', StartCopying PROVE Core'
  <1> USE DEF trees, walk, xfer, progress, history, End, Goto
  <1>1. /\ pc = "copyWalk" /\ todo = <<>> /\ pc' = "copyCheck" /\ transport' # "none"
        /\ UNCHANGED <<src, dst, kind, todo, plan, idx, orig, touched, copied, missed, cut>>
    BY DEF StartCopying, Negotiated
  <1>2. OrigIsTree' /\ SourceKnown' /\ NothingLost' /\ DeletesKnown' /\ RenamesWhole'
    BY <1>1, SourceSame, LostSame, CopyingOnly DEF Copying
  <1>3. KindsMatch' /\ TransferExact'
    BY <1>1 DEF IInv, Core, KindsMatch, TransferExact, Copying, Deleting, Renaming
  <1>4. Closed' /\ CopiedIsWhole'
    BY <1>1 DEF IInv, Core, Closed, CopiedIsWhole, PlannedPaths, TodoPaths, Original, Copying, Deleting
  <1> QED BY <1>2, <1>3, <1>4 DEF Core

LEMMA CopyNextKeepsCore ==
    ASSUME IInv, TypeOK', CopyNext PROVE Core'
  <1> USE DEF trees, walk, xfer, progress, history, End, Goto
  <1>1. CASE cancelled
    BY <1>1, EndKeepsCore DEF CopyNext
  <1>2. CASE ~cancelled
    <2>1. /\ pc = "copyCheck" /\ pc' = "copyApply"
          /\ UNCHANGED <<src, dst, kind, todo, plan, idx, transport, orig, touched, copied, missed, cut>>
      BY <1>2 DEF CopyNext, AtItem
    <2>2. OrigIsTree' /\ SourceKnown' /\ NothingLost' /\ DeletesKnown' /\ RenamesWhole'
      BY <2>1, SourceSame, LostSame, CopyingOnly DEF Copying
    <2>3. KindsMatch' /\ TransferExact'
      BY <2>1 DEF IInv, Core, KindsMatch, TransferExact, Copying, Deleting, Renaming
    <2>4. Closed' /\ CopiedIsWhole'
      BY <2>1 DEF IInv, Core, Closed, CopiedIsWhole, PlannedPaths, TodoPaths, Original, Copying, Deleting
    <2> QED BY <2>2, <2>3, <2>4 DEF Core
  <1> QED BY <1>1, <1>2

\* A planned entry's step is over: the tree at the destination changed at most
\* at that entry, and the source not at all.
LEMMA ItemCopiedKeepsCore ==
    ASSUME IInv, TypeOK', ItemCopied,
           pc \in {"copyApply", "pump"}, idx <= Len(plan),
           UNCHANGED <<src, kind, todo, plan, transport, orig, touched, missed>>,
           cut \subseteq cut',
           \A q \in Path : q # Item.path => dst'[q] = dst[q],
           Original(Item.path) /\ orig[Item.path].kind = "file" =>
               dst'[Item.path] = orig[Item.path] \/ Item.path \in cut'
    PROVE  Core'
  <1> USE DEF Goto
  <1>1. pc' = "copyCheck" /\ copied' = copied \cup {Item.path} /\ idx' = idx + 1
    BY DEF ItemCopied
  <1>2. Item.path \in Path /\ idx \in DOMAIN plan /\ Item.path \in PlannedPaths
    BY ItemTyped DEF IInv, PlannedPaths, Item
  <1>3. OrigIsTree' /\ SourceKnown'
    BY <1>1, SourceSame DEF Copying
  <1>4. DeletesKnown' /\ RenamesWhole'
    BY <1>1, CopyingOnly DEF Copying
  <1>5. KindsMatch' /\ TransferExact'
    BY <1>1 DEF IInv, Core, KindsMatch, TransferExact, Copying, Deleting, Renaming
  <1>6. Closed'
    BY <1>1 DEF IInv, Core, Closed, PlannedPaths, TodoPaths, Original, Copying
  <1>7. CopiedIsWhole'
    <2>1. copied' \subseteq PlannedPaths'
      BY <1>1, <1>2 DEF IInv, Core, CopiedIsWhole, PlannedPaths, Copying
    <2>2. \A i \in DOMAIN plan' : i < idx' => plan'[i].path \in copied'
      <3> SUFFICES ASSUME NEW i \in DOMAIN plan, i < idx + 1 PROVE plan[i].path \in copied \cup {Item.path}
        BY <1>1
      <3>1. idx \in Nat /\ i \in Nat
        BY LenProperties DEF IInv, TypeOK
      <3>2. CASE i < idx
        BY <3>2 DEF IInv, Core, CopiedIsWhole, Copying
      <3>3. CASE i = idx
        BY <3>3 DEF Item
      <3> QED BY <3>1, <3>2, <3>3
    <2>3. \A q \in copied' : Original(q)' /\ orig'[q].kind = "file" => dst'[q] = orig'[q] \/ q \in cut'
      <3> SUFFICES ASSUME NEW q \in copied \cup {Item.path}, Original(q), orig[q].kind = "file"
                   PROVE  dst'[q] = orig[q] \/ q \in cut'
        BY <1>1 DEF Original
      <3>1. CASE q = Item.path
        BY <3>1
      <3>2. CASE q # Item.path
        <4>1. q \in copied /\ q \in Path
          BY <3>2, <1>2 DEF IInv, TypeOK
        <4> QED BY <3>2, <4>1 DEF IInv, Core, CopiedIsWhole, Copying
      <3> QED BY <3>1, <3>2
    <2> QED BY <1>1, <2>1, <2>2, <2>3 DEF CopiedIsWhole
  <1>8. NothingLost'
    <2> SUFFICES ASSUME kind = "moveCross" \/ kind = "rename" PROVE NothingLost'
      BY DEF NothingLost, Unseen
    <2>1. \A q \in Path : q \notin touched => src[q] = orig[q]
      BY DEF IInv, Core, SourceKnown, Copying
    <2> QED BY <2>1 DEF NothingLost, Unseen, Original, Exists
  <1> QED BY <1>3, <1>4, <1>5, <1>6, <1>7, <1>8 DEF Core

\* While copying, an untouched planned entry has the kind it was planned with.
LEMMA ItemKind ==
    ASSUME IInv, pc \in Copying, idx <= Len(plan), Item.path \notin touched
    PROVE  /\ Item.kind = orig[Item.path].kind
           /\ src[Item.path] = orig[Item.path]
           /\ Item.kind = "file" => orig[Item.path] = File("orig", Chunks)
  <1>1. Item.path \in Path /\ idx \in DOMAIN plan
    BY ItemTyped DEF IInv
  <1>2. Item.kind = orig[Item.path].kind
    BY <1>1 DEF IInv, Core, Closed, Item
  <1>3. src[Item.path] = orig[Item.path]
    BY <1>1 DEF IInv, Core, SourceKnown
  <1>4. orig[Item.path] \in {Absent, Leaf("dir"), Leaf("link"), File("orig", Chunks)}
    BY <1>1 DEF IInv, Core, OrigIsTree
  <1> QED BY <1>2, <1>3, <1>4, NodeFacts DEF NodeKinds

LEMMA CopyDirKeepsCore ==
    ASSUME ~SameDir, IInv, TypeOK', CopyDir PROVE Core'
  <1> USE DEF trees, walk, xfer, progress, history, End
  <1>1. pc = "copyApply" /\ idx <= Len(plan) /\ Item.kind = "dir"
    BY DEF CopyDir, AtItem
  <1>2. CASE CanMkdir(dst, Item.path)
    <2>1. /\ ItemCopied /\ UNCHANGED <<src, kind, todo, plan, transport, orig, touched, missed, cut>>
          /\ \A q \in Path : q # Item.path => dst'[q] = dst[q]
      BY <1>2 DEF CopyDir, PutDst, IInv, TypeOK
    <2>2. Original(Item.path) => orig[Item.path].kind = "dir"
      BY <1>1, ItemKind DEF Copying, Original
    <2> QED BY <1>1, <2>1, <2>2, ItemCopiedKeepsCore
  <1>3. CASE ~CanMkdir(dst, Item.path)
    BY <1>3, EndKeepsCore DEF CopyDir
  <1> QED BY <1>2, <1>3

LEMMA CopyLinkKeepsCore ==
    ASSUME ~SameDir, IInv, TypeOK', CopyLink PROVE Core'
  <1> USE DEF trees, walk, xfer, progress, history
  <1>1. pc = "copyApply" /\ idx <= Len(plan) /\ Item.kind = "link"
    BY DEF CopyLink, AtItem
  <1>2. /\ ItemCopied /\ UNCHANGED <<src, kind, todo, plan, transport, orig, touched, missed, cut>>
        /\ \A q \in Path : q # Item.path => dst'[q] = dst[q]
    BY DEF CopyLink, PutDst, IInv, TypeOK
  <1>3. Original(Item.path) => orig[Item.path].kind = "link"
    BY <1>1, ItemKind DEF Copying, Original
  <1> QED BY <1>1, <1>2, <1>3, ItemCopiedKeepsCore

Transferring == {"open", "create", "pump"}

\* A step inside one file's transfer: what is left to check is TransferExact.
LEMMA TransferKeepsCore ==
    ASSUME IInv, TypeOK', pc \in {"copyApply"} \cup Transferring, pc' \in Transferring,
           idx <= Len(plan), Item.kind = "file",
           UNCHANGED <<src, kind, todo, plan, idx, transport, orig, touched, copied, missed, cut>>,
           \A q \in Path : q # Item.path => dst'[q] = dst[q],
           TransferExact'
    PROVE  Core'
  <1> USE DEF Transferring
  <1>1. OrigIsTree' /\ SourceKnown'
    BY SourceSame DEF Copying
  <1>2. DeletesKnown' /\ RenamesWhole'
    BY CopyingOnly DEF Copying
  <1>3. KindsMatch'
    BY DEF IInv, Core, KindsMatch, Copying, Deleting, Renaming
  <1>4. Closed'
    BY DEF IInv, Core, Closed, PlannedPaths, TodoPaths, Original, Copying
  <1>5. CopiedIsWhole'
    <2>1. \A q \in copied : Original(q) /\ orig[q].kind = "file" =>
              dst'[q] = orig[q] \/ q \in cut \/ q = Item.path
      <3> SUFFICES ASSUME NEW q \in copied, Original(q), orig[q].kind = "file", q # Item.path, q \notin cut
                   PROVE  dst'[q] = orig[q]
        OBVIOUS
      <3>1. q \in Path
        BY DEF IInv, TypeOK
      <3> QED BY <3>1 DEF IInv, Core, CopiedIsWhole, Copying
    <2>2. copied' \subseteq PlannedPaths' /\ \A i \in DOMAIN plan' : i < idx' => plan'[i].path \in copied'
      BY DEF IInv, Core, CopiedIsWhole, Copying, PlannedPaths
    <2> QED BY <2>1, <2>2 DEF CopiedIsWhole, Original, Item
  <1>6. NothingLost'
    <2> SUFFICES ASSUME kind = "moveCross" \/ kind = "rename" PROVE NothingLost'
      BY DEF NothingLost, Unseen
    <2>1. \A q \in Path : q \notin touched => src[q] = orig[q]
      BY DEF IInv, Core, SourceKnown, Copying
    <2> QED BY <2>1 DEF NothingLost, Unseen, Original, Exists
  <1> QED BY <1>1, <1>2, <1>3, <1>4, <1>5, <1>6 DEF Core

LEMMA BeginTransferKeepsCore ==
    ASSUME IInv, TypeOK', BeginTransfer PROVE Core'
  <1> USE DEF trees, walk, xfer, progress, history, End, Goto
  <1>1. CASE transport # "stream" /\ cancelled
    BY <1>1, EndKeepsCore DEF BeginTransfer
  <1>2. CASE ~(transport # "stream" /\ cancelled)
    <2>1. /\ pc = "copyApply" /\ idx <= Len(plan) /\ Item.kind = "file"
          /\ pc' = IF transport = "download" THEN "create" ELSE "open"
          /\ UNCHANGED <<src, dst, kind, todo, plan, idx, transport, orig, touched, copied, missed, cut>>
      BY <1>2 DEF BeginTransfer, AtItem
    <2>2. TransferExact'
      BY <2>1 DEF TransferExact, Item
    <2> QED BY <2>1, <2>2, TransferKeepsCore DEF Transferring
  <1> QED BY <1>1, <1>2

LEMMA OpenSourceKeepsCore ==
    ASSUME IInv, TypeOK', OpenSource PROVE Core'
  <1> USE DEF trees, walk, xfer, progress, history, End, Goto
  <1>1. CASE src[Item.path].kind # "file"
    BY <1>1, EndKeepsCore DEF OpenSource
  <1>2. CASE src[Item.path].kind = "file"
    <2>1. /\ pc = "open" /\ idx <= Len(plan) /\ Item.kind = "file"
          /\ pc' = IF transport = "download" THEN "pump" ELSE "create"
          /\ reader' = src[Item.path] /\ pos' = 0 /\ held' = Absent
          /\ UNCHANGED <<src, dst, kind, todo, plan, idx, transport, orig, touched, copied, missed, cut>>
      BY <1>2 DEF OpenSource, AtItem, IInv, Core, TransferExact
    <2>2. TransferExact'
      <3> SUFFICES ASSUME Item.path \notin touched
                   PROVE  /\ reader' = orig[Item.path] /\ 0 <= Chunks
                          /\ pc' = "pump" => dst[Item.path] = File("blank", 0)
        BY <2>1 DEF TransferExact, Item, Absent, Leaf
      <3>1. src[Item.path] = orig[Item.path]
        BY <2>1, ItemKind DEF Copying
      <3>2. transport = "download" => dst[Item.path] = File("blank", 0)
        BY <2>1 DEF IInv, Core, TransferExact
      <3> QED BY <2>1, <3>1, <3>2, ModeAssumption
    <2> QED BY <2>1, <2>2, TransferKeepsCore DEF Transferring
  <1> QED BY <1>1, <1>2

LEMMA CreateDestKeepsCore ==
    ASSUME ~SameDir, IInv, TypeOK', CreateDest PROVE Core'
  <1> USE DEF trees, walk, xfer, progress, history, End, Goto
  <1>1. CASE ~CanCreate(dst, Item.path)
    BY <1>1, EndKeepsCore DEF CreateDest
  <1>2. CASE CanCreate(dst, Item.path)
    <2>1. /\ pc = "create" /\ idx <= Len(plan) /\ Item.kind = "file"
          /\ pc' = IF transport = "download" THEN "open" ELSE "pump"
          /\ dst' = [dst EXCEPT ![Item.path] = File("blank", 0)]
          /\ UNCHANGED <<reader, pos, held>>
          /\ UNCHANGED <<src, kind, todo, plan, idx, transport, orig, touched, copied, missed, cut>>
      BY <1>2 DEF CreateDest, AtItem, PutDst, IInv, Core, TransferExact
    <2>2. Item.path \in Path
      BY <2>1, ItemTyped DEF IInv
    <2>3. dst'[Item.path] = File("blank", 0) /\ \A q \in Path : q # Item.path => dst'[q] = dst[q]
      BY <2>1, <2>2 DEF IInv, TypeOK
    <2>4. TransferExact'
      <3>1. Item.path \notin touched /\ transport # "download" =>
                reader = orig[Item.path] /\ pos = 0 /\ pos <= Chunks /\ held = Absent
        BY <2>1 DEF IInv, Core, TransferExact
      <3> QED BY <2>1, <2>3, <3>1 DEF TransferExact, Item, Absent, Leaf
    <2> QED BY <2>1, <2>3, <2>4, TransferKeepsCore DEF Transferring
  <1> QED BY <1>1, <1>2

LEMMA ReadChunkKeepsCore ==
    ASSUME IInv, TypeOK', ReadChunk PROVE Core'
  <1> USE DEF trees, walk, xfer, progress, history
  <1>1. /\ pc = "pump" /\ pc' = "pump" /\ idx <= Len(plan) /\ Item.kind = "file"
        /\ pos < reader.len /\ pos' = pos + 1 /\ held' = Grown(held, reader.data)
        /\ reader' = reader
        /\ UNCHANGED <<src, dst, kind, todo, plan, idx, transport, orig, touched, copied, missed, cut>>
    BY DEF ReadChunk, AtItem, IInv, Core, TransferExact
  <1>2. TransferExact'
    <2> SUFFICES ASSUME Item.path \notin touched
                 PROVE  /\ pos' <= Chunks /\ reader' = orig[Item.path]
                        /\ held'.len <= pos' /\ (held'.len > 0 => held'.data = "orig")
                        /\ dst'[Item.path] = File(IF pos' = held'.len THEN "blank" ELSE "orig", pos' - held'.len)
      BY <1>1 DEF TransferExact, Item
    <2>1. reader = File("orig", Chunks) /\ reader = orig[Item.path]
      BY <1>1, ItemKind DEF IInv, Core, TransferExact, Copying
    <2>2. /\ held.len <= pos /\ (held.len > 0 => held.data = "orig")
          /\ dst[Item.path] = File(IF pos = held.len THEN "blank" ELSE "orig", pos - held.len)
      BY <1>1 DEF IInv, Core, TransferExact
    <2>3. pos \in Nat /\ Chunks \in Nat /\ held.len \in Nat
      BY ModeAssumption DEF IInv, TypeOK, Node
    <2>4. held' = File("orig", held.len + 1)
      BY <1>1, <2>1, <2>2, <2>3 DEF Grown, File
    <2>5. held'.len = held.len + 1 /\ held'.data = "orig" /\ reader.len = Chunks
      BY <2>1, <2>4 DEF File
    <2>6. (pos' = held'.len) = (pos = held.len)
      BY <1>1, <2>3, <2>5
    <2>7. pos' - held'.len = pos - held.len /\ held'.len <= pos' /\ pos' <= Chunks
      BY <1>1, <2>2, <2>3, <2>5
    <2>8. dst'[Item.path] = File(IF pos' = held'.len THEN "blank" ELSE "orig", pos' - held'.len)
      BY <1>1, <2>2, <2>6, <2>7
    <2> QED BY <1>1, <2>1, <2>5, <2>7, <2>8
  <1> QED BY <1>1, <1>2, TransferKeepsCore DEF Transferring

LEMMA WriteChunkKeepsCore ==
    ASSUME ~SameDir, IInv, TypeOK', WriteChunk PROVE Core'
  <1> USE DEF trees, walk, xfer, progress, history
  <1> DEFINE d == dst[Item.path]
  <1>1. /\ pc = "pump" /\ pc' = "pump" /\ idx <= Len(plan) /\ Item.kind = "file"
        /\ held.len > 0 /\ pos' = pos
        /\ held' = IF held.len = 1 THEN Absent ELSE File(held.data, held.len - 1)
        /\ dst' = [dst EXCEPT ![Item.path] = Grown(d, held.data)]
        /\ reader' = reader
        /\ UNCHANGED <<src, kind, todo, plan, idx, transport, orig, touched, copied, missed, cut>>
    BY DEF WriteChunk, AtItem, PutDst, IInv, Core, TransferExact
  <1>2. Item.path \in Path
    BY <1>1, ItemTyped DEF IInv
  <1>3. dst'[Item.path] = Grown(d, held.data) /\ \A q \in Path : q # Item.path => dst'[q] = dst[q]
    BY <1>1, <1>2 DEF IInv, TypeOK
  <1>4. TransferExact'
    <2> SUFFICES ASSUME Item.path \notin touched
                 PROVE  /\ pos <= Chunks /\ reader = orig[Item.path]
                        /\ held'.len <= pos /\ (held'.len > 0 => held'.data = "orig")
                        /\ dst'[Item.path] = File(IF pos = held'.len THEN "blank" ELSE "orig", pos - held'.len)
      BY <1>1 DEF TransferExact, Item
    <2>1. reader = orig[Item.path] /\ pos <= Chunks
      BY <1>1 DEF IInv, Core, TransferExact
    <2>2. /\ held.len <= pos /\ held.data = "orig"
          /\ d = File(IF pos = held.len THEN "blank" ELSE "orig", pos - held.len)
      BY <1>1 DEF IInv, Core, TransferExact
    <2>3. pos \in Nat /\ held.len \in Nat
      BY DEF IInv, TypeOK, Node
    <2>4. d.len = pos - held.len /\ (d.len = 0 \/ d.data = "orig")
      BY <2>2, <2>3 DEF File
    <2>5. dst'[Item.path] = File("orig", pos - held.len + 1)
      BY <1>3, <2>2, <2>4 DEF Grown
    <2>6. held'.len = held.len - 1 /\ (held'.len > 0 => held'.data = "orig")
      BY <1>1, <2>2, <2>3 DEF File, Absent, Leaf
    <2>7. held'.len <= pos /\ pos # held'.len /\ pos - held'.len = pos - held.len + 1
      BY <1>1, <2>2, <2>3, <2>6
    <2> QED BY <2>1, <2>5, <2>6, <2>7
  <1> QED BY <1>1, <1>3, <1>4, TransferKeepsCore DEF Transferring

LEMMA TransferDoneKeepsCore ==
    ASSUME IInv, TypeOK', TransferDone PROVE Core'
  <1> USE DEF trees, walk, xfer, progress, history
  <1>1. /\ pc = "pump" /\ idx <= Len(plan) /\ ItemCopied
        /\ held.len = 0 /\ pos >= reader.len
        /\ UNCHANGED <<src, dst, kind, todo, plan, transport, orig, touched, missed, cut>>
    BY DEF TransferDone, Transferred, AtItem
  <1>2. Original(Item.path) => dst[Item.path] = orig[Item.path]
    <2> SUFFICES ASSUME Item.path \notin touched PROVE dst[Item.path] = orig[Item.path]
      BY DEF Original
    <2>1. /\ reader = orig[Item.path] /\ pos <= Chunks /\ Item.kind = "file"
          /\ dst[Item.path] = File(IF pos = held.len THEN "blank" ELSE "orig", pos - held.len)
      BY <1>1 DEF IInv, Core, TransferExact
    <2>2. orig[Item.path] = File("orig", Chunks)
      BY <1>1, <2>1, ItemKind DEF Copying
    <2>3. pos = Chunks /\ pos # 0 /\ pos - held.len = pos
      BY <1>1, <2>1, <2>2, ModeAssumption DEF File, IInv, TypeOK
    <2> QED BY <1>1, <2>1, <2>2, <2>3
  <1> QED BY <1>1, <1>2, ItemCopiedKeepsCore

\* The agent has answered Ok for a file that is not whole: it is one of cut.
LEMMA TransferCutKeepsCore ==
    ASSUME ~SameDir, IInv, TypeOK', TransferCut PROVE Core'
  <1> USE DEF trees, walk, xfer, progress, history
  <1>1. /\ pc = "pump" /\ idx <= Len(plan) /\ ItemCopied
        /\ cut' = cut \cup {Item.path}
        /\ UNCHANGED <<kind, todo, plan, transport, orig, touched, missed>>
        /\ UNCHANGED <<src, dst>> \/ PutDst(Item.path, [dst[Item.path] EXCEPT !.len = @ - 1])
    BY DEF TransferCut, Transferred, AtItem
  <1>2. src' = src /\ \A q \in Path : q # Item.path => dst'[q] = dst[q]
    BY <1>1 DEF PutDst, IInv, TypeOK
  <1> QED BY <1>1, <1>2, ItemCopiedKeepsCore

\* The copy is complete, so everything below the items has been copied.
LEMMA CopyFinishedKeepsCore ==
    ASSUME IInv, TypeOK', CopyFinished PROVE Core'
  <1> USE DEF trees, walk, xfer, progress, history, End, Goto
  <1>1. CASE kind = "copy"
    BY <1>1, EndKeepsCore DEF CopyFinished
  <1>2. CASE kind # "copy"
    <2>1. /\ pc = "copyCheck" /\ idx > Len(plan) /\ pc' = "delWalk" /\ plan' = <<>>
          /\ UNCHANGED <<src, dst, kind, transport, orig, touched, copied, missed, cut>>
      BY <1>2 DEF CopyFinished
    <2>2. OrigIsTree' /\ SourceKnown' /\ NothingLost'
      BY <2>1, SourceSame, LostSame DEF Copying
    <2>0. kind = "moveCross"
      BY <1>2, <2>1 DEF IInv, TypeOK, JobKinds, Core, KindsMatch, Deleting, Renaming
    <2>3. KindsMatch' /\ Closed' /\ TransferExact' /\ RenamesWhole'
      BY <2>1, <2>0 DEF KindsMatch, Closed, TransferExact, RenamesWhole, Copying, Deleting, Renaming
    <2>4. CopiedIsWhole'
      BY <2>1 DEF IInv, Core, CopiedIsWhole, Original, Copying, Deleting
    <2>5. PlannedPaths \subseteq copied /\ copied \subseteq PlannedPaths
      <3>1. \A i \in DOMAIN plan : i < idx
        BY <2>1, LenProperties DEF IInv, TypeOK
      <3> QED BY <2>1, <3>1 DEF IInv, Core, CopiedIsWhole, Copying, PlannedPaths
    <2>6. TodoPaths = {}
      BY <2>1 DEF IInv, Core, Closed, Copying, TodoPaths
    <2>7. /\ Items \subseteq copied
          /\ \A c \in Path : Original(c) /\ Parent[c] \in copied => c \in copied \cup missed \cup NotUtf8
      BY <2>1, <2>5, <2>6 DEF IInv, Core, Closed, Copying
    <2>8. PlannedPaths' = {}
      BY <2>1 DEF PlannedPaths
    <2>9. TodoPaths' \subseteq Items
      <3>1. PICK items \in Listings(Visits(Items)) : todo' = items
        BY <1>2 DEF CopyFinished
      <3>2. \A i \in DOMAIN items : items[i].path \in Items
        BY PathAssumption, VisitListing
      <3> QED BY <3>1, <3>2 DEF TodoPaths
    <2>10. DeletesKnown'
      BY <2>1, <2>7, <2>8, <2>9 DEF DeletesKnown, Original
    <2> QED BY <2>2, <2>3, <2>4, <2>10 DEF Core
  <1> QED BY <1>1, <1>2

\* A step of the deleting phase that leaves the trees as they are keeps Core
\* if what is planned or to be visited is still known.
LEMMA DeletingKeepsCore ==
    ASSUME IInv, TypeOK', pc \in Deleting, pc' \in Deleting,
           UNCHANGED <<src, dst, kind, orig, touched, copied, missed, cut>>,
           kind = "moveCross" => \A p \in PlannedPaths' \cup TodoPaths' : p \in copied \cup touched \/ Unseen(p)
    PROVE  Core'
  <1>1. OrigIsTree' /\ SourceKnown' /\ NothingLost'
    BY SourceSame, LostSame DEF Copying, Deleting
  <1>2. KindsMatch' /\ Closed' /\ TransferExact' /\ RenamesWhole'
    BY DEF IInv, Core, KindsMatch, Closed, TransferExact, RenamesWhole, Copying, Deleting, Renaming
  <1>3. CopiedIsWhole'
    BY DEF IInv, Core, CopiedIsWhole, Original, Copying, Deleting
  <1>4. DeletesKnown'
    BY UnseenStays DEF IInv, Core, DeletesKnown, Original
  <1> QED BY <1>1, <1>2, <1>3, <1>4 DEF Core

LEMMA PathsTyped ==
    ASSUME TypeOK
    PROVE  PlannedPaths \cup TodoPaths \subseteq Path
  <1>1. /\ \A i \in DOMAIN plan : plan[i] \in [path : Path, kind : NodeKinds]
        /\ \A i \in DOMAIN todo : todo[i] \in [path : Path, post : BOOLEAN]
    BY ElementOfSeq, LenProperties DEF TypeOK
  <1> QED BY <1>1 DEF PlannedPaths, TodoPaths

LEMMA WalkForDeleteKeepsCore ==
    ASSUME IInv, TypeOK', WalkForDelete PROVE Core'
  <1> USE DEF trees, walk, xfer, progress, history, End, Goto
  <1> DEFINE p == Head(todo).path
             Known == copied \cup touched \cup {q \in Path : Unseen(q)}
  <1>1. CASE ~Head(todo).post /\ ~Exists(src, p)
    BY <1>1, EndKeepsCore DEF WalkForDelete
  <1>2. CASE Head(todo).post \/ Exists(src, p)
    <2>1. /\ pc = "delWalk" /\ pc' = "delWalk" /\ todo # <<>>
          /\ UNCHANGED <<src, dst, kind, orig, touched, copied, missed, cut>>
      BY <1>2 DEF WalkForDelete
    <2>0. PlannedPaths \cup TodoPaths \subseteq Path
      BY PathsTyped DEF IInv
    <2> SUFFICES ASSUME kind = "moveCross", PlannedPaths \cup TodoPaths \subseteq Known
                 PROVE  PlannedPaths' \cup TodoPaths' \subseteq Known
      <3>1. kind = "moveCross" => \A q \in PlannedPaths \cup TodoPaths : q \in copied \cup touched \/ Unseen(q)
        BY <2>1 DEF IInv, Core, DeletesKnown, Deleting
      <3>2. kind = "moveCross" => PlannedPaths \cup TodoPaths \subseteq Known
        BY <3>1, <2>0
      <3>3. (kind = "moveCross" => PlannedPaths' \cup TodoPaths' \subseteq Known) => Core'
        BY <2>1, DeletingKeepsCore DEF Deleting
      <3> QED BY <3>2, <3>3
    <2>2. p \in Path /\ p \in Known
      BY <2>1, HeadTyped DEF IInv, TodoPaths
    <2>3. \A j \in DOMAIN Tail(todo) : Tail(todo)[j].path \in Known
      BY <2>1, HeadTyped DEF IInv, TodoPaths
    <2>4. PlannedPaths' \subseteq Known
      <3>1. plan' = plan \/ \E k \in {"dir", src[p].kind} : plan' = Append(plan, Planned(p, k))
        BY DEF WalkForDelete
      <3>2. ASSUME NEW k \in {"dir", src[p].kind}, plan' = Append(plan, Planned(p, k)) 
            PROVE  PlannedPaths' \subseteq Known
        <4>1. /\ DOMAIN plan' = 1..Len(plan)+1 /\ DOMAIN plan = 1..Len(plan) /\ Len(plan) \in Nat
              /\ \A i \in 1..Len(plan) : plan'[i] = plan[i]
              /\ plan'[Len(plan) + 1] = Planned(p, k)
          BY <3>2 DEF IInv, TypeOK
        <4>2. \A i \in DOMAIN plan : plan[i].path \in Known
          BY DEF PlannedPaths
        <4>3. Planned(p, k).path \in Known
          BY <2>2 DEF Planned
        <4>4. \A i \in DOMAIN plan' : plan'[i].path \in Known
          BY <4>1, <4>2, <4>3
        <4> QED BY <4>4 DEF PlannedPaths
      <3>3. plan' = plan => PlannedPaths' = PlannedPaths
        BY DEF PlannedPaths
      <3> QED BY <3>1, <3>2, <3>3
    <2>5. src[p].kind = "dir" => Named(src, p) \subseteq Known
      <3> SUFFICES ASSUME src[p].kind = "dir", NEW c \in Named(src, p), c \notin touched, ~Unseen(c)
                   PROVE  c \in copied
        BY DEF Named, Children
      <3>1. p \notin touched
        BY DEF IInv, Core, SourceKnown
      <3>2. c \in Path /\ Parent[c] = p /\ Exists(src, c) /\ c \notin NotUtf8
        BY DEF Named, Children
      <3>3. Original(c)
        BY <3>2 DEF IInv, Core, SourceKnown, Original, Exists, Absent, Leaf
      <3>4. ~Unseen(p) /\ c \notin missed
        BY <3>2, UnseenFacts DEF IInv
      <3>5. p \in copied
        BY <2>2, <3>1, <3>4
      <3> QED BY <2>1, <3>2, <3>3, <3>4, <3>5 DEF IInv, Core, DeletesKnown, Deleting
    <2>6. TodoPaths' \subseteq Known
      <3>1. CASE todo' = Tail(todo)
        BY <2>3, <3>1 DEF TodoPaths
      <3>2. CASE todo' # Tail(todo)
        <4> DEFINE leave == <<[path |-> p, post |-> TRUE]>>
        <4>1. src[p].kind = "dir" /\ \E shown \in Shown(src, SrcWhere, p) : \E kids \in Listings(Visits(shown)) :
                  todo' = kids \o leave \o Tail(todo)
          BY <1>2, <3>2 DEF WalkForDelete
        <4>9. PICK shown \in Shown(src, SrcWhere, p) :
                  \E kids \in Listings(Visits(shown)) : todo' = kids \o leave \o Tail(todo)
          BY <4>1
        <4>2. PICK kids \in Listings(Visits(shown)) : todo' = kids \o leave \o Tail(todo)
          BY <4>9
        <4>3. shown \in SUBSET Path /\ shown \subseteq Named(src, p)
          BY ShownFacts
        <4>4. kids \in Seq([path : Path, post : BOOLEAN]) /\ \A i \in DOMAIN kids : kids[i].path \in Known
          <5>1. kids \in Seq([path : Path, post : BOOLEAN]) /\ \A i \in DOMAIN kids : kids[i].path \in shown
            BY <4>3, VisitListing
          <5>2. shown \subseteq Known
            BY <4>1, <4>3, <2>5
          <5> QED BY <5>1, <5>2
        <4>5. leave \in Seq([path : Path, post : BOOLEAN]) /\ Len(leave) = 1 /\ leave[1].path \in Known
          BY <2>2
        <4>6. Tail(todo) \in Seq([path : Path, post : BOOLEAN])
          BY <2>1, HeadTyped DEF IInv
        <4>7. /\ kids \o leave \in Seq([path : Path, post : BOOLEAN])
              /\ \A i \in DOMAIN (kids \o leave) : (kids \o leave)[i].path \in Known
          BY <4>4, <4>5, ConcatProperties
        <4>8. \A i \in DOMAIN ((kids \o leave) \o Tail(todo)) : ((kids \o leave) \o Tail(todo))[i].path \in Known
          BY <4>6, <4>7, <2>3, ConcatProperties
        <4> QED BY <4>2, <4>8 DEF TodoPaths
      <3> QED BY <3>1, <3>2
    <2> QED BY <2>4, <2>6
  <1> QED BY <1>1, <1>2

LEMMA StartDeletingKeepsCore ==
    ASSUME IInv, TypeOK', StartDeleting PROVE Core'
  <1>1. /\ pc = "delWalk" /\ pc' = "delCheck"
        /\ UNCHANGED <<src, dst, kind, todo, plan, orig, touched, copied, missed, cut>>
    BY DEF StartDeleting, Goto, trees, walk, history
  <1> QED BY <1>1, DeletingKeepsCore DEF Deleting, IInv, Core, DeletesKnown, PlannedPaths, TodoPaths

LEMMA DeleteNextKeepsCore ==
    ASSUME IInv, TypeOK', DeleteNext PROVE Core'
  <1> USE DEF trees, walk, xfer, progress, history, End, Goto
  <1>1. CASE cancelled
    BY <1>1, EndKeepsCore DEF DeleteNext
  <1>2. CASE ~cancelled
    <2>1. /\ pc = "delCheck" /\ pc' = "delApply"
          /\ UNCHANGED <<src, dst, kind, todo, plan, orig, touched, copied, missed, cut>>
      BY <1>2 DEF DeleteNext, AtItem
    <2> QED BY <2>1, DeletingKeepsCore DEF Deleting, IInv, Core, DeletesKnown, PlannedPaths, TodoPaths
  <1> QED BY <1>1, <1>2

LEMMA DeleteItemKeepsCore ==
    ASSUME ~SameDir, IInv, TypeOK', DeleteItem PROVE Core'
  <1> USE DEF trees, walk, xfer, progress, history, End, Goto
  <1> DEFINE p == Item.path
  <1>1. CASE ~CanRemove(src, p, Item.kind)
    BY <1>1, EndKeepsCore DEF DeleteItem
  <1>2. CASE CanRemove(src, p, Item.kind)
    <2>1. /\ pc = "delApply" /\ pc' = "delCheck" /\ idx <= Len(plan)
          /\ src' = [src EXCEPT ![p] = Absent]
          /\ UNCHANGED <<dst, kind, todo, plan, orig, touched, copied, missed, cut>>
      BY <1>2 DEF DeleteItem, DropSrc, AtItem
    <2>2. p \in Path /\ p \in PlannedPaths
      BY <2>1, ItemTyped DEF IInv, PlannedPaths, Item
    <2>3. src'[p] = Absent /\ \A q \in Path : q # p => src'[q] = src[q]
      BY <2>1, <2>2 DEF IInv, TypeOK
    <2>4. OrigIsTree'
      BY <2>1 DEF IInv, Core, OrigIsTree, Exists, Dirs
    <2>5. SourceKnown'
      <3>1. Absent.kind = "none"
        BY NodeFacts
      <3>2. \A q \in Path : q \notin touched => src'[q] \in {orig[q], Absent}
        BY <2>3 DEF IInv, Core, SourceKnown
      <3>3. \A q \in touched : src'[q].kind \in {"none", "file"}
        BY <2>3, <3>1 DEF IInv, Core, SourceKnown, TypeOK
      <3> QED BY <2>1, <3>2, <3>3 DEF SourceKnown, Copying
    <2>6. KindsMatch' /\ Closed' /\ TransferExact' /\ RenamesWhole'
      BY <2>1 DEF IInv, Core, KindsMatch, Closed, TransferExact, RenamesWhole, Copying, Deleting, Renaming
    <2>7. CopiedIsWhole' /\ DeletesKnown'
      BY <2>1 DEF IInv, Core, CopiedIsWhole, DeletesKnown, PlannedPaths, TodoPaths, Original, Copying, Deleting, Unseen
    <2>8. NothingLost'
      <3> SUFFICES ASSUME kind = "moveCross", NEW q \in Path, Original(q), orig[q].kind = "file", ~Exists(src', q),
                          ~Unseen(q), q \notin cut
                   PROVE  dst[q] = orig[q]
        <4>1. kind # "rename"
          BY <2>1 DEF IInv, Core, KindsMatch, Renaming
        <4> QED BY <2>1, <4>1 DEF NothingLost, Unseen, Original, Exists
      <3>1. CASE q = p
        <4>1. q \in copied
          BY <2>1, <2>2, <3>1 DEF IInv, Core, DeletesKnown, Deleting, Original
        <4> QED BY <2>1, <4>1 DEF IInv, Core, CopiedIsWhole, Deleting
      <3>2. CASE q # p
        BY <2>3, <3>2 DEF IInv, Core, NothingLost, Exists
      <3> QED BY <3>1, <3>2
    <2> QED BY <2>4, <2>5, <2>6, <2>7, <2>8 DEF Core
  <1> QED BY <1>1, <1>2

LEMMA RenameNextKeepsCore ==
    ASSUME IInv, TypeOK', RenameNext PROVE Core'
  <1> USE DEF trees, walk, xfer, progress, history, End, Goto
  <1>1. CASE cancelled
    BY <1>1, EndKeepsCore DEF RenameNext
  <1>2. CASE ~cancelled
    <2>1. /\ pc = "renCheck" /\ pc' = "renApply"
          /\ UNCHANGED <<src, dst, kind, todo, plan, idx, orig, touched, copied, missed, cut>>
      BY <1>2 DEF RenameNext, AtItem
    <2>2. OrigIsTree' /\ SourceKnown' /\ NothingLost'
      BY <2>1, SourceSame, LostSame DEF Copying
    <2>3. /\ KindsMatch' /\ Closed' /\ TransferExact' /\ RenamesWhole' /\ CopiedIsWhole'
          /\ DeletesKnown'
      BY <2>1 DEF IInv, Core, KindsMatch, Closed, TransferExact, RenamesWhole, CopiedIsWhole,
                  DeletesKnown, PlannedPaths, Original, Copying, Deleting, Renaming
    <2> QED BY <2>2, <2>3 DEF Core
  <1> QED BY <1>1, <1>2

LEMMA RenameItemKeepsCore ==
    ASSUME ~SameDir, IInv, TypeOK', RenameItem PROVE Core'
  <1> USE DEF trees, walk, xfer, progress, history, End, Goto
  <1> DEFINE p == Item.path
  <1>1. CASE ~CanRename(p)
    BY <1>1, EndKeepsCore DEF RenameItem
  <1>2. CASE CanRename(p)
    <2>1. /\ pc = "renApply" /\ pc' = "renCheck" /\ idx <= Len(plan) /\ idx' = idx + 1
          /\ dst' = [q \in Path |-> IF ItemOf[q] = p THEN src[q] ELSE dst[q]]
          /\ src' = [q \in Path |-> IF ItemOf[q] = p THEN Absent ELSE src[q]]
          /\ UNCHANGED <<kind, todo, plan, orig, touched, copied, missed, cut>>
      BY <1>2 DEF RenameItem, AtItem
    <2>2. /\ \A q \in Path : ItemOf[q] = p => src'[q] = Absent /\ dst'[q] = src[q]
          /\ \A q \in Path : ItemOf[q] # p => src'[q] = src[q] /\ dst'[q] = dst[q]
      BY <2>1
    <2>3. idx \in DOMAIN plan /\ idx \in Nat /\ \A i \in DOMAIN plan : i \in Nat
      BY <2>1, ItemTyped, LenProperties DEF IInv, TypeOK
    <2>4. OrigIsTree'
      BY <2>1 DEF IInv, Core, OrigIsTree, Exists, Dirs
    <2>5. SourceKnown'
      <3>1. \A q \in Path : q \notin touched => src'[q] \in {orig[q], Absent}
        BY <2>2 DEF IInv, Core, SourceKnown
      <3>2. \A q \in touched : src'[q].kind \in {"none", "file"}
        BY <2>2, NodeFacts DEF IInv, Core, SourceKnown, TypeOK
      <3> QED BY <2>1, <3>1, <3>2 DEF SourceKnown, Copying
    <2>6. KindsMatch' /\ Closed' /\ TransferExact' /\ CopiedIsWhole' /\ DeletesKnown'
      BY <2>1 DEF IInv, Core, KindsMatch, Closed, TransferExact, CopiedIsWhole, DeletesKnown,
                  Copying, Deleting, Renaming
    <2>7. RenamesWhole'
      <3> SUFFICES ASSUME kind = "rename" PROVE RenamesWhole'
        BY <2>1 DEF RenamesWhole
      <3>1. /\ \A i, j \in DOMAIN plan : plan[i].path = plan[j].path => i = j
            /\ \A i \in DOMAIN plan : \A q \in Path : Original(q) /\ ItemOf[q] = plan[i].path =>
                  IF i < idx THEN dst[q] = orig[q] ELSE src[q] = orig[q]
            /\ \A q \in Path : Original(q) /\ ItemOf[q] \notin PlannedPaths => src[q] = orig[q]
        BY <2>1 DEF IInv, Core, RenamesWhole, Renaming
      <3>2. ASSUME NEW i \in DOMAIN plan, NEW q \in Path, Original(q), ItemOf[q] = plan[i].path
            PROVE  IF i < idx + 1 THEN dst'[q] = orig[q] ELSE src'[q] = orig[q]
        <4>1. CASE i = idx
          BY <2>2, <2>3, <3>1, <3>2, <4>1 DEF Item
        <4>2. CASE i # idx
          <5>1. ItemOf[q] # p
            BY <2>3, <3>1, <3>2, <4>2 DEF Item
          <5>2. i < idx + 1 <=> i < idx
            BY <2>3, <4>2
          <5> QED BY <2>2, <3>1, <3>2, <5>1, <5>2
        <4> QED BY <4>1, <4>2
      <3>3. ASSUME NEW q \in Path, Original(q), ItemOf[q] \notin PlannedPaths
            PROVE  src'[q] = orig[q]
        <4>1. ItemOf[q] # p
          BY <2>3, <3>3 DEF PlannedPaths, Item
        <4> QED BY <2>2, <3>1, <3>3, <4>1
      <3> QED BY <2>1, <3>1, <3>2, <3>3 DEF RenamesWhole, Original, PlannedPaths
    <2>8. NothingLost'
      <3> SUFFICES ASSUME kind = "rename", NEW q \in Path, Original(q), orig[q].kind = "file", ~Exists(src', q),
                          ~Unseen(q), q \notin cut
                   PROVE  dst'[q] = orig[q]
        <4>1. kind # "moveCross"
          BY <2>1 DEF IInv, Core, KindsMatch, Copying, Deleting
        <4> QED BY <2>1, <4>1 DEF NothingLost, Unseen, Original, Exists
      <3>1. CASE ItemOf[q] = p
        <4>1. src[q] = orig[q]
          BY <2>1, <2>3, <3>1 DEF IInv, Core, RenamesWhole, Renaming, Item
        <4> QED BY <2>2, <3>1, <4>1
      <3>2. CASE ItemOf[q] # p
        BY <2>2, <3>2 DEF IInv, Core, NothingLost, Exists
      <3> QED BY <3>1, <3>2
    <2> QED BY <2>4, <2>5, <2>6, <2>7, <2>8 DEF Core
  <1> QED BY <1>1, <1>2

\* Another program's change makes the path it changed nobody's business, and
\* leaves every other path as it was.
LEMMA OtherProgramKeepsCore ==
    ASSUME ~SameDir, IInv, TypeOK', OtherProgram PROVE Core'
  <1> USE DEF trees, walk, xfer, progress, history
  <1>1. PICK p \in Path :
            /\ src[p].kind \in {"none", "file"}
            /\ src' = [src EXCEPT ![p] = File("edited", Chunks)] \/ src' = [src EXCEPT ![p] = Absent]
            /\ reader' = IF pc \in {"create", "pump"} /\ idx <= Len(plan) /\ Item.path = p
                            /\ src[p].kind = "file"
                            /\ src' = [src EXCEPT ![p] = File("edited", Chunks)]
                         THEN File("edited", Chunks) ELSE reader
            /\ dst' = dst /\ touched' = touched \cup {p}
    <2>1. PICK p \in Path :
            /\ src[p].kind \in {"none", "file"} /\ Parent[p] \in Dirs(src)
            /\ \/ /\ src' = [src EXCEPT ![p] = File("edited", Chunks)]
                  /\ reader' = IF pc \in {"create", "pump"} /\ idx <= Len(plan) /\ Item.path = p
                                  /\ src[p].kind = "file"
                               THEN File("edited", Chunks) ELSE reader
               \/ /\ src[p].kind = "file"
                  /\ src' = [src EXCEPT ![p] = Absent]
                  /\ reader' = reader
            /\ dst' = IF SameDir THEN src' ELSE dst
            /\ touched' = touched \cup {p}
      BY DEF OtherProgram
    <2>2. [src EXCEPT ![p] = File("edited", Chunks)] # [src EXCEPT ![p] = Absent]
      BY NodeFacts DEF IInv, TypeOK, Contents
    <2> QED BY <2>1, <2>2
  <1>2. UNCHANGED <<kind, pc, todo, plan, idx, transport, pos, held, orig, copied, missed, cut>>
    BY DEF OtherProgram
  <1>3. /\ \A q \in Path : q # p => src'[q] = src[q]
        /\ src'[p].kind \in {"none", "file"}
    BY <1>1, NodeFacts DEF IInv, TypeOK, Contents
  <1>4. \A q : Original(q)' => Original(q) /\ q # p
    BY <1>1, <1>2 DEF Original
  <1>5. OrigIsTree'
    BY <1>2 DEF IInv, Core, OrigIsTree, Exists, Dirs
  <1>6. SourceKnown'
    <2>1. \A q \in Path : q \notin touched' => src'[q] \in {orig[q], Absent}
      BY <1>1, <1>3 DEF IInv, Core, SourceKnown
    <2>2. \A q \in touched' : src'[q].kind \in {"none", "file"}
      BY <1>1, <1>3 DEF IInv, Core, SourceKnown, TypeOK
    <2>3. pc \in Copying => /\ \A q \in Path : q \notin touched' => src'[q] = orig[q]
                            /\ \A q \in touched' : orig[q].kind \in {"none", "file"}
      BY <1>1, <1>3 DEF IInv, Core, SourceKnown
    <2> QED BY <1>2, <2>1, <2>2, <2>3 DEF SourceKnown
  <1>7. KindsMatch' /\ RenamesWhole'
    <2>1. KindsMatch'
      BY <1>2 DEF IInv, Core, KindsMatch
    <2>2. ASSUME kind = "rename", pc \in Renaming PROVE RenamesWhole'
      BY <2>2, <1>1, <1>2, <1>3, <1>4 DEF IInv, Core, RenamesWhole, PlannedPaths
    <2> QED BY <1>2, <2>1, <2>2 DEF RenamesWhole
  <1>8. Closed'
    <2>1. ASSUME pc \in Copying
          PROVE  /\ \A i \in DOMAIN plan : plan[i].path \notin touched' => plan[i].kind = orig[plan[i].path].kind
                 /\ \A c \in Path : Original(c)' /\ Parent[c] \in PlannedPaths =>
                        c \in PlannedPaths \cup TodoPaths \cup missed \cup NotUtf8
      BY <2>1, <1>1, <1>4 DEF IInv, Core, Closed
    <2> QED BY <1>2, <2>1 DEF IInv, Core, Closed, PlannedPaths, TodoPaths
  <1>9. TransferExact'
    <2>1. Item' = Item
      BY <1>2 DEF Item
    <2>2. Item.path # p => reader' = reader
      BY <1>1
    <2>3. Item.path \notin touched' => Item.path \notin touched /\ reader' = reader
      BY <1>1, <2>2
    <2> QED BY <1>1, <1>2, <2>1, <2>3 DEF IInv, Core, TransferExact
  <1>10. CopiedIsWhole' /\ DeletesKnown'
    <2>1. CopiedIsWhole'
      BY <1>1, <1>2, <1>4 DEF IInv, Core, CopiedIsWhole, PlannedPaths, Item
    <2>2. DeletesKnown'
      BY <1>1, <1>2, <1>4 DEF IInv, Core, DeletesKnown, PlannedPaths, TodoPaths, Unseen
    <2> QED BY <2>1, <2>2
  <1>11. NothingLost'
    BY <1>1, <1>2, <1>3, <1>4 DEF IInv, Core, NothingLost, Unseen, Exists
  <1> QED BY <1>5, <1>6, <1>7, <1>8, <1>9, <1>10, <1>11 DEF Core

\* The mode of a new directory could not be set: it is there, and the job ends.
LEMMA ChmodFailsKeepsCore ==
    ASSUME ~SameDir, IInv, TypeOK', ChmodFails PROVE Core'
  <1> USE DEF trees, walk, xfer, progress, history, End
  <1>1. /\ pc = "copyApply" /\ pc' = "done" /\ src' = src
        /\ UNCHANGED <<kind, orig, touched, missed, cut>>
    BY DEF ChmodFails, AtItem, PutDst
  <1>2. OrigIsTree' /\ SourceKnown'
    BY <1>1, SourceSame DEF Copying
  <1>3. KindsMatch' /\ Closed' /\ TransferExact' /\ CopiedIsWhole' /\ DeletesKnown' /\ RenamesWhole'
    BY <1>1 DEF KindsMatch, Closed, TransferExact, CopiedIsWhole, DeletesKnown, RenamesWhole,
           Copying, Deleting, Renaming
  <1>4. \A q \in Path : q \notin touched => src'[q] = orig[q]
    BY <1>1 DEF IInv, Core, SourceKnown, Copying
  <1>5. NothingLost'
    BY <1>1, <1>4 DEF NothingLost, Original, Exists
  <1> QED BY <1>2, <1>3, <1>5 DEF Core

\* The steps that change neither a tree nor the plan.
LEMMA QuietStepsKeepCore ==
    ASSUME IInv, TypeOK',
           TransferCancelled \/ JobFinished \/ VfsFails \/ Cancel \/ UNCHANGED vars
    PROVE  Core'
  <1> USE DEF trees, walk, xfer, progress, history, End
  <1>1. CASE TransferCancelled
    BY <1>1, EndKeepsCore DEF TransferCancelled
  <1>2. CASE JobFinished
    BY <1>2, EndKeepsCore DEF JobFinished
  <1>3. CASE VfsFails
    BY <1>3, EndKeepsCore DEF VfsFails
  <1>4. CASE Cancel \/ UNCHANGED vars
    <2>1. UNCHANGED <<src, dst, kind, pc, todo, plan, idx, transport, reader, pos, held,
                      orig, touched, copied, missed, cut>>
      BY <1>4 DEF Cancel, vars
    <2>2. OrigIsTree' /\ SourceKnown' /\ NothingLost'
      BY <2>1, SourceSame, LostSame
    <2>3. KindsMatch' /\ Closed'
      BY <2>1 DEF IInv, Core, KindsMatch, Closed, PlannedPaths, TodoPaths, Original
    <2>4. TransferExact' /\ CopiedIsWhole'
      BY <2>1 DEF IInv, Core, TransferExact, CopiedIsWhole, PlannedPaths, Original, Item
    <2>5. DeletesKnown' /\ RenamesWhole'
      BY <2>1 DEF IInv, Core, DeletesKnown, RenamesWhole, PlannedPaths, TodoPaths, Original, Unseen
    <2> QED BY <2>2, <2>3, <2>4, <2>5 DEF Core
  <1> QED BY <1>1, <1>2, <1>3, <1>4

LEMMA NextKeepsIInv == ~SameDir /\ IInv /\ [Next]_vars => IInv'
  <1> SUFFICES ASSUME ~SameDir, IInv, [Next]_vars PROVE IInv'
    OBVIOUS
  <1>1. TypeOK'
    BY NextTyped DEF IInv
  <1>2. CASE WalkForCopy \/ StartCopying \/ CopyNext \/ CopyDir \/ CopyLink
    BY <1>1, <1>2, WalkForCopyKeepsCore, StartCopyingKeepsCore, CopyNextKeepsCore,
       CopyDirKeepsCore, CopyLinkKeepsCore DEF IInv
  <1>3. CASE BeginTransfer \/ OpenSource \/ CreateDest \/ TransferDone \/ CopyFinished
    BY <1>1, <1>3, BeginTransferKeepsCore, OpenSourceKeepsCore, CreateDestKeepsCore,
       TransferDoneKeepsCore, CopyFinishedKeepsCore DEF IInv
  <1>7. CASE ReadChunk \/ WriteChunk \/ TransferCut \/ ChmodFails
    BY <1>1, <1>7, ReadChunkKeepsCore, WriteChunkKeepsCore, TransferCutKeepsCore,
       ChmodFailsKeepsCore DEF IInv
  <1>4. CASE WalkForDelete \/ StartDeleting \/ DeleteNext \/ DeleteItem
    BY <1>1, <1>4, WalkForDeleteKeepsCore, StartDeletingKeepsCore, DeleteNextKeepsCore,
       DeleteItemKeepsCore DEF IInv
  <1>5. CASE RenameNext \/ RenameItem \/ OtherProgram
    BY <1>1, <1>5, RenameNextKeepsCore, RenameItemKeepsCore, OtherProgramKeepsCore DEF IInv
  <1>6. CASE TransferCancelled \/ JobFinished \/ VfsFails \/ Cancel \/ UNCHANGED vars
    BY <1>1, <1>6, QuietStepsKeepCore DEF IInv
  <1> QED
    BY <1>2, <1>3, <1>4, <1>5, <1>6, <1>7 DEF Next, JobStep, WriteAllRetries, Terminated

\* A move between backends, or a rename, never loses a file: in every
\* reachable state an original file that has left the source, and that no
\* other program has changed, is whole at the destination, unless a listing
\* passed over it or the agent answered Ok for less than all of it.
THEOREM NoFileLost == Sound => (Spec => []NothingLost)
  <1>1. Init => IInv
    BY InitTyped, InitCore DEF IInv
  <1>2. Sound /\ IInv => NothingLost
    BY DEF Sound, IInv, Core
  <1>3. CASE Sound
    <2>1. IInv /\ [Next]_vars => IInv'
      BY <1>3, NextKeepsIInv DEF Sound
    <2>2. Spec => []NothingLost
      BY <1>1, <1>2, <1>3, <2>1, PTL DEF Spec
    <2> QED BY <2>2
  <1> QED BY <1>3

-----------------------------------------------------------------------------
(* Cancellation.                                                           *)

\* What one entry's step adds to late is that entry.
LEMMA MarkedLate ==
    ASSUME TypeOK, StopsSoon, late' \in {late, late \cup {Item.path}}, late' # late => cancelled,
           cancelled' = cancelled,
           pc \in {"copyApply", "delApply", "renApply", "create", "pump"},
           \/ pc' \in {"copyCheck", "delCheck", "renCheck", "done"}
           \/ pc \in {"create", "pump"} /\ pc' \in {"open", "pump"} /\ Item' = Item
    PROVE  StopsSoon'
  <1>1. late = {} \/ late = {Item.path}
    BY DEF StopsSoon
  <1>2. late' = {} \/ late' = {Item.path}
    BY <1>1
  <1>3. late' # {} => cancelled
    BY <1>1, <1>2 DEF StopsSoon
  <1> QED BY <1>2, <1>3 DEF StopsSoon

\* After the token is set the job changes at most the one entry it had in
\* hand: once it has, it is past every step that changes another, until it
\* reads the token again.
THEOREM PromptStopTheorem == Spec => []PromptStop
  <1>1. Init => StopsSoon
    BY DEF Init, StopsSoon
  <1>2. TypeOK /\ StopsSoon /\ [Next]_vars => StopsSoon'
    <2> SUFFICES ASSUME TypeOK, StopsSoon, [Next]_vars PROVE StopsSoon'
      OBVIOUS
    <2> USE DEF xfer, Goto, End
    <2>1. CASE WalkForCopy \/ StartCopying \/ CopyNext \/ CopyFinished
      BY <2>1 DEF WalkForCopy, StartCopying, CopyNext, CopyFinished, AtItem, StopsSoon
    <2>2. CASE CopyDir \/ CopyLink \/ ChmodFails
      <3>1. /\ pc = "copyApply" /\ late' \in {late, late \cup {Item.path}} /\ (late' # late => cancelled)
            /\ cancelled' = cancelled
        BY <2>2 DEF CopyDir, CopyLink, ChmodFails, AtItem, MarkLate
      <3>2. pc' \in {"copyCheck", "done"}
        BY <2>2 DEF CopyDir, CopyLink, ChmodFails, ItemCopied
      <3> QED BY <3>1, <3>2, MarkedLate
    <2>3. CASE BeginTransfer \/ OpenSource \/ ReadChunk
      <3>1. /\ late' = late /\ cancelled' = cancelled /\ Item' = Item
            /\ pc \in {"copyApply", "open", "pump"} /\ pc' \in {"open", "create", "pump", "done"}
        BY <2>3 DEF BeginTransfer, OpenSource, ReadChunk, AtItem, walk, Item
      <3> QED BY <3>1 DEF StopsSoon
    <2>4. CASE TransferDone \/ TransferCut \/ TransferCancelled
      <3>1. late' = late /\ cancelled' = cancelled /\ pc' \in {"copyCheck", "done"}
        BY <2>4 DEF TransferDone, TransferCut, TransferCancelled, Transferred, ItemCopied
      <3> QED BY <3>1 DEF StopsSoon
    <2>5. CASE CreateDest \/ WriteChunk
      <3>1. /\ pc \in {"create", "pump"} /\ late' \in {late, late \cup {Item.path}}
            /\ (late' # late => cancelled) /\ cancelled' = cancelled /\ Item' = Item
        BY <2>5 DEF CreateDest, WriteChunk, AtItem, MarkLate, walk, Item
      <3>2. pc' \in {"open", "pump", "done"}
        <4>1. CASE CreateDest /\ CanCreate(dst, Item.path)
          <5>1. pc' = IF transport = "download" THEN "open" ELSE "pump"
            BY <4>1 DEF CreateDest
          <5> QED BY <5>1
        <4>2. CASE CreateDest /\ ~CanCreate(dst, Item.path)
          BY <4>2 DEF CreateDest
        <4>3. CASE WriteChunk
          BY <4>3 DEF WriteChunk, AtItem
        <4> QED BY <2>5, <4>1, <4>2, <4>3
      <3> QED BY <3>1, <3>2, MarkedLate
    <2>6. CASE WalkForDelete \/ StartDeleting \/ DeleteNext \/ RenameNext \/ JobFinished
      BY <2>6 DEF WalkForDelete, StartDeleting, DeleteNext, RenameNext, JobFinished, AtItem, StopsSoon
    <2>7. CASE DeleteItem \/ RenameItem
      <3>1. /\ pc \in {"delApply", "renApply"} /\ late' \in {late, late \cup {Item.path}}
            /\ (late' # late => cancelled) /\ cancelled' = cancelled
        BY <2>7 DEF DeleteItem, RenameItem, AtItem, MarkLate
      <3>2. pc' \in {"delCheck", "renCheck", "done"}
        BY <2>7 DEF DeleteItem, RenameItem
      <3> QED BY <3>1, <3>2, MarkedLate
    <2>8. CASE VfsFails
      BY <2>8 DEF VfsFails, StopsSoon
    <2>9. CASE Cancel \/ OtherProgram \/ UNCHANGED vars
      <3>1. Item' = Item /\ pc' = pc /\ late' = late /\ (late # {} => cancelled')
        BY <2>9 DEF Cancel, OtherProgram, vars, walk, Item, StopsSoon
      <3> QED BY <3>1 DEF StopsSoon
    <2> QED
      BY <2>1, <2>2, <2>3, <2>4, <2>5, <2>6, <2>7, <2>8, <2>9 DEF Next, JobStep, WriteAllRetries, Terminated
  <1>3. StopsSoon => PromptStop
    <2> SUFFICES ASSUME StopsSoon PROVE PromptStop
      OBVIOUS
    <2>1. CASE late = {}
      BY <2>1, FS_EmptySet DEF PromptStop
    <2>2. CASE late # {}
      <3>1. PICK x \in late : TRUE
        BY <2>2
      <3>2. late = {x}
        BY <3>1 DEF StopsSoon
      <3>3. Cardinality({x}) = 1
        BY FS_Singleton
      <3> QED BY <3>2, <3>3 DEF PromptStop
    <2> QED BY <2>1, <2>2
  <1> QED
    BY <1>1, <1>2, <1>3, InitTyped, NextTyped, PTL DEF Spec

-----------------------------------------------------------------------------
(* Contents.                                                               *)

LEMMA NextKeepsContents ==
    ASSUME ~SameDir, IInv, IInv', [Next]_vars, NoMixedContent
    PROVE  NoMixedContent'
  <1> USE DEF trees, walk, xfer, progress, history, End, Goto
  <1>1. CASE CopyDir \/ CopyLink \/ CreateDest \/ ChmodFails
    <2>1. touched' = touched /\ \A q \in Path : dst'[q] = dst[q] \/ dst'[q].data = "blank"
      <3>1. Item.path \in Path
        BY <1>1, ItemTyped DEF CopyDir, CopyLink, CreateDest, ChmodFails, AtItem, IInv
      <3>2. \/ dst' = dst
            \/ \E n \in {Leaf("dir"), Leaf("link"), File("blank", 0)} : dst' = [dst EXCEPT ![Item.path] = n]
        BY <1>1 DEF CopyDir, CopyLink, CreateDest, ChmodFails, PutDst
      <3>3. \A n \in {Leaf("dir"), Leaf("link"), File("blank", 0)} : n.data = "blank"
        BY DEF Leaf, File
      <3>4. touched' = touched
        BY <1>1 DEF CopyDir, CopyLink, CreateDest, ChmodFails
      <3> QED BY <3>1, <3>2, <3>3, <3>4 DEF IInv, TypeOK
    <2> QED BY <2>1 DEF NoMixedContent
  <1>2. CASE WriteChunk
    <2>1. /\ Item.path \in Path /\ pc' = "pump" /\ Item' = Item /\ touched' = touched
          /\ dst' = [dst EXCEPT ![Item.path] = Grown(dst[Item.path], held.data)]
      BY <1>2, ItemTyped DEF WriteChunk, AtItem, PutDst, IInv, Item
    <2>2. Item.path \notin touched => dst'[Item.path].data # "torn"
      BY <2>1 DEF IInv, Core, TransferExact, File
    <2>3. \A q \in Path : q # Item.path => dst'[q] = dst[q]
      BY <2>1 DEF IInv, TypeOK
    <2> QED BY <2>1, <2>2, <2>3 DEF NoMixedContent
  <1>7. CASE TransferCut
    <2>1. /\ Item.path \in Path /\ touched' = touched
          /\ \/ dst' = dst
             \/ dst' = [dst EXCEPT ![Item.path] = [dst[Item.path] EXCEPT !.len = @ - 1]]
      BY <1>7, ItemTyped DEF TransferCut, Transferred, AtItem, PutDst, IInv
    <2>2. \A q \in Path : dst[q] \in Node
      BY DEF IInv, TypeOK
    <2>3. \A q \in Path : dst'[q].data = dst[q].data
      <3> SUFFICES ASSUME NEW q \in Path PROVE dst'[q].data = dst[q].data
        OBVIOUS
      <3>1. [dst[q] EXCEPT !.len = @ - 1].data = dst[q].data
        BY <2>2 DEF Node
      <3>2. dst'[q] = dst[q] \/ dst'[q] = [dst[q] EXCEPT !.len = @ - 1]
        BY <2>1 DEF IInv, TypeOK
      <3> QED BY <3>1, <3>2
    <2> QED BY <2>1, <2>3 DEF NoMixedContent
  <1>3. CASE RenameItem
    <2>1. touched' = touched /\ \A q \in Path : dst'[q] \in {src[q], dst[q]}
      BY <1>3 DEF RenameItem, IInv, TypeOK
    <2>2. \A q \in Path : q \notin touched => src[q].data # "torn"
      <3>1. \A q \in Path : q \notin touched =>
                src[q] \in {Absent, Leaf("dir"), Leaf("link"), File("orig", Chunks)}
        BY DEF IInv, Core, SourceKnown, OrigIsTree
      <3> QED BY <3>1 DEF Absent, Leaf, File
    <2> QED BY <2>1, <2>2 DEF NoMixedContent
  <1>4. CASE OtherProgram
    BY <1>4 DEF OtherProgram, NoMixedContent
  <1>5. CASE WalkForCopy \/ StartCopying \/ CopyNext \/ BeginTransfer \/ OpenSource \/ ReadChunk \/ TransferDone
             \/ TransferCancelled \/ CopyFinished \/ WalkForDelete \/ StartDeleting \/ DeleteNext
    BY <1>5 DEF WalkForCopy, StartCopying, CopyNext, BeginTransfer, OpenSource, ReadChunk, TransferDone,
                Transferred, TransferCancelled, CopyFinished, WalkForDelete, StartDeleting, DeleteNext, NoMixedContent
  <1>6. CASE DeleteItem \/ RenameNext \/ JobFinished \/ VfsFails \/ Cancel \/ UNCHANGED vars
    BY <1>6 DEF DeleteItem, DropSrc, RenameNext, JobFinished, VfsFails, Cancel, vars, NoMixedContent
  <1> QED
    BY <1>1, <1>2, <1>3, <1>4, <1>5, <1>6, <1>7 DEF Next, JobStep, WriteAllRetries, Terminated

\* Unless the two panels show one directory, no destination file ever mixes
\* the contents of two files, however a remote agent fails.
THEOREM NoMixedContentTheorem == ~SameDir => (Spec => []NoMixedContent)
  <1>1. Init => IInv /\ NoMixedContent
    <2> SUFFICES ASSUME Init PROVE NoMixedContent
      BY InitTyped, InitCore DEF IInv
    <2>1. \A q \in Path : dst[q] \in {Absent, Leaf("dir"), Leaf("link"), File("orig", Chunks), File("old", Chunks)}
      BY DEF Init, InitialTrees
    <2> QED BY <2>1 DEF NoMixedContent, Absent, Leaf, File
  <1>2. CASE ~SameDir
    <2>1. IInv /\ NoMixedContent /\ [Next]_vars => IInv' /\ NoMixedContent'
      BY <1>2, NextKeepsIInv, NextKeepsContents
    <2>2. Spec => []NoMixedContent
      BY <1>1, <2>1, PTL DEF Spec
    <2> QED BY <2>2
  <1> QED BY <1>2

-----------------------------------------------------------------------------
(* Progress.                                                               *)

\* The files done are among the entries that count, so there are no more.
LEMMA CountFacts ==
    ASSUME TypeOK
    PROVE  /\ Cardinality(ToCount) \in Nat /\ Cardinality(CountedSoFar) \in Nat
           /\ IsFiniteSet(CountedSoFar)
           /\ Cardinality(CountedSoFar) <= Cardinality(ToCount)
           /\ DOMAIN plan = 1..Len(plan) /\ Len(plan) \in Nat
  <1>1. DOMAIN plan = 1..Len(plan) /\ Len(plan) \in Nat
    BY LenProperties DEF TypeOK
  <1>2. IsFiniteSet(ToCount)
    <2>1. IsFiniteSet(DOMAIN plan)
      BY <1>1, FS_Interval
    <2> QED BY <2>1, FS_Subset DEF ToCount
  <1>3. CountedSoFar \subseteq ToCount
    BY DEF CountedSoFar, ToCount
  <1>4. IsFiniteSet(CountedSoFar) /\ Cardinality(CountedSoFar) <= Cardinality(ToCount)
    BY <1>2, <1>3, FS_Subset
  <1> QED BY <1>1, <1>2, <1>4, FS_CardinalityType

\* One more entry is done: it counts if it is a file.
LEMMA CountStep ==
    ASSUME TypeOK, idx <= Len(plan), plan' = plan, idx' = idx + 1
    PROVE  Cardinality(CountedSoFar') =
               Cardinality(CountedSoFar) + (IF Item.kind = "file" THEN 1 ELSE 0)
  <1>1. /\ idx \in DOMAIN plan /\ IsFiniteSet(CountedSoFar) /\ Cardinality(CountedSoFar) \in Nat
        /\ idx \in Nat /\ \A i \in DOMAIN plan : i \in Nat
    BY CountFacts, ItemTyped DEF TypeOK
  <1>2. \A i \in DOMAIN plan : i < idx + 1 <=> i < idx \/ i = idx
    BY <1>1
  <1>3. CASE Item.kind = "file"
    <2>1. CountedSoFar' = CountedSoFar \cup {idx} /\ idx \notin CountedSoFar
      BY <1>1, <1>2, <1>3 DEF CountedSoFar, Item
    <2> QED BY <1>1, <1>3, <2>1, FS_AddElement
  <1>4. CASE Item.kind # "file"
    <2>1. CountedSoFar' = CountedSoFar
      BY <1>2, <1>4 DEF CountedSoFar, Item
    <2> QED BY <1>1, <1>4, <2>1
  <1> QED BY <1>3, <1>4

\* The job ends, and not as completed.
LEMMA EndKeepsCounted ==
    ASSUME Counted, pc' = "done", outcome' # "completed", UNCHANGED <<plan, done, total>>
    PROVE  Counted'
  BY DEF Counted, ProgressSound, Copying, Renaming

\* A step within the copying phase that finishes no entry.
LEMMA CopyingKeepsCounted ==
    ASSUME TypeOK, Counted, pc \in Copying \ {"copyWalk"}, pc' \in Copying \ {"copyWalk"},
           UNCHANGED <<plan, idx, transport, done, total, outcome>>,
           pc' \in {"open", "create", "pump"} => idx <= Len(plan) /\ Item.kind = "file"
    PROVE  Counted'
  <1>1. outcome = "none" /\ done <= total
    BY DEF Counted, ProgressSound, Copying
  <1>2. ToCount' = ToCount /\ CountedSoFar' = CountedSoFar /\ Item' = Item
    BY DEF ToCount, CountedSoFar, Item
  <1>3. ProgressSound'
    BY <1>1 DEF ProgressSound
  <1> QED BY <1>1, <1>2, <1>3 DEF Counted, Copying, Renaming

\* An entry is finished.
LEMMA ItemCopiedKeepsCounted ==
    ASSUME TypeOK, Counted, ItemCopied, pc \in {"copyApply", "pump"}, idx <= Len(plan),
           UNCHANGED <<plan, transport, total>>,
           done' = done + (IF Item.kind = "file" THEN 1 ELSE 0)
    PROVE  Counted'
  <1>1. /\ pc' = "copyCheck" /\ idx' = idx + 1 /\ outcome' = outcome /\ outcome = "none"
        /\ total = Cardinality(ToCount) /\ done = Cardinality(CountedSoFar)
        /\ transport = "stream" /\ \A i \in DOMAIN plan : plan[i].kind # "none"
    BY DEF ItemCopied, Goto, Counted, Copying
  <1>2. done' = Cardinality(CountedSoFar')
    BY <1>1, CountStep
  <1>3. ToCount' = ToCount /\ IsFiniteSet(ToCount)
    <2>1. IsFiniteSet(DOMAIN plan)
      BY CountFacts, FS_Interval
    <2> QED BY <2>1, FS_Subset DEF ToCount
  <1>4. CountedSoFar' \subseteq ToCount
    BY DEF CountedSoFar, ToCount
  <1>5. Cardinality(CountedSoFar') <= Cardinality(ToCount)
    BY <1>3, <1>4, FS_Subset
  <1>6. ProgressSound'
    BY <1>1, <1>2, <1>5 DEF ProgressSound
  <1>7. idx' <= Len(plan') + 1
    BY <1>1, CountFacts DEF TypeOK
  <1> QED BY <1>1, <1>2, <1>3, <1>6, <1>7 DEF Counted, Copying, Renaming

LEMMA CopyStepsKeepCounted ==
    ASSUME ~FastPath, TypeOK, TypeOK', Counted,
           \/ StartCopying \/ CopyNext \/ CopyDir \/ CopyLink \/ BeginTransfer \/ OpenSource
           \/ CreateDest \/ ReadChunk \/ WriteChunk \/ TransferDone \/ TransferCut
           \/ TransferCancelled \/ ChmodFails
    PROVE  Counted'
  <1> USE DEF trees, walk, xfer, progress, history, End, Goto, AtItem
  <1>1. CASE StartCopying
    <2>1. /\ pc = "copyWalk" /\ pc' = "copyCheck" /\ transport' = "stream"
          /\ total' = Cardinality(ToCount) /\ done' = 0 /\ idx' = 1
          /\ UNCHANGED <<plan, outcome>> /\ outcome = "none"
      BY <1>1 DEF StartCopying, Negotiated, ToCount, Counted
    <2>2. CountedSoFar' = {} /\ ToCount' = ToCount
      BY <2>1, CountFacts DEF CountedSoFar, ToCount
    <2>3. done' = Cardinality(CountedSoFar') /\ idx' <= Len(plan') + 1
      BY <2>1, <2>2, FS_EmptySet, CountFacts
    <2>4. ProgressSound'
      BY <2>1, CountFacts DEF ProgressSound
    <2>5. \A i \in DOMAIN plan' : plan'[i].kind # "none"
      BY <2>1 DEF Counted, Copying
    <2> QED BY <2>1, <2>2, <2>3, <2>4, <2>5 DEF Counted, Copying, Renaming
  <1>2. CASE CopyNext
    <2>1. CASE cancelled
      BY <1>2, <2>1, EndKeepsCounted DEF CopyNext
    <2>2. CASE ~cancelled
      BY <1>2, <2>2, CopyingKeepsCounted DEF CopyNext, Copying
    <2> QED BY <2>1, <2>2
  <1>3. CASE CopyDir
    <2>1. CASE CanMkdir(dst, Item.path)
      <3>1. ItemCopied /\ pc = "copyApply" /\ idx <= Len(plan) /\ Item.kind = "dir"
            /\ UNCHANGED <<plan, transport, total, done>>
        BY <1>3, <2>1 DEF CopyDir
      <3>2. done' = done + (IF Item.kind = "file" THEN 1 ELSE 0)
        BY <3>1 DEF TypeOK
      <3> QED BY <3>1, <3>2, ItemCopiedKeepsCounted
    <2>2. CASE ~CanMkdir(dst, Item.path)
      BY <1>3, <2>2, EndKeepsCounted DEF CopyDir
    <2> QED BY <2>1, <2>2
  <1>4. CASE CopyLink
    <2>1. ItemCopied /\ pc = "copyApply" /\ idx <= Len(plan) /\ Item.kind = "link"
          /\ UNCHANGED <<plan, transport, total, done>>
      BY <1>4 DEF CopyLink
    <2>2. done' = done + (IF Item.kind = "file" THEN 1 ELSE 0)
      BY <2>1 DEF TypeOK
    <2> QED BY <2>1, <2>2, ItemCopiedKeepsCounted
  <1>5. CASE BeginTransfer
    <2>1. CASE transport # "stream" /\ cancelled
      BY <1>5, <2>1, EndKeepsCounted DEF BeginTransfer
    <2>2. CASE ~(transport # "stream" /\ cancelled)
      BY <1>5, <2>2, CopyingKeepsCounted DEF BeginTransfer, Copying
    <2> QED BY <2>1, <2>2
  <1>6. CASE OpenSource
    <2>1. CASE src[Item.path].kind # "file"
      BY <1>6, <2>1, EndKeepsCounted DEF OpenSource, Error
    <2>2. CASE src[Item.path].kind = "file"
      <3>1. pc = "open" /\ Item.kind = "file" /\ idx <= Len(plan)
        BY <1>6 DEF OpenSource, Counted
      <3> QED BY <1>6, <2>2, <3>1, CopyingKeepsCounted DEF OpenSource, Copying
    <2> QED BY <2>1, <2>2
  <1>7. CASE CreateDest
    <2>1. CASE ~CanCreate(dst, Item.path)
      BY <1>7, <2>1, EndKeepsCounted DEF CreateDest, Error
    <2>2. CASE CanCreate(dst, Item.path)
      <3>1. pc = "create" /\ Item.kind = "file" /\ idx <= Len(plan)
        BY <1>7 DEF CreateDest, Counted
      <3>2. pc' \in {"open", "pump"} /\ UNCHANGED <<plan, idx, transport, done, total, outcome>>
        BY <1>7, <2>2 DEF CreateDest
      <3> QED BY <3>1, <3>2, CopyingKeepsCounted DEF Copying
    <2> QED BY <2>1, <2>2
  <1>8. CASE ReadChunk \/ WriteChunk
    <2>1. pc = "pump" /\ Item.kind = "file" /\ idx <= Len(plan)
      BY <1>8 DEF ReadChunk, WriteChunk, Counted
    <2>2. pc' = "pump" /\ UNCHANGED <<plan, idx, transport, done, total, outcome>>
      BY <1>8 DEF ReadChunk, WriteChunk
    <2> QED BY <2>1, <2>2, CopyingKeepsCounted DEF Copying
  <1>9. CASE TransferDone \/ TransferCut
    <2>1. /\ pc = "pump" /\ Item.kind = "file" /\ idx <= Len(plan) /\ transport = "stream"
          /\ ItemCopied /\ UNCHANGED <<plan, transport, total>>
      BY <1>9 DEF TransferDone, TransferCut, Transferred, Counted, Copying
    <2>2. done' = done + 1
      BY <1>9, <2>1 DEF TransferDone, TransferCut, Transferred
    <2> QED BY <2>1, <2>2, ItemCopiedKeepsCounted
  <1>11. CASE ChmodFails
    BY <1>11, EndKeepsCounted DEF ChmodFails
  <1>10. CASE TransferCancelled
    BY <1>10, EndKeepsCounted DEF TransferCancelled
  <1> QED
    BY <1>1, <1>2, <1>3, <1>4, <1>5, <1>6, <1>7, <1>8, <1>9, <1>10, <1>11

\* When the plan is used up, everything that is no symlink has been counted.
LEMMA CopyFinishedKeepsCounted ==
    ASSUME TypeOK, TypeOK', Counted, CopyFinished
    PROVE  Counted'
  <1> USE DEF trees, walk, xfer, progress, history, End, Goto
  <1>1. /\ pc = "copyCheck" /\ idx > Len(plan) /\ outcome = "none"
        /\ total = Cardinality(ToCount) /\ done = Cardinality(CountedSoFar)
    BY DEF CopyFinished, Counted, Copying
  <1>2. CASE kind = "copy"
    <2>1. pc' = "done" /\ outcome' = "completed" /\ UNCHANGED <<plan, done, total>>
      BY <1>2 DEF CopyFinished
    <2>2. ASSUME \A i \in DOMAIN plan : plan[i].kind # "link" PROVE done = total
      <3>1. \A i \in DOMAIN plan : plan[i].kind \in {"dir", "file"} /\ i < idx
        <4>1. \A i \in DOMAIN plan : plan[i].kind \in NodeKinds /\ plan[i].kind # "none" /\ i < idx
          <5>1. \A i \in DOMAIN plan : plan[i] \in [path : Path, kind : NodeKinds]
            BY CountFacts, ElementOfSeq DEF TypeOK
          <5>2. \A i \in DOMAIN plan : i < idx
            BY <1>1, CountFacts DEF TypeOK
          <5> QED BY <1>1, <5>1, <5>2 DEF Counted, Copying
        <4> QED BY <4>1, <2>2 DEF NodeKinds
      <3>2. CountedSoFar = ToCount
        BY <3>1 DEF CountedSoFar, ToCount
      <3> QED BY <1>1, <3>2
    <2> QED BY <2>1, <2>2 DEF Counted, ProgressSound, Copying, Renaming
  <1>3. CASE kind # "copy"
    <2>1. /\ pc' = "delWalk" /\ done' = 0 /\ total' = 0 /\ idx' = 1 /\ outcome' = "none"
      BY <1>1, <1>3 DEF CopyFinished
    <2> QED BY <2>1 DEF Counted, ProgressSound, Copying, Renaming
  <1> QED BY <1>2, <1>3

LEMMA WalkStepsKeepCounted ==
    ASSUME TypeOK, TypeOK', Counted, WalkForCopy \/ WalkForDelete \/ StartDeleting
    PROVE  Counted'
  <1> USE DEF trees, walk, xfer, progress, history, End, Goto
  <1>1. CASE WalkForCopy
    <2> DEFINE p == Head(todo).path
    <2>1. CASE ~Exists(src, p)
      BY <1>1, <2>1, EndKeepsCounted DEF WalkForCopy
    <2>2. CASE Exists(src, p)
      <3>1. /\ pc = "copyWalk" /\ pc' = "copyWalk" /\ UNCHANGED <<idx, done, total, outcome>>
            /\ plan' = Append(plan, Planned(p, src[p].kind))
        BY <1>1, <2>2 DEF WalkForCopy
      <3>2. Planned(p, src[p].kind).kind # "none"
        BY <2>2 DEF Exists, Planned
      <3>3. /\ DOMAIN plan' = 1..Len(plan)+1 /\ \A i \in 1..Len(plan) : plan'[i] = plan[i]
            /\ plan'[Len(plan) + 1] = Planned(p, src[p].kind)
        BY <3>1, CountFacts DEF TypeOK
      <3>4. \A i \in DOMAIN plan' : plan'[i].kind # "none"
        BY <3>1, <3>2, <3>3, CountFacts DEF Counted, Copying
      <3>5. outcome = "none" /\ done <= total
        BY <3>1 DEF Counted, ProgressSound
      <3>6. ProgressSound'
        BY <3>1, <3>5 DEF ProgressSound
      <3> QED BY <3>1, <3>4, <3>5, <3>6 DEF Counted, Copying, Renaming
    <2> QED BY <2>1, <2>2
  <1>2. CASE WalkForDelete
    <2>1. UNCHANGED <<done, total>> /\ pc = "delWalk" /\ outcome = "none" /\ done <= total
      BY <1>2 DEF WalkForDelete, Counted, ProgressSound
    <2>2. \/ pc' = "done" /\ outcome' = "failed" /\ plan' = plan
          \/ pc' = "delWalk" /\ idx' = idx /\ outcome' = outcome
      BY <1>2 DEF WalkForDelete
    <2>3. outcome' # "completed" /\ ProgressSound'
      BY <2>1, <2>2 DEF ProgressSound
    <2> QED BY <2>1, <2>2, <2>3 DEF Counted, Copying, Renaming
  <1>3. CASE StartDeleting
    <2>1. /\ pc = "delWalk" /\ pc' = "delCheck" /\ total' = Len(plan) /\ UNCHANGED <<plan, idx, done, outcome>>
          /\ done = 0 /\ idx = 1 /\ outcome = "none"
      BY <1>3 DEF StartDeleting, Counted
    <2>2. ProgressSound' /\ idx <= Len(plan) + 1
      BY <2>1, CountFacts DEF ProgressSound
    <2> QED BY <2>1, <2>2 DEF Counted, Copying, Renaming
  <1> QED BY <1>1, <1>2, <1>3

\* The plan is deleted or renamed entry by entry, one count each.
LEMMA EntryStepsKeepCounted ==
    ASSUME TypeOK, TypeOK', Counted,
           DeleteNext \/ DeleteItem \/ RenameNext \/ RenameItem \/ JobFinished
    PROVE  Counted'
  <1> USE DEF trees, walk, xfer, progress, history, End, Goto, AtItem
  <1> DEFINE ByEntry == {"delCheck", "delApply", "renCheck", "renApply"}
  <1>1. /\ pc \in ByEntry /\ plan' = plan /\ total' = total
        /\ total = Len(plan) /\ done + 1 = idx /\ idx <= Len(plan) + 1 /\ outcome = "none"
    BY DEF DeleteNext, DeleteItem, RenameNext, RenameItem, JobFinished, Counted, Renaming
  <1>2. CASE DeleteNext \/ RenameNext
    <2>1. /\ UNCHANGED <<done, idx>>
          /\ \/ pc' = "done" /\ outcome' = "cancelled"
             \/ pc' \in ByEntry /\ outcome' = outcome
      <3>1. CASE DeleteNext
        BY <3>1 DEF DeleteNext
      <3>2. CASE RenameNext
        BY <3>2 DEF RenameNext
      <3> QED BY <1>2, <3>1, <3>2
    <2>2. ProgressSound'
      BY <1>1, <2>1 DEF Counted, ProgressSound
    <2> QED BY <1>1, <2>1, <2>2 DEF Counted, Copying, Renaming
  <1>3. CASE DeleteItem \/ RenameItem
    <2>1. \/ pc' = "done" /\ outcome' = "failed" /\ done' = done
          \/ pc' \in ByEntry /\ outcome' = outcome /\ done' = done + 1 /\ idx' = idx + 1
      BY <1>3 DEF DeleteItem, RenameItem
    <2>2. idx <= Len(plan)
      BY <1>3 DEF DeleteItem, RenameItem
    <2>3. done <= total
      BY DEF Counted, ProgressSound
    <2>4. CASE done' = done /\ pc' = "done" /\ outcome' = "failed"
      BY <1>1, <2>4, EndKeepsCounted
    <2>5. CASE done' = done + 1 /\ pc' \in ByEntry /\ outcome' = outcome /\ idx' = idx + 1
      <3>1. done' + 1 = idx' /\ idx' <= Len(plan) + 1 /\ done' <= total'
        BY <1>1, <2>2, <2>5, CountFacts DEF TypeOK
      <3>2. ProgressSound'
        BY <1>1, <2>5, <3>1 DEF ProgressSound
      <3> QED BY <1>1, <2>5, <3>1, <3>2 DEF Counted, Copying, Renaming
    <2> QED BY <2>1, <2>4, <2>5
  <1>4. CASE JobFinished
    <2>1. pc' = "done" /\ outcome' = "completed" /\ done' = done /\ idx > Len(plan)
      BY <1>4 DEF JobFinished
    <2>2. done = total
      BY <1>1, <2>1, CountFacts DEF TypeOK
    <2>3. done' <= total' /\ done' = total'
      BY <1>1, <2>1, <2>2, CountFacts
    <2>4. ProgressSound'
      BY <2>3 DEF ProgressSound
    <2> QED BY <2>1, <2>4 DEF Counted, Copying, Renaming
  <1> QED BY <1>2, <1>3, <1>4

LEMMA NextKeepsCounted ==
    ASSUME ~FastPath, TypeOK, TypeOK', Counted, [Next]_vars
    PROVE  Counted'
  <1>1. CASE VfsFails
    BY <1>1, EndKeepsCounted DEF VfsFails, End, Error, walk, progress
  <1>2. CASE Cancel \/ OtherProgram \/ UNCHANGED vars
    <2>1. UNCHANGED <<pc, plan, idx, transport, done, total, outcome>>
      BY <1>2 DEF Cancel, OtherProgram, vars, walk, xfer, progress
    <2> QED BY <2>1 DEF Counted, ProgressSound, ToCount, CountedSoFar, Item
  <1> QED
    BY <1>1, <1>2, CopyStepsKeepCounted, CopyFinishedKeepsCounted, WalkStepsKeepCounted,
       EntryStepsKeepCounted DEF Next, JobStep, WriteAllRetries, Terminated

\* files_done never passes files_total, and is equal to it when a job
\* completes that met no symlink.  (The QUIC transports count a file twice.)
THEOREM ProgressSoundTheorem == ~FastPath => (Spec => []ProgressSound)
  <1>1. Init => Counted
    <2> SUFFICES ASSUME Init PROVE Counted
      OBVIOUS
    <2>1. TypeOK
      BY InitTyped
    <2>2. /\ done = 0 /\ idx = 1 /\ total = Len(plan) /\ outcome = "none" /\ pc = FirstPc(kind)
          /\ kind \in JobKinds /\ (kind # "rename" => plan = <<>>)
      BY <2>1 DEF Init, TypeOK
    <2>3. Len(plan) \in Nat /\ (kind # "rename" => Len(plan) = 0 /\ DOMAIN plan = {})
      BY <2>1, <2>2, CountFacts
    <2>4. ProgressSound
      BY <2>2, <2>3 DEF ProgressSound
    <2>5. CASE kind = "rename"
      BY <2>2, <2>3, <2>4, <2>5 DEF Counted, FirstPc, Copying, Renaming
    <2>6. CASE kind # "rename"
      BY <2>2, <2>3, <2>4, <2>6 DEF Counted, FirstPc, Copying, Renaming
    <2> QED BY <2>5, <2>6
  <1>2. Counted => ProgressSound
    BY DEF Counted
  <1>3. CASE ~FastPath
    <2>1. TypeOK /\ Counted /\ [Next]_vars => TypeOK' /\ Counted'
      BY <1>3, NextTyped, NextKeepsCounted
    <2>2. Spec => []ProgressSound
      BY <1>1, <1>2, <2>1, InitTyped, PTL DEF Spec
    <2> QED BY <2>2
  <1> QED BY <1>3

-----------------------------------------------------------------------------
(* The walks: where the entries of a frame stack or a plan come from.      *)

Frame == [path : Path, post : BOOLEAN]

\* Positions in a sequence without its head, and in two sequences put together.
LEMMA TailAt ==
    ASSUME NEW S, NEW s \in Seq(S), s # <<>>
    PROVE  /\ Tail(s) \in Seq(S) /\ Head(s) = s[1] /\ 1 \in DOMAIN s
           /\ \A i \in DOMAIN s : i \in Nat /\ i >= 1
           /\ \A i \in DOMAIN s : i # 1 => i - 1 \in DOMAIN Tail(s) /\ Tail(s)[i - 1] = s[i]
           /\ \A i \in DOMAIN Tail(s) : i \in Nat /\ i + 1 \in DOMAIN s /\ Tail(s)[i] = s[i + 1]
  <1>1. /\ Tail(s) \in Seq(S) /\ Len(Tail(s)) = Len(s) - 1
        /\ \A i \in 1..Len(Tail(s)) : Tail(s)[i] = s[i + 1]
    BY HeadTailProperties
  <1>2. /\ DOMAIN s = 1..Len(s) /\ Len(s) \in Nat /\ DOMAIN Tail(s) = 1..Len(Tail(s))
    BY <1>1, LenProperties
  <1>3. Len(s) # 0 /\ Head(s) = s[1]
    OBVIOUS
  <1> QED BY <1>1, <1>2, <1>3

Joined(n, s, t) == n = s \o t
JoinedAt(n, s, t) ==
    /\ Len(s) \in Nat
    /\ \A i \in DOMAIN s : i \in Nat /\ i <= Len(s) /\ i \in DOMAIN n /\ n[i] = s[i]
    /\ \A i \in DOMAIN t : i \in Nat /\ i >= 1 /\ Len(s) + i \in DOMAIN n /\ n[Len(s) + i] = t[i]
    /\ \A k \in DOMAIN n : k \in DOMAIN s \/ \E i \in DOMAIN t : k = Len(s) + i

LEMMA ConcatAt ==
    ASSUME NEW S, NEW s \in Seq(S), NEW t \in Seq(S), NEW n, Joined(n, s, t)
    PROVE  n \in Seq(S) /\ JoinedAt(n, s, t)
  <1>1. /\ n \in Seq(S) /\ Len(n) = Len(s) + Len(t)
        /\ \A i \in 1..Len(s) + Len(t) : n[i] = IF i <= Len(s) THEN s[i] ELSE t[i - Len(s)]
    BY ConcatProperties DEF Joined
  <1> DEFINE m == Len(s)
             l == Len(t)
  <1>2. /\ m \in Nat /\ l \in Nat /\ DOMAIN s = 1..m /\ DOMAIN t = 1..l /\ DOMAIN n = 1..(m + l)
    BY <1>1, LenProperties
  <1>3. \A i \in 1..m : i \in Nat /\ i <= m /\ i \in 1..(m + l) /\ n[i] = s[i]
    BY <1>1, <1>2
  <1>4. \A i \in 1..l : i \in Nat /\ i >= 1 /\ m + i \in 1..(m + l) /\ n[m + i] = t[i]
    <2> SUFFICES ASSUME NEW i \in 1..l
                 PROVE  i \in Nat /\ i >= 1 /\ m + i \in 1..(m + l) /\ n[m + i] = t[i]
      OBVIOUS
    <2>1. i \in Nat /\ i >= 1 /\ m + i \in 1..(m + l) /\ ~(m + i <= m) /\ (m + i) - m = i
      BY <1>2
    <2>2. n[m + i] = t[(m + i) - m]
      BY <1>1, <2>1
    <2> QED BY <2>1, <2>2
  <1>5. \A k \in 1..(m + l) : k \in 1..m \/ \E i \in 1..l : k = m + i
    <2> SUFFICES ASSUME NEW k \in 1..(m + l), k \notin 1..m PROVE \E i \in 1..l : k = m + i
      OBVIOUS
    <2>1. k - m \in 1..l /\ k = m + (k - m)
      BY <1>2
    <2> QED BY <2>1
  <1> QED BY <1>1, <1>2, <1>3, <1>4, <1>5 DEF JoinedAt

\* Frames for the children, one for the directory itself, and the frames
\* that were waiting behind it.
Pushed(n, kids, f, s) == n = kids \o <<f>> \o Tail(s)
PushedAt(n, kids, f, s) ==
    /\ Len(kids) \in Nat
    /\ \A k \in DOMAIN kids : k \in Nat /\ k <= Len(kids) /\ k \in DOMAIN n /\ n[k] = kids[k]
    /\ Len(kids) + 1 \in DOMAIN n /\ n[Len(kids) + 1] = f
    /\ \A j \in DOMAIN s : j # 1 => j \in Nat /\ j > 1 /\ Len(kids) + j \in DOMAIN n /\ n[Len(kids) + j] = s[j]
    /\ \A k \in DOMAIN n : \/ k \in DOMAIN kids
                           \/ k = Len(kids) + 1
                           \/ \E j \in DOMAIN s : j # 1 /\ k = Len(kids) + j

LEMMA PushAt ==
    ASSUME NEW S, NEW kids \in Seq(S), NEW f \in S, NEW s \in Seq(S), s # <<>>,
           NEW n, Pushed(n, kids, f, s)
    PROVE  n \in Seq(S) /\ PushedAt(n, kids, f, s)
  <1> DEFINE m == Len(kids)
             t == <<f>> \o Tail(s)
  <1>1. <<f>> \in Seq(S) /\ Len(<<f>>) = 1 /\ DOMAIN <<f>> = {1} /\ <<f>>[1] = f
    OBVIOUS
  <1>2. /\ Tail(s) \in Seq(S)
        /\ \A i \in DOMAIN s : i \in Nat /\ i >= 1
        /\ \A i \in DOMAIN s : i # 1 => i - 1 \in DOMAIN Tail(s) /\ Tail(s)[i - 1] = s[i]
        /\ \A i \in DOMAIN Tail(s) : i \in Nat /\ i + 1 \in DOMAIN s
    BY TailAt
  <1>3. /\ t \in Seq(S) /\ 1 \in DOMAIN t /\ t[1] = f
        /\ \A i \in DOMAIN Tail(s) : 1 + i \in DOMAIN t /\ t[1 + i] = Tail(s)[i]
        /\ \A k \in DOMAIN t : k = 1 \/ \E i \in DOMAIN Tail(s) : k = 1 + i
    <2> DEFINE u == <<f>>
               r == Tail(s)
    <2>1. u \in Seq(S) /\ r \in Seq(S) /\ Len(u) = 1 /\ DOMAIN u = {1} /\ u[1] = f /\ Joined(t, u, r)
      BY <1>1, <1>2 DEF Joined
    <2> HIDE DEF u, r, t
    <2>2. /\ t \in Seq(S) /\ Len(u) \in Nat
          /\ \A i \in DOMAIN u : i \in Nat /\ i <= Len(u) /\ i \in DOMAIN t /\ t[i] = u[i]
          /\ \A i \in DOMAIN r : i \in Nat /\ i >= 1 /\ Len(u) + i \in DOMAIN t /\ t[Len(u) + i] = r[i]
          /\ \A k \in DOMAIN t : k \in DOMAIN u \/ \E i \in DOMAIN r : k = Len(u) + i
      <3>1. t \in Seq(S) /\ JoinedAt(t, u, r)
        BY <2>1, ConcatAt
      <3> QED BY <3>1 DEF JoinedAt
    <2>3. /\ t \in Seq(S) /\ 1 \in DOMAIN t /\ t[1] = f
          /\ \A i \in DOMAIN r : 1 + i \in DOMAIN t /\ t[1 + i] = r[i]
          /\ \A k \in DOMAIN t : k = 1 \/ \E i \in DOMAIN r : k = 1 + i
      BY <2>1, <2>2
    <2> QED BY <2>3 DEF r
  <1>4. \A j \in DOMAIN s : j # 1 => j \in DOMAIN t /\ t[j] = s[j]
    <2> SUFFICES ASSUME NEW j \in DOMAIN s, j # 1 PROVE j \in DOMAIN t /\ t[j] = s[j]
      OBVIOUS
    <2>1. j \in Nat /\ j - 1 \in DOMAIN Tail(s) /\ Tail(s)[j - 1] = s[j]
      BY <1>2
    <2>2. 1 + (j - 1) = j
      BY <2>1
    <2>3. 1 + (j - 1) \in DOMAIN t /\ t[1 + (j - 1)] = Tail(s)[j - 1]
      BY <1>3, <2>1
    <2> QED BY <2>1, <2>2, <2>3
  <1>5. \A k \in DOMAIN t : k = 1 \/ (k \in DOMAIN s /\ k # 1)
    BY <1>2, <1>3
  <1>6. n = kids \o t
    <2>1. (kids \o <<f>>) \o Tail(s) = kids \o t
      BY <1>1, <1>2, ConcatAssociative
    <2> QED BY <2>1 DEF Pushed
  <1>7. /\ n \in Seq(S) /\ m \in Nat
        /\ \A i \in DOMAIN kids : i \in Nat /\ i <= m /\ i \in DOMAIN n /\ n[i] = kids[i]
        /\ \A i \in DOMAIN t : i \in Nat /\ i >= 1 /\ m + i \in DOMAIN n /\ n[m + i] = t[i]
        /\ \A k \in DOMAIN n : k \in DOMAIN kids \/ \E i \in DOMAIN t : k = m + i
    <2>1. Joined(n, kids, t)
      BY <1>6 DEF Joined
    <2> HIDE DEF t
    <2>2. n \in Seq(S) /\ JoinedAt(n, kids, t)
      BY <1>3, <2>1, ConcatAt
    <2> QED BY <2>2 DEF JoinedAt
  <1> HIDE DEF t
  <1>8. m + 1 \in DOMAIN n /\ n[m + 1] = f
    BY <1>3, <1>7
  <1>9. \A j \in DOMAIN s : j # 1 => j \in Nat /\ j > 1 /\ m + j \in DOMAIN n /\ n[m + j] = s[j]
    <2> SUFFICES ASSUME NEW j \in DOMAIN s, j # 1
                 PROVE  j \in Nat /\ j > 1 /\ m + j \in DOMAIN n /\ n[m + j] = s[j]
      OBVIOUS
    <2>1. j \in Nat /\ j > 1
      BY <1>2
    <2>2. j \in DOMAIN t /\ t[j] = s[j]
      BY <1>4
    <2>3. m + j \in DOMAIN n /\ n[m + j] = t[j]
      BY <1>7, <2>2, Zenon
    <2> QED BY <2>1, <2>2, <2>3
  <1>10. \A k \in DOMAIN n : \/ k \in DOMAIN kids
                             \/ k = m + 1
                             \/ \E j \in DOMAIN s : j # 1 /\ k = m + j
    <2> HIDE DEF m
    <2> QED BY <1>5, <1>7
  <1> QED BY <1>7, <1>8, <1>9, <1>10 DEF PushedAt

\* The same without a frame for the directory.
Replaced(n, kids, s) == n = kids \o Tail(s)
ReplacedAt(n, kids, s) ==
    /\ \A k \in DOMAIN kids : k \in DOMAIN n /\ n[k] = kids[k]
    /\ \A j \in DOMAIN s : j # 1 => \E k \in DOMAIN n : n[k] = s[j]
    /\ \A k \in DOMAIN n : k \in DOMAIN kids \/ \E j \in DOMAIN s : j # 1 /\ n[k] = s[j]
    /\ Once(kids) /\ Once(s) /\ PathsOf(kids) \cap PathsOf(s) = {} => Once(n)

LEMMA ReplaceAt ==
    ASSUME NEW S, NEW kids \in Seq(S), NEW s \in Seq(S), s # <<>>, NEW n, Replaced(n, kids, s)
    PROVE  n \in Seq(S) /\ ReplacedAt(n, kids, s)
  <1> DEFINE m == Len(kids)
  <1>1. /\ Tail(s) \in Seq(S)
        /\ \A i \in DOMAIN s : i \in Nat /\ i >= 1
        /\ \A i \in DOMAIN s : i # 1 => i - 1 \in DOMAIN Tail(s) /\ Tail(s)[i - 1] = s[i]
        /\ \A i \in DOMAIN Tail(s) : i \in Nat /\ i + 1 \in DOMAIN s /\ Tail(s)[i] = s[i + 1]
    BY TailAt
  <1>2. /\ n \in Seq(S) /\ m \in Nat
        /\ \A i \in DOMAIN kids : i \in Nat /\ i <= m /\ i \in DOMAIN n /\ n[i] = kids[i]
        /\ \A i \in DOMAIN Tail(s) : i \in Nat /\ i >= 1 /\ m + i \in DOMAIN n /\ n[m + i] = Tail(s)[i]
        /\ \A k \in DOMAIN n : k \in DOMAIN kids \/ \E i \in DOMAIN Tail(s) : k = m + i
    <2> DEFINE r == Tail(s)
    <2>1. r \in Seq(S) /\ Joined(n, kids, r)
      BY <1>1 DEF Joined, Replaced
    <2> HIDE DEF r
    <2>2. /\ n \in Seq(S) /\ Len(kids) \in Nat
          /\ \A i \in DOMAIN kids : i \in Nat /\ i <= Len(kids) /\ i \in DOMAIN n /\ n[i] = kids[i]
          /\ \A i \in DOMAIN r : i \in Nat /\ i >= 1 /\ Len(kids) + i \in DOMAIN n /\ n[Len(kids) + i] = r[i]
          /\ \A k \in DOMAIN n : k \in DOMAIN kids \/ \E i \in DOMAIN r : k = Len(kids) + i
      <3>1. n \in Seq(S) /\ JoinedAt(n, kids, r)
        BY <2>1, ConcatAt
      <3> QED BY <3>1 DEF JoinedAt
    <2> QED BY <2>2 DEF r
  <1> HIDE DEF m
  <1>3. \A j \in DOMAIN s : j # 1 => \E k \in DOMAIN n : n[k] = s[j]
    <2> SUFFICES ASSUME NEW j \in DOMAIN s, j # 1 PROVE \E k \in DOMAIN n : n[k] = s[j]
      OBVIOUS
    <2>1. j - 1 \in DOMAIN Tail(s) /\ Tail(s)[j - 1] = s[j]
      BY <1>1
    <2>2. m + (j - 1) \in DOMAIN n /\ n[m + (j - 1)] = s[j]
      BY <1>2, <2>1
    <2> QED BY <2>2
  <1>4. \A k \in DOMAIN n : k \in DOMAIN kids \/
            \E i \in DOMAIN Tail(s) : k = m + i /\ n[k] = s[i + 1] /\ i + 1 \in DOMAIN s /\ i + 1 # 1
    <2>1. ASSUME NEW i \in DOMAIN Tail(s)
          PROVE  n[m + i] = s[i + 1] /\ i + 1 \in DOMAIN s /\ i + 1 # 1
      <3>1. i >= 1 /\ i \in Nat /\ n[m + i] = Tail(s)[i]
        BY <1>2, Zenon
      <3>2. i + 1 \in DOMAIN s /\ Tail(s)[i] = s[i + 1]
        BY <1>1, Zenon
      <3>3. i + 1 # 1
        BY <3>1
      <3> QED BY <3>1, <3>2, <3>3, Zenon
    <2> SUFFICES ASSUME NEW k \in DOMAIN n, k \notin DOMAIN kids
                 PROVE  \E i \in DOMAIN Tail(s) : k = m + i /\ n[k] = s[i + 1] /\ i + 1 \in DOMAIN s /\ i + 1 # 1
      OBVIOUS
    <2>2. PICK i \in DOMAIN Tail(s) : k = m + i
      BY <1>2, Zenon
    <2>3. n[k] = s[i + 1] /\ i + 1 \in DOMAIN s /\ i + 1 # 1
      BY <2>1, <2>2, Zenon
    <2> QED BY <2>2, <2>3, Zenon
  <1>5. ASSUME Once(kids), Once(s), PathsOf(kids) \cap PathsOf(s) = {} PROVE Once(n)
    <2> SUFFICES ASSUME NEW k \in DOMAIN n, NEW l \in DOMAIN n, n[k].path = n[l].path PROVE k = l
      BY DEF Once
    <2>1. ASSUME NEW a \in DOMAIN kids, NEW b \in DOMAIN s PROVE kids[a].path # s[b].path /\ n[a] = kids[a]
      BY <1>2, <1>5 DEF PathsOf
    <2>2. CASE k \in DOMAIN kids /\ l \in DOMAIN kids
      BY <1>2, <1>5, <2>2 DEF Once
    <2>3. CASE k \in DOMAIN kids /\ l \notin DOMAIN kids
      <3>1. PICK j \in DOMAIN Tail(s) : n[l] = s[j + 1] /\ j + 1 \in DOMAIN s
        BY <1>4, <2>3
      <3> QED BY <2>1, <2>3, <3>1
    <2>4. CASE k \notin DOMAIN kids /\ l \in DOMAIN kids
      <3>1. PICK i \in DOMAIN Tail(s) : n[k] = s[i + 1] /\ i + 1 \in DOMAIN s
        BY <1>4, <2>4
      <3> QED BY <2>1, <2>4, <3>1
    <2>5. CASE k \notin DOMAIN kids /\ l \notin DOMAIN kids
      <3>1. PICK i \in DOMAIN Tail(s) : k = m + i /\ n[k] = s[i + 1] /\ i + 1 \in DOMAIN s
        BY <1>4, <2>5
      <3>2. PICK j \in DOMAIN Tail(s) : l = m + j /\ n[l] = s[j + 1] /\ j + 1 \in DOMAIN s
        BY <1>4, <2>5
      <3>3. i + 1 = j + 1
        BY <1>5, <3>1, <3>2 DEF Once
      <3>4. i \in Nat /\ j \in Nat
        BY <1>1
      <3> QED BY <3>1, <3>2, <3>3, <3>4
    <2> QED BY <2>2, <2>3, <2>4, <2>5
  <1>6. \A k \in DOMAIN n : k \in DOMAIN kids \/ \E j \in DOMAIN s : j # 1 /\ n[k] = s[j]
    BY <1>4
  <1> QED BY <1>2, <1>3, <1>5, <1>6 DEF ReplacedAt

\* Each entry of a listing is visited once, for the first time.
LEMMA VisitOnce ==
    ASSUME NEW S \in SUBSET Path, NEW f \in Listings(Visits(S))
    PROVE  /\ f \in Seq(Frame) /\ PathsOf(f) = S /\ Once(f)
           /\ \A i \in DOMAIN f : f[i].path \in S /\ ~f[i].post
  <1>1. /\ f \in Seq(Frame) /\ \A c \in S : \E i \in DOMAIN f : f[i].path = c
        /\ \A i \in DOMAIN f : f[i].path \in S
    BY VisitListing DEF Frame
  <1>2. IsFiniteSet(Visits(S))
    <2> DEFINE g == [p \in S |-> [path |-> p, post |-> FALSE]]
    <2>1. g \in Surjection(S, Visits(S))
      BY DEF Surjection, Visits
    <2>2. IsFiniteSet(S)
      BY PathAssumption, FS_Subset
    <2> QED BY <2>1, <2>2, FS_Surjection
  <1>3. /\ f \in Seq(Visits(S))
        /\ \A i, j \in DOMAIN f : f[i] = f[j] => i = j
    BY <1>2, ListingFacts
  <1>4. \A i \in DOMAIN f : f[i] \in Visits(S)
    BY <1>3, <1>1, ListingFacts, <1>2, ElementOfSeq
  <1>5. \A v \in Visits(S) : v = [path |-> v.path, post |-> FALSE]
    <2> SUFFICES ASSUME NEW v \in Visits(S) PROVE v = [path |-> v.path, post |-> FALSE]
      OBVIOUS
    <2>1. PICK p \in S : v = [path |-> p, post |-> FALSE]
      BY DEF Visits
    <2> QED BY <2>1
  <1>6. \A i \in DOMAIN f : f[i] = [path |-> f[i].path, post |-> FALSE]
    BY <1>4, <1>5
  <1>7. \A i \in DOMAIN f : ~f[i].post
    <2> SUFFICES ASSUME NEW i \in DOMAIN f PROVE f[i].post = FALSE
      OBVIOUS
    <2>1. f[i] = [path |-> f[i].path, post |-> FALSE]
      BY <1>6
    <2>2. [path |-> f[i].path, post |-> FALSE].post = FALSE
      OBVIOUS
    <2> QED BY <2>1, <2>2
  <1>8. Once(f)
    <2> SUFFICES ASSUME NEW i \in DOMAIN f, NEW j \in DOMAIN f, f[i].path = f[j].path PROVE f[i] = f[j]
      BY <1>3 DEF Once
    <2> QED BY <1>6
  <1>9. PathsOf(f) = S
    BY <1>1 DEF PathsOf
  <1> QED BY <1>1, <1>7, <1>8, <1>9

\* An entry appended to the plan.
Appended(n, s, e) == n = Append(s, e)
AppendedAt(n, s, e) ==
    /\ Len(s) \in Nat /\ Len(s) + 1 \in DOMAIN n /\ n[Len(s) + 1] = e
    /\ \A i \in DOMAIN s : i \in Nat /\ i < Len(s) + 1 /\ i \in DOMAIN n /\ n[i] = s[i]
    /\ \A k \in DOMAIN n : k \in DOMAIN s \/ k = Len(s) + 1
    /\ PathsOf(n) = PathsOf(s) \cup {e.path}
    /\ Once(s) /\ e.path \notin PathsOf(s) => Once(n)

LEMMA AppendAt ==
    ASSUME NEW S, NEW s \in Seq(S), NEW e \in S, NEW n, Appended(n, s, e)
    PROVE  AppendedAt(n, s, e)
  <1>1. /\ n \in Seq(S) /\ Len(n) = Len(s) + 1
        /\ \A i \in 1..Len(s) : n[i] = s[i]
        /\ n[Len(s) + 1] = e
    BY AppendProperties DEF Appended
  <1>2. Len(s) \in Nat /\ DOMAIN s = 1..Len(s) /\ DOMAIN n = 1..Len(n)
    BY <1>1, LenProperties
  <1>3. DOMAIN n = DOMAIN s \cup {Len(s) + 1} /\ Len(s) + 1 \notin DOMAIN s
    BY <1>1, <1>2
  <1>4. \A i \in DOMAIN s : i \in Nat /\ i < Len(s) + 1 /\ n[i] = s[i]
    BY <1>1, <1>2
  <1>5. PathsOf(n) = PathsOf(s) \cup {e.path}
    <2> DEFINE l == Len(s) + 1
    <2>1. DOMAIN n = DOMAIN s \cup {l} /\ n[l] = e /\ \A i \in DOMAIN s : n[i] = s[i]
      BY <1>1, <1>3, <1>4
    <2> HIDE DEF l
    <2> QED BY <2>1 DEF PathsOf
  <1>6. ASSUME Once(s), e.path \notin PathsOf(s) PROVE Once(n)
    <2> DEFINE l == Len(s) + 1
    <2>1. DOMAIN n = DOMAIN s \cup {l} /\ n[l] = e /\ \A i \in DOMAIN s : n[i] = s[i]
      BY <1>1, <1>3, <1>4
    <2>2. \A i \in DOMAIN s : s[i].path # e.path
      BY <1>6 DEF PathsOf
    <2> HIDE DEF l
    <2> QED BY <1>6, <2>1, <2>2 DEF Once
  <1> QED BY <1>1, <1>2, <1>3, <1>4, <1>5, <1>6 DEF AppendedAt

-----------------------------------------------------------------------------
(* The walks and what they leave, step by step.                            *)

\* In a state where the job goes on, nothing is said about its outcome.
LEMMA StillRunning ==
    ASSUME WInv, pc # "done", pc' # "done", outcome' = outcome
    PROVE  outcome' = "none" /\ CompletedIsComplete' /\ OnlyRealFailures'
  BY DEF WInv, Ordered, CompletedIsComplete, OnlyRealFailures

\* A step that ends the job and changes neither tree: what is left to check is
\* why it ended.
LEMMA EndKeepsOrdered ==
    ASSUME WInv, pc' = "done", UNCHANGED <<src, dst, missed>>, faulted => faulted',
           CompletedIsComplete', OnlyRealFailures'
    PROVE  Ordered'
  <1>1. WellFormed(src)' /\ TargetKnown'
    BY DEF WInv, Ordered, WellFormed, Exists, Dirs, TargetKnown, Copying
  <1>2. /\ PathsOnce' /\ ParentsFirst' /\ CopiedSoFar' /\ AllArrived' /\ DeletedSoFar'
        /\ HiddenLeft' /\ RenamedSoFar' /\ ChildrenFirst' /\ SourcesThere'
    BY DEF PathsOnce, ParentsFirst, CopiedSoFar, AllArrived, DeletedSoFar, HiddenLeft, RenamedSoFar,
           ChildrenFirst, SourcesThere, Copying, Deleting, Renaming
  <1>3. missed' # {} => faulted'
    BY DEF WInv, Ordered
  <1> QED BY <1>1, <1>2, <1>3 DEF Ordered

\* A job that is cancelled, or meets a failing call, has nothing to explain.
LEMMA GivingUpKeepsOrdered ==
    ASSUME WInv, pc' = "done", UNCHANGED <<src, dst, missed>>, faulted => faulted',
           outcome' = "cancelled" \/ (outcome' = "failed" /\ faulted')
    PROVE  Ordered'
  BY EndKeepsOrdered DEF CompletedIsComplete, OnlyRealFailures

\* The entry in hand while copying: it has not been copied before, its
\* directory is at the destination, and the job is no delete.
LEMMA ItemInHand ==
    ASSUME WInv, pc \in Copying, pc # "copyWalk", idx <= Len(plan)
    PROVE  /\ Item.path \in Path /\ idx \in DOMAIN plan /\ idx \in Nat
           /\ \A i \in DOMAIN plan : i < idx => plan[i].path # Item.path
           /\ Item.path \notin copied
           /\ Parent[Item.path] \in Dirs(dst)
           /\ kind # "delete"
  <1>1. Item.path \in Path /\ idx \in DOMAIN plan /\ idx \in Nat /\ \A i \in DOMAIN plan : i \in Nat
    BY ItemTyped, LenProperties DEF WInv, IInv, TypeOK
  <1>2. \A i \in DOMAIN plan : plan[i].path = Item.path => i = idx
    BY <1>1 DEF WInv, Ordered, PathsOnce, Once, Item
  <1>3. \A i \in DOMAIN plan : i < idx => plan[i].path # Item.path
    BY <1>1, <1>2
  <1>4. Item.path \notin copied
    BY <1>3 DEF WInv, Ordered, CopiedSoFar
  <1>5. Parent[Item.path] \in Dirs(dst)
    <2>1. CASE Parent[Item.path] = Root
      BY <2>1 DEF Dirs
    <2>2. CASE Parent[Item.path] # Root
      <3>1. PICK j \in DOMAIN plan : j < idx /\ plan[j].path = Parent[Item.path] /\ plan[j].kind = "dir"
        BY <1>1, <2>2 DEF WInv, Ordered, ParentsFirst, Item
      <3>2. dst[Parent[Item.path]].kind = "dir"
        BY <3>1 DEF WInv, Ordered, CopiedSoFar
      <3>3. Parent[Item.path] \in Path
        BY <1>1, <2>2, PathAssumption
      <3> QED BY <3>2, <3>3 DEF Dirs
    <2> QED BY <2>1, <2>2
  <1>6. kind # "delete"
    BY DEF WInv, IInv, Core, KindsMatch, Copying, Deleting
  <1> QED BY <1>1, <1>3, <1>4, <1>5, <1>6

\* A step within the copying phase that plans nothing.
LEMMA CopyingKeepsOrdered ==
    ASSUME WInv, pc \in Copying, pc' \in Copying, pc' # "copyWalk", pc = "copyWalk" => todo = <<>>,
           UNCHANGED <<src, kind, todo, plan, orig, touched, missed, outcome>>, faulted => faulted',
           CopiedSoFar', TargetKnown'
    PROVE  Ordered'
  <1>1. WellFormed(src)'
    BY DEF WInv, Ordered, WellFormed, Exists, Dirs
  <1>2. PathsOnce'
    <2>1. Once(plan)' = Once(plan) /\ Once(todo)' = Once(todo) /\ PlannedPaths' = PlannedPaths
          /\ TodoPaths' = TodoPaths /\ Expanded' = Expanded
      BY DEF Once, PlannedPaths, TodoPaths, Expanded, PostOf
    <2>2. pc' # "copyWalk" /\ pc' # "delWalk" /\ todo = <<>>
      BY DEF WInv, Ordered, PathsOnce, Copying
    <2> QED BY <2>1, <2>2 DEF WInv, Ordered, PathsOnce
  <1>5. ParentsFirst'
    BY DEF WInv, Ordered, ParentsFirst
  <1>3. AllArrived' /\ DeletedSoFar' /\ HiddenLeft' /\ RenamedSoFar' /\ ChildrenFirst' /\ SourcesThere'
    BY DEF AllArrived, DeletedSoFar, HiddenLeft, RenamedSoFar, ChildrenFirst, SourcesThere, Copying,
           Deleting, Renaming
  <1>4. outcome' = "none" /\ CompletedIsComplete' /\ OnlyRealFailures'
    BY StillRunning DEF Copying
  <1>6. missed' # {} => faulted'
    BY DEF WInv, Ordered
  <1> QED BY <1>1, <1>2, <1>3, <1>4, <1>5, <1>6 DEF Ordered

\* A step that only moves the job on within the copying phase.
LEMMA MovingOnKeepsOrdered ==
    ASSUME WInv, pc \in Copying, pc' \in Copying \ {"copyWalk", "pump"}, pc = "copyWalk" => todo = <<>>,
           pc # "pump",
           UNCHANGED <<src, dst, kind, todo, plan, idx, orig, touched, missed, copied, transport, outcome>>,
           faulted => faulted',
           pc' = "open" /\ transport = "download" => pc = "open"
    PROVE  Ordered'
  <1>1. CopiedSoFar'
    BY DEF WInv, Ordered, CopiedSoFar, Copying, Renaming
  <1>2. TargetKnown'
    BY DEF WInv, Ordered, TargetKnown, Copying, Item
  <1> QED BY <1>1, <1>2, CopyingKeepsOrdered

\* A step inside one file's transfer.
LEMMA TransferKeepsOrdered ==
    ASSUME WInv, pc \in Transferring, pc' \in Transferring, idx <= Len(plan),
           UNCHANGED <<src, kind, todo, plan, idx, orig, touched, missed, copied, transport, outcome>>,
           faulted => faulted',
           \A q \in Path : q # Item.path => dst'[q] = dst[q],
           TargetKnown'
    PROVE  Ordered'
  <1> USE DEF Transferring
  <1>1. CopiedSoFar'
    <2>1. ASSUME NEW i \in DOMAIN plan, i < idx, plan[i].kind = "dir" PROVE dst'[plan[i].path].kind = "dir"
      <3>1. plan[i].path # Item.path /\ plan[i].path \in Path
        <4>1. plan[i] \in [path : Path, kind : NodeKinds]
          BY LenProperties, ElementOfSeq DEF WInv, IInv, TypeOK
        <4> QED BY <2>1, <4>1, ItemInHand DEF Copying
      <3> QED BY <2>1, <3>1 DEF WInv, Ordered, CopiedSoFar, Copying
    <2> QED BY <2>1 DEF WInv, Ordered, CopiedSoFar, Copying, Renaming
  <1> QED BY <1>1, CopyingKeepsOrdered DEF Copying

\* A planned entry's step is over.
LEMMA ItemCopiedKeepsOrdered ==
    ASSUME WInv, IInv', ItemCopied, pc \in {"copyApply", "pump"}, idx <= Len(plan),
           UNCHANGED <<src, kind, todo, plan, orig, touched, missed, transport>>,
           faulted => faulted',
           \A q \in Path : q # Item.path => dst'[q] = dst[q],
           dst'[Item.path].kind = "dir" => dst'[Item.path] = Leaf("dir"),
           Item.kind = "dir" => dst'[Item.path].kind = "dir"
    PROVE  Ordered'
  <1>1. pc' = "copyCheck" /\ copied' = copied \cup {Item.path} /\ idx' = idx + 1 /\ outcome' = outcome
    BY DEF ItemCopied, Goto
  <1>2. /\ Item.path \in Path /\ idx \in DOMAIN plan /\ idx \in Nat
        /\ \A i \in DOMAIN plan : i < idx => plan[i].path # Item.path
    BY ItemInHand DEF Copying
  <1>3. \A i \in DOMAIN plan : i \in Nat /\ plan[i].path \in Path
    <2>1. \A i \in DOMAIN plan : i \in Nat
      BY LenProperties DEF WInv, IInv, TypeOK
    <2>2. plan \in Seq([path : Path, kind : NodeKinds])
      BY DEF WInv, IInv, TypeOK
    <2>3. ASSUME NEW i \in DOMAIN plan PROVE plan[i].path \in Path
      <3>1. plan[i] \in [path : Path, kind : NodeKinds]
        BY <2>2, ElementOfSeq, LenProperties
      <3> QED BY <3>1
    <2> QED BY <2>1, <2>3
  <1>4. \A i \in DOMAIN plan : i < idx + 1 <=> i < idx \/ i = idx
    BY <1>2, <1>3
  <1>5. CopiedSoFar'
    <2>1. \A q \in copied' : \E i \in DOMAIN plan : i < idx' /\ plan[i].path = q
      <3>1. \A q \in copied : \E i \in DOMAIN plan : i < idx /\ plan[i].path = q
        BY DEF WInv, Ordered, CopiedSoFar, Copying
      <3>2. idx \in DOMAIN plan /\ idx < idx + 1 /\ plan[idx].path = Item.path
        BY <1>2 DEF Item
      <3> QED BY <1>1, <1>4, <3>1, <3>2
    <2>2. \A i \in DOMAIN plan : i < idx' /\ plan[i].kind = "dir" => dst'[plan[i].path].kind = "dir"
      <3> SUFFICES ASSUME NEW i \in DOMAIN plan, i < idx + 1, plan[i].kind = "dir"
                   PROVE  dst'[plan[i].path].kind = "dir"
        BY <1>1
      <3>1. CASE i < idx
        BY <1>2, <1>3, <3>1 DEF WInv, Ordered, CopiedSoFar, Copying
      <3>2. CASE i = idx
        BY <3>2 DEF Item
      <3> QED BY <1>4, <3>1, <3>2
    <2>3. \A i \in DOMAIN plan : plan[i].kind # "none"
      BY DEF WInv, Ordered, CopiedSoFar, Copying
    <2> QED BY <1>1, <2>1, <2>2, <2>3 DEF CopiedSoFar, Copying, Renaming
  <1>6. TargetKnown'
    <2>1. \A q \in Path : dst'[q].kind = "dir" => dst'[q] = Leaf("dir")
      BY DEF WInv, Ordered, TargetKnown
    <2>2. \A q \in Path : dst'[q].data = "orig" => q \in copied'
      <3> SUFFICES ASSUME NEW q \in Path, dst'[q].data = "orig", q # Item.path PROVE q \in copied
        BY <1>1
      <3> QED BY DEF WInv, Ordered, TargetKnown, Copying
    <2> QED BY <1>1, <2>1, <2>2 DEF TargetKnown, Copying
  <1> QED BY <1>1, <1>5, <1>6, CopyingKeepsOrdered DEF Copying

\* A directory that is made, or was there already, is in its place.
LEMMA CopyDirKeepsOrdered ==
    ASSUME ~SameDir, WInv, IInv', CopyDir PROVE Ordered'
  <1> USE DEF trees, walk, xfer, progress, history, End
  <1>1. pc = "copyApply" /\ idx <= Len(plan) /\ Item.kind = "dir"
    BY DEF CopyDir, AtItem
  <1>2. Item.path \in Path /\ dst \in [Path -> Node]
    BY <1>1, ItemInHand DEF Copying, WInv, IInv, TypeOK
  <1>3. CASE CanMkdir(dst, Item.path)
    <2>1. /\ ItemCopied /\ UNCHANGED <<src, kind, todo, plan, transport, orig, touched, missed, faulted>>
          /\ \A q \in Path : q # Item.path => dst'[q] = dst[q]
      BY <1>2, <1>3 DEF CopyDir, PutDst
    <2>2. Leaf("dir").kind = "dir"
      BY NodeFacts DEF NodeKinds
    <2>3. dst'[Item.path].kind = "dir" /\ dst'[Item.path] = Leaf("dir")
      <3>1. CASE dst[Item.path].kind = "none"
        <4>1. dst' = [dst EXCEPT ![Item.path] = Leaf("dir")]
          BY <1>3, <3>1 DEF CopyDir, PutDst
        <4> QED BY <1>2, <2>2, <4>1
      <3>2. CASE dst[Item.path].kind # "none"
        <4>1. dst' = dst /\ dst[Item.path].kind = "dir"
          BY <1>3, <3>2 DEF CopyDir, CanMkdir
        <4> QED BY <1>2, <4>1 DEF WInv, Ordered, TargetKnown
      <3> QED BY <3>1, <3>2
    <2> QED BY <1>1, <2>1, <2>3, ItemCopiedKeepsOrdered
  <1>4. CASE ~CanMkdir(dst, Item.path)
    <2>1. /\ pc' = "done" /\ outcome' = "failed"
          /\ UNCHANGED <<src, dst, kind, plan, idx, copied, touched, missed, faulted>>
      BY <1>4 DEF CopyDir
    <2>2. Exists(dst, Item.path) /\ Item.path \notin copied /\ kind # "delete"
      BY <1>1, <1>4, ItemInHand DEF CanMkdir, Exists, Copying
    <2>3. OnlyRealFailures' /\ CompletedIsComplete'
      BY <1>1, <2>1, <2>2 DEF OnlyRealFailures, CompletedIsComplete, Item, Exists
    <2> QED BY <2>1, <2>3, EndKeepsOrdered
  <1> QED BY <1>3, <1>4

LEMMA CopyLinkKeepsOrdered ==
    ASSUME ~SameDir, WInv, IInv', CopyLink PROVE Ordered'
  <1> USE DEF trees, walk, xfer, progress, history
  <1>1. pc = "copyApply" /\ idx <= Len(plan) /\ Item.kind = "link" /\ ItemCopied
        /\ UNCHANGED <<src, kind, todo, plan, transport, orig, touched, missed>> /\ (faulted => faulted')
    BY DEF CopyLink, AtItem, PutDst
  <1>2. Item.path \in Path /\ dst \in [Path -> Node]
    BY <1>1, ItemInHand DEF Copying, WInv, IInv, TypeOK
  <1>3. dst' = dst \/ dst' = [dst EXCEPT ![Item.path] = Leaf("link")]
    BY DEF CopyLink, PutDst
  <1>4. Leaf("link").kind = "link"
    BY NodeFacts DEF NodeKinds
  <1>5. dst'[Item.path].kind = "dir" => dst'[Item.path] = Leaf("dir")
    BY <1>2, <1>3, <1>4 DEF WInv, Ordered, TargetKnown
  <1>6. \A q \in Path : q # Item.path => dst'[q] = dst[q]
    BY <1>2, <1>3
  <1> QED BY <1>1, <1>5, <1>6, ItemCopiedKeepsOrdered

LEMMA OpenSourceKeepsOrdered ==
    ASSUME WInv, IInv', OpenSource PROVE Ordered'
  <1> USE DEF trees, walk, xfer, progress, history, End, Goto
  <1>1. pc = "open" /\ idx <= Len(plan) /\ Item.kind = "file"
    BY DEF OpenSource, AtItem, WInv, IInv, Core, TransferExact
  <1>2. CASE src[Item.path].kind = "file"
    <2>1. /\ pc' = IF transport = "download" THEN "pump" ELSE "create"
          /\ UNCHANGED <<src, dst, kind, todo, plan, idx, orig, touched, missed, copied, transport, outcome, faulted>>
      BY <1>2 DEF OpenSource
    <2>2. TargetKnown'
      BY <1>1, <2>1 DEF WInv, Ordered, TargetKnown, Copying, Item
    <2> QED BY <1>1, <2>1, <2>2, TransferKeepsOrdered DEF Transferring
  <1>3. CASE src[Item.path].kind # "file"
    <2>1. pc' = "done" /\ outcome' = Error /\ UNCHANGED <<src, dst, touched, missed, faulted>>
      BY <1>3 DEF OpenSource
    <2>2. touched # {}
      <3>1. Item.path \in touched
        BY <1>1, <1>3, ItemKind DEF WInv, Copying
      <3> QED BY <3>1
    <2>3. OnlyRealFailures' /\ CompletedIsComplete'
      BY <2>1, <2>2 DEF OnlyRealFailures, CompletedIsComplete, Error
    <2> QED BY <2>1, <2>3, EndKeepsOrdered
  <1> QED BY <1>2, <1>3

LEMMA CreateDestKeepsOrdered ==
    ASSUME ~SameDir, WInv, IInv', CreateDest PROVE Ordered'
  <1> USE DEF trees, walk, xfer, progress, history, End, Goto
  <1>1. pc = "create" /\ idx <= Len(plan) /\ Item.kind = "file"
    BY DEF CreateDest, AtItem, WInv, IInv, Core, TransferExact
  <1>2. Item.path \in Path /\ dst \in [Path -> Node]
    BY <1>1, ItemInHand DEF Copying, WInv, IInv, TypeOK
  <1>3. CASE CanCreate(dst, Item.path)
    <2>1. /\ pc' \in {"open", "pump"} /\ (pc' = "open" => transport = "download")
          /\ dst' = [dst EXCEPT ![Item.path] = File("blank", 0)]
          /\ UNCHANGED <<src, kind, todo, plan, idx, orig, touched, missed, copied, transport, outcome, faulted>>
      BY <1>3 DEF CreateDest, PutDst
    <2>2. File("blank", 0).kind = "file" /\ File("blank", 0).data = "blank"
      BY DEF File
    <2>3. dst'[Item.path] = File("blank", 0) /\ \A q \in Path : q # Item.path => dst'[q] = dst[q]
      BY <1>2, <2>1
    <2>4. TargetKnown'
      <3>1. \A q \in Path : dst'[q].kind = "dir" => dst'[q] = Leaf("dir")
        BY <2>2, <2>3 DEF WInv, Ordered, TargetKnown
      <3>2. \A q \in Path : dst'[q].data = "orig" => q \in copied
        BY <1>1, <2>2, <2>3 DEF WInv, Ordered, TargetKnown, Copying
      <3> QED BY <2>1, <2>2, <2>3, <3>1, <3>2 DEF TargetKnown, Item
    <2> QED BY <1>1, <2>1, <2>3, <2>4, TransferKeepsOrdered DEF Transferring
  <1>4. CASE ~CanCreate(dst, Item.path)
    <2>1. /\ pc' = "done" /\ outcome' = Error
          /\ UNCHANGED <<src, dst, kind, plan, idx, copied, touched, missed, faulted>>
      BY <1>4 DEF CreateDest
    <2>2. Exists(dst, Item.path) /\ Item.path \notin copied /\ kind # "delete"
      BY <1>1, <1>4, ItemInHand DEF CanCreate, Exists, Copying
    <2>3. OnlyRealFailures' /\ CompletedIsComplete'
      BY <1>1, <2>1, <2>2 DEF OnlyRealFailures, CompletedIsComplete, Item, Exists, Error
    <2> QED BY <2>1, <2>3, EndKeepsOrdered
  <1> QED BY <1>3, <1>4

LEMMA ReadChunkKeepsOrdered ==
    ASSUME WInv, IInv', ReadChunk PROVE Ordered'
  <1> USE DEF trees, walk, xfer, progress, history
  <1>1. /\ pc = "pump" /\ pc' = "pump" /\ idx <= Len(plan)
        /\ UNCHANGED <<src, dst, kind, todo, plan, idx, orig, touched, missed, copied, transport, outcome, faulted>>
    BY DEF ReadChunk, AtItem
  <1>2. TargetKnown'
    BY <1>1 DEF WInv, Ordered, TargetKnown, Item, Copying
  <1> QED BY <1>1, <1>2, TransferKeepsOrdered DEF Transferring

LEMMA WriteChunkKeepsOrdered ==
    ASSUME ~SameDir, WInv, IInv', WriteChunk PROVE Ordered'
  <1> USE DEF trees, walk, xfer, progress, history
  <1>1. /\ pc = "pump" /\ pc' = "pump" /\ idx <= Len(plan)
        /\ dst' = [dst EXCEPT ![Item.path] = Grown(dst[Item.path], held.data)]
        /\ UNCHANGED <<src, kind, todo, plan, idx, orig, touched, missed, copied, transport, outcome, faulted>>
    BY DEF WriteChunk, AtItem, PutDst
  <1>2. Item.path \in Path /\ dst \in [Path -> Node]
    BY <1>1, ItemInHand DEF Copying, WInv, IInv, TypeOK
  <1>3. dst'[Item.path].kind = "file" /\ \A q \in Path : q # Item.path => dst'[q] = dst[q]
    BY <1>1, <1>2 DEF Grown, File
  <1>4. TargetKnown'
    <2>1. \A q \in Path : dst'[q].kind = "dir" => dst'[q] = Leaf("dir")
      BY <1>3 DEF WInv, Ordered, TargetKnown
    <2>2. \A q \in Path : dst'[q].data = "orig" => q \in copied \/ q = Item.path
      BY <1>1, <1>3 DEF WInv, Ordered, TargetKnown, Copying
    <2> QED BY <1>1, <1>3, <2>1, <2>2 DEF TargetKnown, Item
  <1> QED BY <1>1, <1>3, <1>4, TransferKeepsOrdered DEF Transferring

LEMMA TransferEndsOrdered ==
    ASSUME ~SameDir, WInv, IInv', TransferDone \/ TransferCut PROVE Ordered'
  <1> USE DEF trees, walk, xfer, progress, history
  <1>1. /\ pc = "pump" /\ idx <= Len(plan) /\ ItemCopied /\ Item.kind = "file"
        /\ UNCHANGED <<src, kind, todo, plan, transport, orig, touched, missed>> /\ (faulted => faulted')
        /\ dst' = dst \/ dst' = [dst EXCEPT ![Item.path] = [dst[Item.path] EXCEPT !.len = @ - 1]]
    BY DEF TransferDone, TransferCut, Transferred, PutDst, AtItem, WInv, IInv, Core, TransferExact
  <1>2. dst[Item.path].kind = "file" /\ Item.path \in Path /\ dst \in [Path -> Node]
    BY <1>1, ItemInHand DEF Copying, WInv, IInv, TypeOK, Ordered, TargetKnown
  <1>3. dst'[Item.path].kind = "file" /\ \A q \in Path : q # Item.path => dst'[q] = dst[q]
    BY <1>1, <1>2 DEF Node
  <1> QED BY <1>1, <1>3, ItemCopiedKeepsOrdered

\* The mode of a directory that has been made cannot be set: the job ends there.
LEMMA ChmodFailsKeepsOrdered ==
    ASSUME ~SameDir, WInv, ChmodFails PROVE Ordered'
  <1> USE DEF trees, walk, xfer, progress, history, End
  <1>1. /\ pc = "copyApply" /\ pc' = "done" /\ outcome' = "failed" /\ faulted' /\ idx <= Len(plan)
        /\ dst' = [dst EXCEPT ![Item.path] = Leaf("dir")] /\ src' = src
    BY DEF ChmodFails, AtItem, PutDst
  <1>2. Item.path \in Path /\ dst \in [Path -> Node]
    BY <1>1, ItemInHand DEF Copying, WInv, IInv, TypeOK
  <1>3. WellFormed(src)' /\ TargetKnown'
    BY <1>1, <1>2 DEF WInv, Ordered, WellFormed, Exists, Dirs, TargetKnown, Copying
  <1>4. /\ PathsOnce' /\ ParentsFirst' /\ CopiedSoFar' /\ AllArrived' /\ DeletedSoFar'
        /\ HiddenLeft' /\ RenamedSoFar' /\ ChildrenFirst' /\ SourcesThere'
    BY <1>1 DEF PathsOnce, ParentsFirst, CopiedSoFar, AllArrived, DeletedSoFar, HiddenLeft, RenamedSoFar,
           ChildrenFirst, SourcesThere, Copying, Deleting, Renaming
  <1>5. CompletedIsComplete' /\ OnlyRealFailures'
    BY <1>1 DEF CompletedIsComplete, OnlyRealFailures
  <1> QED BY <1>1, <1>3, <1>4, <1>5 DEF Ordered

\* The steps that move the copying on without touching a tree.
LEMMA CopyPlanStepsKeepOrdered ==
    ASSUME WInv, StartCopying \/ CopyNext \/ BeginTransfer \/ TransferCancelled PROVE Ordered'
  <1> USE DEF trees, walk, xfer, progress, history, End, Goto, AtItem
  <1>1. CASE StartCopying
    <2>1. /\ pc = "copyWalk" /\ todo = <<>> /\ pc' = "copyCheck"
          /\ UNCHANGED <<src, dst, kind, todo, plan, idx, orig, touched, missed, copied, outcome, faulted>>
      BY <1>1 DEF StartCopying
    <2>2. CopiedSoFar' /\ TargetKnown'
      BY <2>1 DEF WInv, Ordered, CopiedSoFar, TargetKnown, Copying, Renaming
    <2> QED BY <2>1, <2>2, CopyingKeepsOrdered DEF Copying
  <1>2. CASE CopyNext
    <2>1. CASE cancelled
      BY <1>2, <2>1, GivingUpKeepsOrdered DEF CopyNext
    <2>2. CASE ~cancelled
      BY <1>2, <2>2, MovingOnKeepsOrdered DEF CopyNext, Copying
    <2> QED BY <2>1, <2>2
  <1>3. CASE BeginTransfer
    <2>1. CASE transport # "stream" /\ cancelled
      BY <1>3, <2>1, GivingUpKeepsOrdered DEF BeginTransfer
    <2>2. CASE ~(transport # "stream" /\ cancelled)
      <3>1. /\ pc = "copyApply" /\ pc' = IF transport = "download" THEN "create" ELSE "open"
            /\ UNCHANGED <<src, dst, kind, todo, plan, idx, orig, touched, missed, copied, transport, outcome, faulted>>
        BY <1>3, <2>2 DEF BeginTransfer
      <3> QED BY <3>1, MovingOnKeepsOrdered DEF Copying
    <2> QED BY <2>1, <2>2
  <1>4. CASE TransferCancelled
    BY <1>4, GivingUpKeepsOrdered DEF TransferCancelled
  <1> QED BY <1>1, <1>2, <1>3, <1>4

\* The frame at the top of the walk, if it is visited for the first time: its
\* entry is not planned, and none of its children is planned or listed yet.
LEMMA FirstVisit ==
    ASSUME WInv, pc \in {"copyWalk", "delWalk"}, todo # <<>>, ~Head(todo).post
    PROVE  /\ Head(todo).path \in TodoPaths /\ Head(todo).path \notin PlannedPaths
           /\ Children(src, Head(todo).path) \cap (PlannedPaths \cup TodoPaths) = {}
  <1> DEFINE p == Head(todo).path
  <1>1. /\ p \in Path /\ Head(todo) = todo[1] /\ 1 \in DOMAIN todo
    BY HeadTyped DEF WInv, IInv
  <1>2. p \in TodoPaths /\ p \notin PlannedPaths /\ p # Root
    <2>1. p \in TodoPaths
      BY <1>1 DEF TodoPaths
    <2> QED BY <1>1, <2>1, PathAssumption DEF WInv, Ordered, PathsOnce, Copying, Deleting
  <1>3. p \notin Expanded
    <2>1. p \notin PostOf(todo)
      <3> SUFFICES ASSUME NEW j \in DOMAIN todo, todo[j].post, todo[j].path = p PROVE FALSE
        BY DEF PostOf
      <3>1. j = 1
        BY <1>1 DEF WInv, Ordered, PathsOnce, Once, Copying, Deleting
      <3> QED BY <1>1, <3>1
    <2> QED BY <1>2, <2>1 DEF Expanded
  <1>4. ASSUME NEW c \in Children(src, p) PROVE c \notin PlannedPaths \cup TodoPaths
    <2>1. Parent[c] = p
      BY DEF Children
    <2> QED BY <1>2, <1>3, <2>1 DEF WInv, Ordered, PathsOnce, Copying, Deleting
  <1> QED BY <1>2, <1>4

LEMMA WalkForCopyKeepsOrdered ==
    ASSUME WInv, IInv', WalkForCopy PROVE Ordered'
  <1> USE DEF trees, walk, xfer, progress, history, End, Goto
  <1> DEFINE p == Head(todo).path
  <1>1. /\ pc = "copyWalk" /\ todo # <<>>
        /\ p \in Path /\ Head(todo) = todo[1] /\ 1 \in DOMAIN todo /\ p \in TodoPaths
    <2>1. pc = "copyWalk" /\ todo # <<>>
      BY DEF WalkForCopy
    <2> QED BY <2>1, HeadTyped DEF WInv, IInv, TodoPaths
  <1>2. CASE ~Exists(src, p)
    <2>1. pc' = "done" /\ outcome' = "failed" /\ UNCHANGED <<src, dst, touched, missed, faulted>>
      BY <1>2 DEF WalkForCopy
    <2>2. touched # {}
      BY <1>1, <1>2 DEF WInv, Ordered, SourcesThere
    <2>3. OnlyRealFailures' /\ CompletedIsComplete'
      BY <2>1, <2>2 DEF OnlyRealFailures, CompletedIsComplete
    <2> QED BY <2>1, <2>3, EndKeepsOrdered
  <1>3. CASE Exists(src, p)
    <2>1. /\ pc' = "copyWalk" /\ plan' = Append(plan, Planned(p, src[p].kind))
          /\ UNCHANGED <<src, dst, kind, idx, orig, touched, copied, transport, outcome>>
      BY <1>3 DEF WalkForCopy
    <2>21. PICK Kids \in SUBSET Path :
               /\ Kids \subseteq Children(src, p)
               /\ src[p].kind = "dir" => \E kids \in Listings(Visits(Kids)) : todo' = kids \o Tail(todo)
               /\ src[p].kind # "dir" => Kids = {} /\ todo' = Tail(todo)
               /\ Kids # {} => src[p].kind = "dir"
      <3>1. CASE src[p].kind = "dir"
        <4>1. PICK shown \in Shown(src, SrcWhere, p) :
                  \E kids \in Listings(Visits(shown)) : todo' = kids \o Tail(todo)
          BY <1>3, <3>1 DEF WalkForCopy
        <4>2. shown \in SUBSET Path /\ shown \subseteq Children(src, p)
          BY ShownFacts
        <4> QED BY <3>1, <4>1, <4>2
      <3>2. CASE src[p].kind # "dir"
        <4>1. todo' = Tail(todo)
          BY <1>3, <3>2 DEF WalkForCopy
        <4> QED BY <3>2, <4>1
      <3> QED BY <3>1, <3>2
    <2>22. missed' # {} => faulted'
      <3>1. missed # {} => faulted
        BY DEF WInv, Ordered
      <3>2. CASE src[p].kind = "dir"
        <4>1. PICK shown \in Shown(src, SrcWhere, p) :
                  /\ missed' = missed \cup (Named(src, p) \ shown)
                  /\ faulted' = (faulted \/ shown # Named(src, p))
          BY <1>3, <3>2 DEF WalkForCopy
        <4>2. CASE shown = Named(src, p)
          <5>1. missed' = missed /\ faulted' = faulted
            BY <4>1, <4>2, <3>1 DEF WInv, IInv, TypeOK
          <5> QED BY <3>1, <5>1
        <4>3. CASE shown # Named(src, p)
          BY <4>1, <4>3
        <4> QED BY <4>2, <4>3
      <3>3. CASE src[p].kind # "dir"
        BY <1>3, <3>1, <3>3 DEF WalkForCopy
      <3> QED BY <3>2, <3>3
    <2>2. ~todo[1].post
      BY <1>1 DEF WInv, Ordered, PathsOnce, Copying
    <2>3. p \notin PlannedPaths /\ Kids \cap (PlannedPaths \cup TodoPaths) = {}
      BY <1>1, <2>2, <2>21, FirstVisit
    <2>4. PICK kids \in Seq(Frame) : /\ todo' = kids \o Tail(todo)
                                     /\ PathsOf(kids) = Kids /\ Once(kids)
                                     /\ \A i \in DOMAIN kids : kids[i].path \in Kids /\ ~kids[i].post
      <3>1. CASE src[p].kind = "dir"
        <4>1. PICK kids \in Listings(Visits(Kids)) : todo' = kids \o Tail(todo)
          BY <2>21, <3>1
        <4> QED BY <4>1, VisitOnce
      <3>2. CASE src[p].kind # "dir"
        <4>1. Kids = {} /\ todo' = Tail(todo) /\ Tail(todo) \in Seq(Frame)
          BY <1>1, <2>21, <3>2, HeadTailProperties DEF WInv, IInv, TypeOK, Frame
        <4>2. <<>> \in Seq(Frame) /\ <<>> \o Tail(todo) = Tail(todo)
          BY <4>1, ConcatEmptySeq
        <4>3. PathsOf(<<>>) = {} /\ Once(<<>>) /\ DOMAIN <<>> = {}
          BY DEF PathsOf, Once
        <4> QED BY <4>1, <4>2, <4>3
      <3> QED BY <3>1, <3>2
    <2>5. Once(todo) /\ Once(plan) /\ todo \in Seq(Frame)
      BY <1>1 DEF WInv, Ordered, PathsOnce, Copying, IInv, TypeOK, Frame
    <2>6. /\ \A k \in DOMAIN kids : k \in DOMAIN todo' /\ todo'[k] = kids[k]
          /\ \A k \in DOMAIN todo' : k \in DOMAIN kids \/ \E j \in DOMAIN todo : j # 1 /\ todo'[k] = todo[j]
          /\ Once(kids) /\ Once(todo) /\ PathsOf(kids) \cap PathsOf(todo) = {} => Once(todo')
      <3>1. Replaced(todo', kids, todo)
        BY <2>4 DEF Replaced
      <3>2. ReplacedAt(todo', kids, todo)
        BY <1>1, <2>5, <3>1, ReplaceAt
      <3> QED BY <3>2 DEF ReplacedAt
    <2>7. \A k \in DOMAIN todo' : \/ todo'[k].path \in Kids /\ ~todo'[k].post
                                  \/ \E j \in DOMAIN todo : j # 1 /\ todo'[k] = todo[j]
      BY <2>4, <2>6
    <2>8. Once(todo')
      BY <2>3, <2>4, <2>5, <2>6 DEF PathsOf, TodoPaths
    <2>9. \A q \in TodoPaths' : q \in Kids \/ (q \in TodoPaths /\ q # p)
      <3>1. \A j \in DOMAIN todo : j # 1 => todo[j].path # p /\ todo[j].path \in TodoPaths
        BY <1>1, <2>5 DEF Once, TodoPaths
      <3> QED BY <2>7, <3>1 DEF TodoPaths
    <2>10. Planned(p, src[p].kind) \in [path : Path, kind : NodeKinds] /\ plan \in Seq([path : Path, kind : NodeKinds])
      BY <1>1 DEF Planned, WInv, IInv, TypeOK, Node
    <2>20. AppendedAt(plan', plan, Planned(p, src[p].kind))
      <3>1. Appended(plan', plan, Planned(p, src[p].kind))
        BY <2>1 DEF Appended
      <3> QED BY <2>10, <3>1, AppendAt
    <2>11. /\ PlannedPaths' = PlannedPaths \cup {p} /\ Once(plan')
      <3>1. /\ PathsOf(plan') = PathsOf(plan) \cup {Planned(p, src[p].kind).path}
            /\ Once(plan) /\ Planned(p, src[p].kind).path \notin PathsOf(plan) => Once(plan')
        BY <2>20 DEF AppendedAt
      <3>2. Planned(p, src[p].kind).path = p
        BY DEF Planned
      <3> QED BY <2>3, <2>5, <3>1, <3>2 DEF PathsOf, PlannedPaths
    <2>12. /\ Len(plan) \in Nat /\ Len(plan) + 1 \in DOMAIN plan'
           /\ plan'[Len(plan) + 1] = Planned(p, src[p].kind)
           /\ \A i \in DOMAIN plan : i \in Nat /\ i < Len(plan) + 1 /\ i \in DOMAIN plan' /\ plan'[i] = plan[i]
           /\ \A k \in DOMAIN plan' : k \in DOMAIN plan \/ k = Len(plan) + 1
      BY <2>20 DEF AppendedAt
    <2>13. PathsOnce'
      <3>1. PlannedPaths' \cap TodoPaths' = {}
        <4>1. PlannedPaths \cap TodoPaths = {}
          BY <1>1 DEF WInv, Ordered, PathsOnce, Copying
        <4> QED BY <1>1, <2>3, <2>9, <2>11, <4>1
      <3>2. \A j \in DOMAIN todo' : ~todo'[j].post
        BY <1>1, <2>7 DEF WInv, Ordered, PathsOnce, Copying
      <3>3. \A c \in PlannedPaths' \cup TodoPaths' : Parent[c] = Root \/ Parent[c] \in Expanded'
        <4> SUFFICES ASSUME NEW c \in PlannedPaths' \cup TodoPaths', Parent[c] # Root
                     PROVE  Parent[c] \in PlannedPaths'
          BY DEF Expanded
        <4>1. CASE c \in Kids
          BY <2>11, <2>21, <4>1 DEF Children
        <4>2. CASE c \notin Kids
          <5>1. c \in PlannedPaths \cup TodoPaths
            BY <1>1, <2>9, <2>11, <4>2
          <5>2. PostOf(todo) = {}
            BY <1>1 DEF WInv, Ordered, PathsOnce, Copying, PostOf
          <5> QED BY <1>1, <2>11, <5>1, <5>2 DEF WInv, Ordered, PathsOnce, Copying, Expanded
        <4> QED BY <4>1, <4>2
      <3> QED BY <2>1, <2>8, <2>11, <3>1, <3>2, <3>3 DEF PathsOnce
    <2>14. ParentsFirst'
      <3> DEFINE l == Len(plan) + 1
      <3>1. /\ l \in DOMAIN plan' /\ plan'[l].path = p /\ plan'[l].kind = src[p].kind
            /\ \A i \in DOMAIN plan : i < l /\ i \in DOMAIN plan' /\ plan'[i] = plan[i]
            /\ \A k \in DOMAIN plan' : k \in DOMAIN plan \/ k = l
        BY <2>12 DEF Planned
      <3> HIDE DEF l
      <3>2. /\ \A i \in DOMAIN plan : Parent[plan[i].path] # Root =>
                   \E j \in DOMAIN plan : j < i /\ plan[j].path = Parent[plan[i].path] /\ plan[j].kind = "dir"
            /\ \A i \in DOMAIN todo : Parent[todo[i].path] # Root =>
                   \E j \in DOMAIN plan : plan[j].path = Parent[todo[i].path] /\ plan[j].kind = "dir"
        BY <1>1 DEF WInv, Ordered, ParentsFirst, Copying
      <3>3. ASSUME NEW i \in DOMAIN plan', Parent[plan'[i].path] # Root
            PROVE  \E j \in DOMAIN plan' : j < i /\ plan'[j].path = Parent[plan'[i].path] /\ plan'[j].kind = "dir"
        <4>1. CASE i \in DOMAIN plan
          <5>1. PICK j \in DOMAIN plan : j < i /\ plan[j].path = Parent[plan[i].path] /\ plan[j].kind = "dir"
            BY <3>1, <3>2, <3>3, <4>1
          <5> QED BY <3>1, <4>1, <5>1
        <4>2. CASE i = l
          <5>1. PICK j \in DOMAIN plan : plan[j].path = Parent[p] /\ plan[j].kind = "dir"
            BY <1>1, <3>1, <3>2, <3>3, <4>2
          <5> QED BY <3>1, <4>2, <5>1
        <4> QED BY <3>1, <4>1, <4>2
      <3>4. ASSUME NEW i \in DOMAIN todo', Parent[todo'[i].path] # Root
            PROVE  \E j \in DOMAIN plan' : plan'[j].path = Parent[todo'[i].path] /\ plan'[j].kind = "dir"
        <4>1. CASE todo'[i].path \in Kids
          BY <2>21, <3>1, <4>1 DEF Children
        <4>2. CASE \E j \in DOMAIN todo : j # 1 /\ todo'[i] = todo[j]
          <5>1. PICK j \in DOMAIN plan : plan[j].path = Parent[todo'[i].path] /\ plan[j].kind = "dir"
            BY <3>2, <3>4, <4>2
          <5> QED BY <3>1, <5>1
        <4> QED BY <2>7, <4>1, <4>2
      <3> QED BY <3>3, <3>4 DEF ParentsFirst
    <2>15. CopiedSoFar' /\ TargetKnown'
      <3>1. idx = 1
        BY <1>1 DEF WInv, IInv, Core, CopiedIsWhole
      <3>2. \A i \in DOMAIN plan : ~(i < idx)
        BY <3>1, LenProperties DEF WInv, IInv, TypeOK
      <3>3. \A i \in DOMAIN plan' : ~(i < idx')
        BY <2>1, <3>1, LenProperties DEF IInv, TypeOK
      <3>4. copied = {}
        BY <1>1, <3>2 DEF WInv, Ordered, CopiedSoFar, Copying
      <3>5. \A i \in DOMAIN plan' : plan'[i].kind # "none"
        <4>1. Planned(p, src[p].kind).kind # "none"
          BY <1>3 DEF Exists, Planned
        <4> QED BY <1>1, <2>12, <4>1 DEF WInv, Ordered, CopiedSoFar, Copying
      <3>6. TargetKnown'
        BY <1>1, <2>1 DEF WInv, Ordered, TargetKnown, Copying
      <3> QED BY <1>1, <2>1, <3>3, <3>4, <3>5, <3>6 DEF CopiedSoFar, Copying, Renaming
    <2>16. SourcesThere'
      <3> SUFFICES ASSUME touched = {}, NEW k \in DOMAIN todo' PROVE Exists(src, todo'[k].path)
        BY <2>1 DEF SourcesThere, Exists, Renaming
      <3>1. \A c \in Kids : Exists(src, c)
        BY <2>21 DEF Children
      <3> QED BY <1>1, <2>7, <3>1 DEF WInv, Ordered, SourcesThere
    <2>17. WellFormed(src)' /\ outcome' = "none" /\ CompletedIsComplete' /\ OnlyRealFailures'
      BY <1>1, <2>1, StillRunning DEF WInv, Ordered, WellFormed, Exists, Dirs
    <2>18. AllArrived' /\ DeletedSoFar' /\ HiddenLeft' /\ RenamedSoFar' /\ ChildrenFirst'
      BY <2>1 DEF AllArrived, DeletedSoFar, HiddenLeft, RenamedSoFar, ChildrenFirst, Deleting, Renaming
    <2> QED BY <2>13, <2>14, <2>15, <2>16, <2>17, <2>18, <2>22 DEF Ordered
  <1> QED BY <1>2, <1>3

\* What holds of the selected entries, and of a child of every entry it holds
\* of, holds of everything selected.
LEMMA SelectedInduction ==
    ASSUME NEW S \in SUBSET Path, Items \subseteq S,
           \A p \in Path : Selected(p) /\ Parent[p] # Root /\ Parent[p] \in S => p \in S
    PROVE  \A p \in Path : Selected(p) => p \in S
  <1> DEFINE T == {p \in Path : Selected(p) => p \in S}
  <1>1. ASSUME NEW p \in Path, Parent[p] = Root \/ Parent[p] \in T, Selected(p) PROVE p \in S
    <2>1. CASE Parent[p] = Root
      <3>1. ItemOf[p] = p
        BY <2>1, ItemOfAssumption
      <3> QED BY <1>1, <3>1 DEF Selected
    <2>2. CASE Parent[p] # Root
      <3>1. ItemOf[p] = ItemOf[Parent[p]]
        BY <2>2, ItemOfAssumption
      <3>2. Selected(Parent[p]) /\ Parent[p] \in T
        BY <1>1, <2>2, <3>1 DEF Selected
      <3> QED BY <1>1, <2>2, <3>2
    <2> QED BY <2>1, <2>2
  <1>2. \A p \in Path : Parent[p] = Root \/ Parent[p] \in T => p \in T
    BY <1>1
  <1>3. T = Path
    BY <1>2, TreeAssumption
  <1> QED BY <1>3

\* When the plan is used up, every selected original that was shown is at the
\* destination.
LEMMA AllCopied ==
    ASSUME WInv, pc = "copyCheck", idx > Len(plan),
           NEW p \in Path, Original(p), Selected(p)
    PROVE  dst[p] = orig[p] \/ orig[p].kind = "link" \/ Unseen(p) \/ Unlisted(p) \/ p \in cut
  <1>1. \A i \in DOMAIN plan : i < idx /\ i \in Nat
    BY LenProperties DEF WInv, IInv, TypeOK
  <1>2. PlannedPaths \subseteq copied /\ copied \subseteq PlannedPaths
    BY <1>1 DEF WInv, IInv, Core, CopiedIsWhole, Copying, PlannedPaths
  <1>3. /\ Items \subseteq copied
        /\ \A c \in Path : Original(c) /\ Parent[c] \in copied => c \in copied \cup missed \cup NotUtf8
    <2>1. TodoPaths = {}
      BY DEF WInv, IInv, Core, Closed, Copying, TodoPaths
    <2> QED BY <1>2, <2>1 DEF WInv, IInv, Core, Closed, Copying
  <1>4. \A c \in Path : Original(c) /\ Parent[c] # Root => Original(Parent[c])
    <2> SUFFICES ASSUME NEW c \in Path, Original(c), Parent[c] # Root PROVE Original(Parent[c])
      OBVIOUS
    <2>1. Parent[c] \in Path /\ orig[Parent[c]].kind = "dir"
      BY PathAssumption DEF WInv, IInv, Core, OrigIsTree, Exists, Original, Dirs
    <2>2. Parent[c] \notin touched
      BY <2>1 DEF WInv, IInv, Core, SourceKnown, Copying
    <2> QED BY <2>1, <2>2 DEF Original
  <1>5. p \in copied \/ Unseen(p) \/ Unlisted(p)
    <2> DEFINE S == {q \in Path : Original(q) => q \in copied \/ Unseen(q) \/ Unlisted(q)}
    <2>1. \A q \in Path : Selected(q) /\ Parent[q] # Root /\ Parent[q] \in S => q \in S
      <3> SUFFICES ASSUME NEW q \in Path, Parent[q] # Root, Parent[q] \in S, Original(q)
                   PROVE  q \in copied \/ Unseen(q) \/ Unlisted(q)
        OBVIOUS
      <3>1. Parent[q] \in copied \/ Unseen(Parent[q]) \/ Unlisted(Parent[q])
        BY <1>4
      <3>2. CASE Parent[q] \in copied
        BY <1>3, <3>2, UnseenFacts, UnlistedFacts DEF WInv, IInv
      <3>3. CASE Unseen(Parent[q])
        BY <3>3, UnseenFacts DEF WInv, IInv
      <3>4. CASE Unlisted(Parent[q])
        BY <3>4, UnlistedFacts
      <3> QED BY <3>1, <3>2, <3>3, <3>4
    <2>2. Items \subseteq S /\ S \in SUBSET Path
      BY <1>3, PathAssumption
    <2>3. p \in S
      <3> HIDE DEF S
      <3> QED BY <2>1, <2>2, SelectedInduction
    <2> QED BY <2>3
  <1>6. orig[p] \in {Absent, Leaf("dir"), Leaf("link"), File("orig", Chunks)}
    BY DEF WInv, IInv, Core, OrigIsTree
  <1>7. CASE p \in copied /\ orig[p].kind = "file"
    BY <1>7 DEF WInv, IInv, Core, CopiedIsWhole, Copying
  <1>8. CASE p \in copied /\ orig[p].kind = "dir"
    <2>1. PICK i \in DOMAIN plan : i < idx /\ plan[i].path = p
      BY <1>8 DEF WInv, Ordered, CopiedSoFar, Copying
    <2>2. plan[i].kind = "dir"
      BY <1>8, <2>1 DEF WInv, IInv, Core, Closed, Copying, Original
    <2>3. dst[p].kind = "dir"
      BY <2>1, <2>2 DEF WInv, Ordered, CopiedSoFar, Copying
    <2>4. dst[p] = Leaf("dir")
      BY <2>3 DEF WInv, Ordered, TargetKnown
    <2>5. orig[p] = Leaf("dir")
      BY <1>6, <1>8, NodeFacts DEF NodeKinds, Contents
    <2> QED BY <2>4, <2>5
  <1>9. orig[p].kind \in {"file", "dir", "link"}
    BY <1>6, NodeFacts DEF NodeKinds, Contents, Original
  <1> QED BY <1>5, <1>7, <1>8, <1>9

\* When the plan is used up, no selected original is left at the source.
LEMMA AllGone ==
    ASSUME WInv, pc = "delCheck", idx > Len(plan), NEW p \in Path, Original(p), Selected(p)
    PROVE  ~Exists(src, p)
  <1>1. \A i \in DOMAIN plan : i < idx
    BY LenProperties DEF WInv, IInv, TypeOK
  <1> DEFINE S == {q \in Path : q \notin touched => ~Exists(src, q)}
  <1>2. Items \subseteq S
    <2> SUFFICES ASSUME NEW q \in Items, q \notin touched PROVE ~Exists(src, q)
      BY PathAssumption
    <2>1. TodoPaths = {}
      BY DEF WInv, Ordered, PathsOnce, Deleting, TodoPaths
    <2>2. PICK i \in DOMAIN plan : plan[i].path = q
      BY <2>1 DEF WInv, Ordered, DeletedSoFar, Deleting, PlannedPaths
    <2> QED BY <1>1, <2>2 DEF WInv, Ordered, DeletedSoFar, Deleting
  <1>3. \A q \in Path : Selected(q) /\ Parent[q] # Root /\ Parent[q] \in S => q \in S
    <2> SUFFICES ASSUME NEW q \in Path, Parent[q] # Root, Parent[q] \in S, Exists(src, q) PROVE FALSE
      OBVIOUS
    <2>1. src[Parent[q]].kind = "dir"
      BY DEF WInv, Ordered, WellFormed, Dirs
    <2>2. Parent[q] \notin touched
      BY <2>1 DEF WInv, IInv, Core, SourceKnown
    <2> QED BY <2>1, <2>2 DEF Exists
  <1>4. p \in S
    <2> HIDE DEF S
    <2>1. S \in SUBSET Path
      BY DEF S
    <2> QED BY <1>2, <1>3, <2>1, SelectedInduction
  <1> QED BY <1>4 DEF Original

LEMMA CopyFinishedKeepsOrdered ==
    ASSUME WInv, IInv', CopyFinished PROVE Ordered'
  <1> USE DEF trees, walk, xfer, progress, history, End, Goto
  <1>1. /\ pc = "copyCheck" /\ idx > Len(plan)
        /\ UNCHANGED <<src, dst, kind, orig, touched, missed, copied, cut, faulted>>
    BY DEF CopyFinished
  <1>2. CASE kind = "copy"
    <2>1. pc' = "done" /\ outcome' = "completed"
      BY <1>2 DEF CopyFinished
    <2>2. CompletedIsComplete' /\ OnlyRealFailures'
      <3>1. \A p \in Path : Original(p) /\ Selected(p) =>
                dst[p] = orig[p] \/ orig[p].kind = "link" \/ Unseen(p) \/ Unlisted(p) \/ p \in cut
        BY <1>1, AllCopied
      <3>2. \A p : Unseen(p)' <=> Unseen(p)
        BY <1>1 DEF Unseen
      <3>3. CompletedIsComplete'
        BY <1>1, <1>2, <2>1, <3>1, <3>2 DEF CompletedIsComplete, Original, Selected, Unseen, Unlisted
      <3> QED BY <2>1, <3>3 DEF OnlyRealFailures
    <2> QED BY <1>1, <2>1, <2>2, EndKeepsOrdered
  <1>3. CASE kind # "copy"
    <2>1. /\ pc' = "delWalk" /\ plan' = <<>> /\ idx' = 1 /\ outcome' = outcome
      BY <1>3 DEF CopyFinished
    <2>2. PICK items \in Listings(Visits(Items)) : todo' = items
      BY <1>3 DEF CopyFinished
    <2>3. /\ PathsOf(todo') = Items /\ Once(todo')
          /\ \A i \in DOMAIN todo' : todo'[i].path \in Items /\ ~todo'[i].post
      BY <2>2, VisitOnce, PathAssumption
    <2>4. PlannedPaths' = {} /\ TodoPaths' = Items /\ DOMAIN plan' = {} /\ Once(plan')
      BY <2>1, <2>3 DEF PlannedPaths, TodoPaths, PathsOf, Once
    <2>5. PathsOnce'
      <3>1. \A c \in Items : Parent[c] = Root
        BY PathAssumption
      <3> QED BY <2>1, <2>3, <2>4, <3>1 DEF PathsOnce
    <2>6. AllArrived'
      <3>1. \A p \in Path : Original(p) /\ Selected(p) =>
                dst[p] = orig[p] \/ orig[p].kind = "link" \/ Unseen(p) \/ Unlisted(p) \/ p \in cut
        BY <1>1, AllCopied
      <3> QED BY <1>1, <3>1 DEF AllArrived, Original, Selected, Unseen, Unlisted
    <2>7. DeletedSoFar' /\ ParentsFirst' /\ RenamedSoFar'
      BY <2>1, <2>4 DEF DeletedSoFar, ParentsFirst, RenamedSoFar, Copying, Renaming
    <2>8. ChildrenFirst'
      <3> SUFFICES ASSUME touched = {}, NEW q \in Items PROVE Exists(src, q)
        BY <1>1, <2>1, <2>3, <2>4 DEF ChildrenFirst, Exists
      <3>1. \A q2 \in Path : src[q2] = orig[q2]
        BY <1>1 DEF WInv, IInv, Core, SourceKnown, Copying
      <3>2. q \in PlannedPaths /\ q \in Path
        BY <1>1, PathAssumption DEF WInv, IInv, Core, Closed, Copying, TodoPaths
      <3>3. PICK i \in DOMAIN plan : plan[i].path = q
        BY <3>2 DEF PlannedPaths
      <3>4. plan[i].kind = orig[q].kind
        BY <1>1, <3>3 DEF WInv, IInv, Core, Closed, Copying
      <3>5. plan[i].kind # "none"
        BY <1>1 DEF WInv, Ordered, CopiedSoFar, Copying
      <3> QED BY <3>1, <3>2, <3>4, <3>5 DEF Exists
    <2>9. CopiedSoFar' /\ TargetKnown' /\ SourcesThere' /\ WellFormed(src)'
      BY <1>1, <2>1 DEF WInv, Ordered, CopiedSoFar, TargetKnown, SourcesThere, WellFormed, Exists, Dirs,
                        Copying, Renaming
    <2>10. outcome' = "none" /\ CompletedIsComplete' /\ OnlyRealFailures'
      BY <1>1, <2>1, StillRunning
    <2>11. HiddenLeft'
      <3>1. \A p \in Path : p \notin touched => src[p] = orig[p]
        BY <1>1 DEF WInv, IInv, Core, SourceKnown, Copying
      <3>2. \A p \in Items : ~Unlisted(p)
        BY UnlistedFacts
      <3> QED BY <1>1, <2>4, <3>1, <3>2 DEF HiddenLeft, Original, Unlisted
    <2>12. missed' # {} => faulted'
      BY <1>1 DEF WInv, Ordered
    <2> QED BY <2>5, <2>6, <2>7, <2>8, <2>9, <2>10, <2>11, <2>12 DEF Ordered
  <1> QED BY <1>2, <1>3

\* A step of the deleting phase that leaves the trees as they are.
LEMMA DeletingKeepsOrdered ==
    ASSUME WInv, pc \in Deleting, pc' \in Deleting,
           UNCHANGED <<src, dst, kind, orig, touched, missed, copied, cut, outcome>>, faulted => faulted',
           PathsOnce', DeletedSoFar', HiddenLeft', ChildrenFirst'
    PROVE  Ordered'
  <1>1. WellFormed(src)'
    BY DEF WInv, Ordered, WellFormed, Exists, Dirs
  <1>2. ParentsFirst' /\ CopiedSoFar' /\ RenamedSoFar' /\ SourcesThere'
    BY DEF ParentsFirst, CopiedSoFar, RenamedSoFar, SourcesThere, Copying, Deleting, Renaming
  <1>3. TargetKnown' /\ AllArrived'
    BY DEF WInv, Ordered, TargetKnown, AllArrived, Original, Selected, Unseen, Unlisted, Copying, Deleting
  <1>4. outcome' = "none" /\ CompletedIsComplete' /\ OnlyRealFailures'
    BY StillRunning DEF Deleting
  <1>5. missed' # {} => faulted'
    BY DEF WInv, Ordered
  <1> QED BY <1>1, <1>2, <1>3, <1>4, <1>5 DEF Ordered

\* The frames behind the first one, seen from the whole stack and from the rest.
TailedAt(t, s) ==
    /\ \A i \in DOMAIN s : i \in Nat /\ i >= 1
    /\ \A i \in DOMAIN s : i # 1 => i - 1 \in DOMAIN t /\ t[i - 1] = s[i]
    /\ \A i \in DOMAIN t : i \in Nat /\ i + 1 \in DOMAIN s /\ t[i] = s[i + 1] /\ i + 1 # 1

LEMMA TailOnce ==
    ASSUME NEW S, NEW s \in Seq(S), s # <<>>, NEW t, t = Tail(s)
    PROVE  /\ TailedAt(t, s)
           /\ Once(s) => Once(t) /\ PathsOf(t) = PathsOf(s) \ {s[1].path}
           /\ PostOf(s) \subseteq PostOf(t) \cup {s[1].path} /\ PostOf(t) \subseteq PostOf(s)
  <1>1. /\ \A i \in DOMAIN s : i \in Nat /\ i >= 1
        /\ \A i \in DOMAIN s : i # 1 => i - 1 \in DOMAIN t /\ t[i - 1] = s[i]
        /\ \A i \in DOMAIN t : i \in Nat /\ i + 1 \in DOMAIN s /\ t[i] = s[i + 1]
        /\ 1 \in DOMAIN s
    BY TailAt
  <1>2. \A i \in DOMAIN t : i + 1 # 1
    <2> SUFFICES ASSUME NEW i \in DOMAIN t, i + 1 = 1 PROVE FALSE
      OBVIOUS
    <2>1. i = 0 /\ t[i] = s[1]
      BY <1>1
    <2>2. DOMAIN t = 1..Len(t)
      BY HeadTailProperties, LenProperties
    <2> QED BY <2>1, <2>2
  <1>3. TailedAt(t, s)
    BY <1>1, <1>2 DEF TailedAt
  <1>4. ASSUME Once(s) PROVE Once(t)
    <2> SUFFICES ASSUME NEW i \in DOMAIN t, NEW j \in DOMAIN t, t[i].path = t[j].path PROVE i = j
      BY DEF Once
    <2>1. i + 1 = j + 1
      BY <1>1, <1>4 DEF Once
    <2> QED BY <1>1, <2>1
  <1>5. ASSUME Once(s) PROVE PathsOf(t) = PathsOf(s) \ {s[1].path}
    <2>1. \A i \in DOMAIN t : t[i].path \in PathsOf(s) /\ t[i].path # s[1].path
      BY <1>1, <1>2, <1>5 DEF Once, PathsOf
    <2>2. \A i \in DOMAIN s : i # 1 => s[i].path \in PathsOf(t)
      <3> SUFFICES ASSUME NEW i \in DOMAIN s, i # 1 PROVE s[i].path \in PathsOf(t)
        OBVIOUS
      <3>1. i - 1 \in DOMAIN t /\ t[i - 1] = s[i]
        BY <1>1
      <3> QED BY <3>1 DEF PathsOf
    <2>3. \A q \in PathsOf(s) : \E i \in DOMAIN s : s[i].path = q
      BY DEF PathsOf
    <2>4. \A q \in PathsOf(t) : \E i \in DOMAIN t : t[i].path = q
      BY DEF PathsOf
    <2>5. PathsOf(s) \ {s[1].path} \subseteq PathsOf(t)
      BY <2>2, <2>3
    <2> QED BY <2>1, <2>4, <2>5
  <1>6. \A i \in DOMAIN s : s[i].post => i = 1 \/ s[i].path \in PostOf(t)
    <2> SUFFICES ASSUME NEW i \in DOMAIN s, s[i].post, i # 1 PROVE s[i].path \in PostOf(t)
      OBVIOUS
    <2>1. i - 1 \in DOMAIN t /\ t[i - 1] = s[i]
      BY <1>1
    <2> QED BY <2>1 DEF PostOf
  <1>7. \A i \in DOMAIN t : t[i].post => t[i].path \in PostOf(s)
    BY <1>1 DEF PostOf
  <1>8. PostOf(s) \subseteq PostOf(t) \cup {s[1].path} /\ PostOf(t) \subseteq PostOf(s)
    <2>1. \A q \in PostOf(s) : \E i \in DOMAIN s : s[i].post /\ s[i].path = q
      BY DEF PostOf
    <2>2. \A q \in PostOf(t) : \E i \in DOMAIN t : t[i].post /\ t[i].path = q
      BY DEF PostOf
    <2> QED BY <1>6, <1>7, <2>1, <2>2
  <1> QED BY <1>3, <1>4, <1>5, <1>8

\* The same for a stack with frames pushed on it.
LEMMA PushOnce ==
    ASSUME NEW n, NEW kids, NEW f, NEW s, PushedAt(n, kids, f, s), 1 \in DOMAIN s,
           f.path = s[1].path, f.post, ~s[1].post, \A k \in DOMAIN kids : ~kids[k].post,
           Once(kids), Once(s), PathsOf(kids) \cap PathsOf(s) = {}
    PROVE  /\ Once(n) /\ PathsOf(n) = PathsOf(kids) \cup PathsOf(s)
           /\ PostOf(s) \cup {s[1].path} \subseteq PostOf(n)
  <1> DEFINE m == Len(kids)
             At(k, j) == j \in DOMAIN s /\ j # 1 /\ k = m + j /\ n[k] = s[j]
  <1>1. /\ m \in Nat
        /\ \A k \in DOMAIN kids : k \in Nat /\ k <= m /\ k \in DOMAIN n /\ n[k] = kids[k]
        /\ m + 1 \in DOMAIN n /\ n[m + 1] = f
        /\ \A j \in DOMAIN s : j # 1 => j \in Nat /\ j > 1 /\ m + j \in DOMAIN n /\ n[m + j] = s[j]
        /\ \A k \in DOMAIN n : \/ k \in DOMAIN kids
                               \/ k = m + 1
                               \/ \E j \in DOMAIN s : j # 1 /\ k = m + j
    BY DEF PushedAt
  <1> HIDE DEF m
  <1>2. \A k \in DOMAIN n : k \in DOMAIN kids \/ k = m + 1 \/ \E j : At(k, j)
    BY <1>1
  <1>3. \A a \in DOMAIN kids, b \in DOMAIN s : kids[a].path # s[b].path
    BY DEF PathsOf
  <1>4. Once(n)
    <2> DEFINE Case(k) == k \in DOMAIN kids
    <2> SUFFICES ASSUME NEW k \in DOMAIN n, NEW l \in DOMAIN n, n[k].path = n[l].path PROVE k = l
      BY DEF Once
    <2>0. \A i : i = m + 1 => n[i].path = s[1].path
      BY <1>1
    <2>1. CASE k \in DOMAIN kids /\ l \in DOMAIN kids
      BY <1>1, <2>1 DEF Once
    <2>2. CASE k \in DOMAIN kids /\ l \notin DOMAIN kids
      BY <1>1, <1>2, <1>3, <2>0, <2>2
    <2>3. CASE k \notin DOMAIN kids /\ l \in DOMAIN kids
      BY <1>1, <1>2, <1>3, <2>0, <2>3
    <2>4. CASE k \notin DOMAIN kids /\ l \notin DOMAIN kids
      <3>1. (k = m + 1 \/ \E j : At(k, j)) /\ (l = m + 1 \/ \E j : At(l, j))
        BY <1>2, <2>4
      <3>2. CASE k = m + 1 /\ l = m + 1
        BY <3>2
      <3>3. CASE k = m + 1 /\ \E j : At(l, j)
        BY <2>0, <3>3 DEF Once
      <3>4. CASE l = m + 1 /\ \E j : At(k, j)
        BY <2>0, <3>4 DEF Once
      <3>5. CASE (\E j : At(k, j)) /\ (\E j : At(l, j))
        BY <3>5 DEF Once
      <3> QED BY <3>1, <3>2, <3>3, <3>4, <3>5
    <2> QED BY <2>1, <2>2, <2>3, <2>4
  <1>5. PathsOf(n) = PathsOf(kids) \cup PathsOf(s)
    <2>1. \A k \in DOMAIN n : n[k].path \in PathsOf(kids) \cup PathsOf(s)
      BY <1>1, <1>2 DEF PathsOf
    <2>2. \A k \in DOMAIN kids : kids[k].path \in PathsOf(n)
      BY <1>1 DEF PathsOf
    <2>3. \A j \in DOMAIN s : s[j].path \in PathsOf(n)
      <3> SUFFICES ASSUME NEW j \in DOMAIN s PROVE \E k \in DOMAIN n : n[k].path = s[j].path
        BY DEF PathsOf
      <3> QED BY <1>1
    <2> QED BY <2>1, <2>2, <2>3 DEF PathsOf
  <1>6. PostOf(s) \cup {s[1].path} \subseteq PostOf(n)
    <2>1. s[1].path \in PostOf(n)
      BY <1>1 DEF PostOf
    <2>2. \A j \in DOMAIN s : s[j].post => s[j].path \in PostOf(n)
      <3> SUFFICES ASSUME NEW j \in DOMAIN s, s[j].post PROVE \E k \in DOMAIN n : n[k].post /\ n[k].path = s[j].path
        BY DEF PostOf
      <3> QED BY <1>1
    <2>3. \A q \in PostOf(s) : \E j \in DOMAIN s : s[j].post /\ s[j].path = q
      BY DEF PostOf
    <2> QED BY <2>1, <2>2, <2>3
  <1> QED BY <1>4, <1>5, <1>6

LEMMA WalkForDeleteKeepsOrdered ==
    ASSUME WInv, IInv', WalkForDelete PROVE Ordered'
  <1> USE DEF trees, walk, xfer, progress, history, End, Goto
  <1> DEFINE p == Head(todo).path
  <1>1. /\ pc = "delWalk" /\ todo # <<>> /\ todo \in Seq(Frame)
        /\ p \in Path /\ Head(todo) = todo[1] /\ 1 \in DOMAIN todo /\ p \in TodoPaths
    <2>1. pc = "delWalk" /\ todo # <<>>
      BY DEF WalkForDelete
    <2> QED BY <2>1, HeadTyped DEF WInv, IInv, TodoPaths, TypeOK, Frame
  <1>2. /\ Once(plan) /\ Once(todo) /\ PlannedPaths \cap TodoPaths = {} /\ p \notin PlannedPaths
        /\ \A c \in PlannedPaths \cup TodoPaths : Parent[c] = Root \/ Parent[c] \in Expanded
        /\ Items \subseteq PlannedPaths \cup TodoPaths /\ idx = 1
    BY <1>1 DEF WInv, Ordered, PathsOnce, DeletedSoFar, Deleting
  <1>3. /\ PlannedPaths = PathsOf(plan) /\ TodoPaths = PathsOf(todo)
        /\ PlannedPaths' = PathsOf(plan') /\ TodoPaths' = PathsOf(todo')
    BY DEF PlannedPaths, TodoPaths, PathsOf
  <1>4. touched = {} /\ ~faulted =>
            /\ \A j \in DOMAIN todo : Exists(src, todo[j].path) /\ (todo[j].post => src[todo[j].path].kind = "dir")
            /\ \A j \in DOMAIN todo : todo[j].post =>
                   \A c \in Named(src, todo[j].path) :
                       c \in PlannedPaths \/ \E k \in DOMAIN todo : k < j /\ todo[k].path = c
            /\ \A i \in DOMAIN plan : i >= idx =>
                   plan[i].kind = src[plan[i].path].kind /\ Exists(src, plan[i].path)
            /\ \A i \in DOMAIN plan : plan[i].kind = "dir" =>
                   \A c \in Named(src, plan[i].path) : \E k \in DOMAIN plan : k < i /\ plan[k].path = c
    BY <1>1 DEF WInv, Ordered, ChildrenFirst, Deleting
  <1>5. CASE ~Head(todo).post /\ ~Exists(src, p)
    <2>1. pc' = "done" /\ outcome' = "failed" /\ UNCHANGED <<src, dst, touched, missed, faulted>>
      BY <1>5 DEF WalkForDelete
    <2>2. touched # {} \/ faulted
      BY <1>1, <1>4, <1>5
    <2>3. OnlyRealFailures' /\ CompletedIsComplete'
      BY <2>1, <2>2 DEF OnlyRealFailures, CompletedIsComplete
    <2> QED BY <2>1, <2>3, EndKeepsOrdered
  <1>6. CASE ~Head(todo).post /\ src[p].kind = "dir"
    <2>0. src[p].kind # "none"
      BY <1>6
    <2>1. /\ pc' = "delWalk"
          /\ UNCHANGED <<src, dst, kind, plan, idx, orig, touched, missed, copied, cut, outcome>>
      BY <1>6, <2>0 DEF WalkForDelete, Exists
    <2> DEFINE f == [path |-> p, post |-> TRUE]
    <2>21. PICK Kids \in Shown(src, SrcWhere, p) :
               /\ \E kids \in Listings(Visits(Kids)) : todo' = kids \o <<f>> \o Tail(todo)
               /\ faulted' = (faulted \/ Kids # Named(src, p))
      BY <1>6, <2>0 DEF WalkForDelete, Exists
    <2>22. /\ Kids \in SUBSET Path /\ Kids \subseteq Children(src, p)
           /\ \A c \in Kids : c \in Path /\ Parent[c] = p /\ c \notin NotUtf8 /\ Exists(src, c)
           /\ faulted => faulted'
           /\ ~faulted' => ~faulted /\ Kids = Named(src, p)
      <3>1. Kids \subseteq Named(src, p)
        BY ShownFacts
      <3>2. faulted => faulted'
        BY <2>21
      <3>3. ~faulted' => ~faulted /\ Kids = Named(src, p)
        BY <2>21
      <3> QED BY <3>1, <3>2, <3>3 DEF Named, Children
    <2>2. PICK kids \in Listings(Visits(Kids)) : todo' = kids \o <<f>> \o Tail(todo)
      BY <2>21
    <2>3. Kids \cap (PlannedPaths \cup TodoPaths) = {}
      BY <1>1, <1>6, <2>22, FirstVisit
    <2>4. /\ kids \in Seq(Frame) /\ PathsOf(kids) = Kids /\ Once(kids)
          /\ \A i \in DOMAIN kids : kids[i].path \in Kids /\ ~kids[i].post
      BY <2>22, VisitOnce
    <2>5. f \in Frame /\ f.path = todo[1].path /\ f.post
      BY <1>1 DEF Frame
    <2>6. Pushed(todo', kids, f, todo)
      BY <2>2 DEF Pushed
    <2>7. PushedAt(todo', kids, f, todo)
      <3> HIDE DEF f
      <3> QED BY <1>1, <2>4, <2>5, <2>6, PushAt
    <2>8. /\ Once(todo') /\ TodoPaths' = Kids \cup TodoPaths
          /\ PostOf(todo) \cup {p} \subseteq PostOf(todo')
      <3> HIDE DEF f
      <3>1. ~todo[1].post /\ p = todo[1].path /\ PathsOf(kids) \cap PathsOf(todo) = {}
        BY <1>1, <1>3, <1>6, <2>3, <2>4
      <3> QED BY <1>1, <1>2, <1>3, <2>4, <2>5, <2>7, <3>1, PushOnce
    <2>9. PathsOnce'
      <3>1. PlannedPaths' = PlannedPaths /\ Once(plan')
        BY <1>2, <2>1 DEF PlannedPaths
      <3>2. \A c \in PlannedPaths \cup Kids \cup TodoPaths :
                Parent[c] = Root \/ Parent[c] \in PlannedPaths \cup PostOf(todo')
        <4>1. \A c \in Kids : Parent[c] = p
          BY <2>22
        <4> QED BY <1>2, <2>8, <4>1 DEF Expanded
      <3>3. PlannedPaths' \cap TodoPaths' = {}
        BY <1>2, <2>3, <2>8, <3>1
      <3> QED BY <2>1, <2>8, <3>1, <3>2, <3>3 DEF PathsOnce, Expanded
    <2>10. DeletedSoFar'
      <3>1. PlannedPaths' = PlannedPaths
        BY <2>1 DEF PlannedPaths
      <3> QED BY <1>1, <1>2, <2>1, <2>8, <3>1 DEF WInv, Ordered, DeletedSoFar, Deleting, Exists
    <2>11. ChildrenFirst'
      <3> SUFFICES ASSUME touched = {}, ~faulted' PROVE ChildrenFirst'
        BY <2>1 DEF ChildrenFirst
      <3>0. ~faulted /\ Kids = Named(src, p)
        BY <2>22
      <3> DEFINE m == Len(kids)
      <3>1. /\ m \in Nat
            /\ \A k \in DOMAIN kids : k \in Nat /\ k <= m /\ k \in DOMAIN todo' /\ todo'[k] = kids[k]
            /\ m + 1 \in DOMAIN todo' /\ todo'[m + 1].path = p
            /\ \A j \in DOMAIN todo : j # 1 =>
                   j \in Nat /\ j > 1 /\ m + j \in DOMAIN todo' /\ todo'[m + j] = todo[j]
            /\ \A k \in DOMAIN todo' : \/ k \in DOMAIN kids
                                       \/ k = m + 1
                                       \/ \E j \in DOMAIN todo : j # 1 /\ k = m + j
        <4>1. f.path = p
          OBVIOUS
        <4> HIDE DEF f
        <4> QED BY <2>7, <4>1 DEF PushedAt
      <3> HIDE DEF m
      <3>2. \A c \in Kids : Exists(src, c) /\ \E k \in DOMAIN kids : kids[k].path = c
        <4>1. \A c \in Kids : Exists(src, c)
          BY <2>22
        <4>2. \A c \in PathsOf(kids) : \E k \in DOMAIN kids : kids[k].path = c
          BY DEF PathsOf
        <4> QED BY <2>4, <4>1, <4>2
      <3>3. ASSUME NEW j \in DOMAIN todo'
            PROVE  Exists(src, todo'[j].path) /\ (todo'[j].post => src[todo'[j].path].kind = "dir")
        <4>1. CASE j \in DOMAIN kids
          BY <2>4, <3>1, <3>2, <4>1
        <4>2. CASE j = m + 1
          BY <1>6, <3>1, <4>2 DEF Exists
        <4>3. CASE \E i \in DOMAIN todo : i # 1 /\ j = m + i
          BY <1>4, <3>0, <3>1, <4>3
        <4> QED BY <3>1, <4>1, <4>2, <4>3
      <3>4. ASSUME NEW j \in DOMAIN todo', todo'[j].post, NEW c \in Named(src, todo'[j].path), c \notin PlannedPaths
            PROVE  \E k \in DOMAIN todo' : k < j /\ todo'[k].path = c
        <4>1. CASE j \in DOMAIN kids
          BY <2>4, <3>1, <3>4, <4>1
        <4>2. CASE j = m + 1
          <5>1. PICK k \in DOMAIN kids : kids[k].path = c
            BY <3>0, <3>1, <3>2, <3>4, <4>2
          <5> QED BY <3>1, <4>2, <5>1
        <4>3. CASE \E i \in DOMAIN todo : i # 1 /\ j = m + i
          <5>1. PICK i \in DOMAIN todo : i # 1 /\ j = m + i
            BY <4>3
          <5>2. i \in Nat /\ i > 1 /\ todo'[j] = todo[i]
            BY <3>1, <5>1
          <5>3. PICK k \in DOMAIN todo : k < i /\ todo[k].path = c
            BY <1>4, <3>0, <3>4, <5>2
          <5>4. CASE k = 1
            BY <1>1, <3>1, <5>1, <5>2, <5>3, <5>4
          <5>5. CASE k # 1
            BY <3>1, <5>1, <5>2, <5>3, <5>5
          <5> QED BY <5>4, <5>5
        <4> QED BY <3>1, <4>1, <4>2, <4>3
      <3>5. PlannedPaths' = PlannedPaths
        BY <2>1 DEF PlannedPaths
      <3> QED BY <1>4, <2>1, <3>0, <3>3, <3>4, <3>5 DEF ChildrenFirst, Exists, Named, Children
    <2>12. HiddenLeft'
      <3>1. PlannedPaths' = PlannedPaths
        BY <2>1 DEF PlannedPaths
      <3>2. \A q \in PlannedPaths \cup TodoPaths : ~Unlisted(q)
        BY <1>1 DEF WInv, Ordered, HiddenLeft, Deleting
      <3>3. \A q \in Kids : ~Unlisted(q)
        BY <1>1, <2>22, <3>2, UnlistedFacts
      <3>4. \A q \in PlannedPaths' \cup TodoPaths' : ~Unlisted(q)
        BY <2>8, <3>1, <3>2, <3>3
      <3>5. \A q \in Path : Original(q) /\ Unlisted(q) => src[q] = orig[q]
        BY <1>1 DEF WInv, Ordered, HiddenLeft, Deleting
      <3> QED BY <2>1, <3>4, <3>5 DEF HiddenLeft, Unlisted, Original
    <2> QED BY <1>1, <2>1, <2>9, <2>10, <2>11, <2>12, <2>22, DeletingKeepsOrdered DEF Deleting
  <1>7. CASE Head(todo).post \/ (Exists(src, p) /\ src[p].kind # "dir")
    <2> DEFINE k0 == IF Head(todo).post THEN "dir" ELSE src[p].kind
    <2>1. /\ pc' = "delWalk" /\ plan' = Append(plan, Planned(p, k0)) /\ todo' = Tail(todo)
          /\ UNCHANGED <<src, dst, kind, idx, orig, touched, missed, copied, cut, outcome, faulted>>
      BY <1>7 DEF WalkForDelete
    <2>2. Planned(p, k0) \in [path : Path, kind : NodeKinds] /\ plan \in Seq([path : Path, kind : NodeKinds])
      BY <1>1 DEF Planned, WInv, IInv, TypeOK, Node, NodeKinds
    <2>3. Planned(p, k0).path = p /\ Planned(p, k0).kind = k0
      BY DEF Planned
    <2> HIDE DEF k0
    <2>4. AppendedAt(plan', plan, Planned(p, k0))
      <3>1. Appended(plan', plan, Planned(p, k0))
        BY <2>1 DEF Appended
      <3> QED BY <2>2, <3>1, AppendAt
    <2>5. PlannedPaths' = PlannedPaths \cup {p} /\ Once(plan')
      BY <1>2, <1>3, <2>3, <2>4 DEF AppendedAt
    <2>6. /\ TailedAt(todo', todo) /\ Once(todo') /\ TodoPaths' = TodoPaths \ {p}
          /\ PostOf(todo) \subseteq PostOf(todo') \cup {p} /\ PostOf(todo') \subseteq PostOf(todo)
      BY <1>1, <1>2, <1>3, <2>1, TailOnce
    <2>7. PathsOnce'
      <3>1. PlannedPaths' \cap TodoPaths' = {}
        BY <1>2, <2>5, <2>6
      <3>2. \A c \in PlannedPaths' \cup TodoPaths' : Parent[c] = Root \/ Parent[c] \in Expanded'
        BY <1>1, <1>2, <2>5, <2>6 DEF Expanded
      <3> QED BY <2>1, <2>5, <2>6, <3>1, <3>2 DEF PathsOnce
    <2>8. DeletedSoFar'
      <3>1. Items \subseteq PlannedPaths' \cup TodoPaths'
        BY <1>2, <2>5, <2>6
      <3>2. \A i \in DOMAIN plan' : ~(i < idx')
        BY <1>2, <2>1, LenProperties DEF IInv, TypeOK
      <3> QED BY <1>2, <2>1, <3>1, <3>2 DEF DeletedSoFar
    <2>9. ChildrenFirst'
      <3> SUFFICES ASSUME touched = {}, ~faulted PROVE ChildrenFirst'
        BY <2>1 DEF ChildrenFirst
      <3>1. k0 = src[p].kind /\ Exists(src, p) /\ (k0 = "dir" => todo[1].post)
        BY <1>1, <1>4, <1>7 DEF k0
      <3> DEFINE l == Len(plan) + 1
      <3>2. /\ l \in DOMAIN plan' /\ plan'[l].path = p /\ plan'[l].kind = k0
            /\ \A i \in DOMAIN plan : i < l /\ i \in DOMAIN plan' /\ plan'[i] = plan[i]
            /\ \A i \in DOMAIN plan' : i \in DOMAIN plan \/ i = l
        BY <2>3, <2>4 DEF AppendedAt
      <3> HIDE DEF l
      <3>3. /\ \A i \in DOMAIN todo : i \in Nat /\ i >= 1
            /\ \A i \in DOMAIN todo : i # 1 => i - 1 \in DOMAIN todo' /\ todo'[i - 1] = todo[i]
            /\ \A i \in DOMAIN todo' : i \in Nat /\ i + 1 \in DOMAIN todo /\ todo'[i] = todo[i + 1] /\ i + 1 # 1
        BY <2>6 DEF TailedAt
      <3>4. \A j \in DOMAIN todo' : Exists(src, todo'[j].path) /\ (todo'[j].post => src[todo'[j].path].kind = "dir")
        BY <1>4, <3>3
      <3>5. ASSUME NEW j \in DOMAIN todo', todo'[j].post, NEW c \in Named(src, todo'[j].path), c \notin PlannedPaths'
            PROVE  \E k \in DOMAIN todo' : k < j /\ todo'[k].path = c
        <4>1. j + 1 \in DOMAIN todo /\ todo'[j] = todo[j + 1] /\ j \in Nat /\ c \notin PlannedPaths /\ c # p
          BY <2>5, <3>3, <3>5
        <4>2. PICK k \in DOMAIN todo : k < j + 1 /\ todo[k].path = c
          BY <1>4, <3>5, <4>1
        <4>3. k # 1 /\ k \in Nat
          BY <1>1, <3>3, <4>1, <4>2
        <4>4. k - 1 \in DOMAIN todo' /\ todo'[k - 1] = todo[k] /\ k - 1 < j
          BY <3>3, <4>1, <4>2, <4>3
        <4> QED BY <4>2, <4>4
      <3>6. \A i \in DOMAIN plan' : plan'[i].kind = src[plan'[i].path].kind /\ Exists(src, plan'[i].path)
        <4>1. \A i \in DOMAIN plan : i >= idx
          BY <1>2, LenProperties DEF WInv, IInv, TypeOK
        <4> QED BY <1>4, <3>1, <3>2, <4>1
      <3>7. ASSUME NEW i \in DOMAIN plan', plan'[i].kind = "dir", NEW c \in Named(src, plan'[i].path)
            PROVE  \E k \in DOMAIN plan' : k < i /\ plan'[k].path = c
        <4>1. CASE i \in DOMAIN plan
          <5>1. plan'[i] = plan[i]
            BY <3>2, <4>1
          <5>2. PICK k \in DOMAIN plan : k < i /\ plan[k].path = c
            BY <1>4, <3>7, <4>1, <5>1
          <5> QED BY <3>2, <5>2
        <4>2. CASE i = l
          <5>1. todo[1].post /\ c \in Named(src, todo[1].path)
            BY <1>1, <3>1, <3>2, <3>7, <4>2
          <5>2. ~\E k \in DOMAIN todo : k < 1
            BY <3>3
          <5>3. c \in PlannedPaths
            BY <1>1, <1>4, <5>1, <5>2
          <5>4. PICK k \in DOMAIN plan : plan[k].path = c
            BY <5>3 DEF PlannedPaths
          <5> QED BY <3>2, <4>2, <5>4
        <4> QED BY <3>2, <4>1, <4>2
      <3> QED BY <2>1, <3>4, <3>5, <3>6, <3>7 DEF ChildrenFirst, Exists, Named, Children
    <2>10. HiddenLeft'
      <3>1. PlannedPaths' \cup TodoPaths' \subseteq PlannedPaths \cup TodoPaths
        BY <1>1, <2>5, <2>6
      <3>2. /\ \A q \in PlannedPaths \cup TodoPaths : ~Unlisted(q)
            /\ \A q \in Path : Original(q) /\ Unlisted(q) => src[q] = orig[q]
        BY <1>1 DEF WInv, Ordered, HiddenLeft, Deleting
      <3>3. \A q \in PlannedPaths' \cup TodoPaths' : ~Unlisted(q)
        BY <3>1, <3>2
      <3> QED BY <2>1, <3>2, <3>3 DEF HiddenLeft, Unlisted, Original
    <2> QED BY <1>1, <2>1, <2>7, <2>8, <2>9, <2>10, DeletingKeepsOrdered DEF Deleting
  <1> QED BY <1>5, <1>6, <1>7

LEMMA DeletePlanStepsKeepOrdered ==
    ASSUME WInv, StartDeleting \/ DeleteNext PROVE Ordered'
  <1> USE DEF trees, walk, xfer, progress, history, End, Goto, AtItem
  <1>1. CASE DeleteNext /\ cancelled
    BY <1>1, GivingUpKeepsOrdered DEF DeleteNext
  <1>2. CASE StartDeleting \/ (DeleteNext /\ ~cancelled)
    <2>1. /\ pc \in Deleting /\ pc' \in {"delCheck", "delApply"} /\ (pc = "delWalk" => todo = <<>>)
          /\ UNCHANGED <<src, dst, kind, todo, plan, idx, orig, touched, missed, copied, cut, outcome, faulted>>
      BY <1>2 DEF StartDeleting, DeleteNext, Deleting
    <2>2. PathsOnce'
      <3>1. Once(plan)' = Once(plan) /\ Once(todo)' = Once(todo) /\ PlannedPaths' = PlannedPaths
            /\ TodoPaths' = TodoPaths /\ Expanded' = Expanded
        BY <2>1 DEF Once, PlannedPaths, TodoPaths, Expanded, PostOf
      <3>2. todo = <<>>
        BY <2>1 DEF WInv, Ordered, PathsOnce, Deleting
      <3> QED BY <2>1, <3>1, <3>2 DEF WInv, Ordered, PathsOnce
    <2>3. DeletedSoFar' /\ ChildrenFirst' /\ HiddenLeft'
      BY <2>1 DEF WInv, Ordered, DeletedSoFar, ChildrenFirst, HiddenLeft, PlannedPaths, TodoPaths, Exists,
                  Named, Children, Original, Unlisted, Deleting
    <2> QED BY <2>1, <2>2, <2>3, DeletingKeepsOrdered DEF Deleting
  <1> QED BY <1>1, <1>2

\* As long as nobody interferes and no listing is at fault, the entry in hand
\* can be deleted: it is still what it was when it was planned, and everything in
\* it is gone but what no listing shows.
LEMMA RemoveFails ==
    ASSUME WInv, pc = "delApply", idx <= Len(plan), touched = {}, ~faulted,
           ~CanRemove(src, Item.path, Item.kind)
    PROVE  /\ kind = "delete" \/ (kind = "moveCross" /\ Item.path \in copied)
           /\ Item.kind = "dir" /\ Children(src, Item.path) \cap NotUtf8 # {}
  <1>1. Item.path \in Path /\ Item.kind \in NodeKinds /\ idx \in DOMAIN plan /\ idx \in Nat
    BY ItemTyped DEF WInv, IInv, TypeOK
  <1>2. Item.kind = src[Item.path].kind /\ Exists(src, Item.path)
    BY <1>1 DEF WInv, Ordered, ChildrenFirst, Deleting, Item
  <1>3. ASSUME Item.kind = "dir", NEW c \in Named(src, Item.path) PROVE FALSE
    <2>1. PICK k \in DOMAIN plan : k < idx /\ plan[k].path = c
      BY <1>1, <1>3 DEF WInv, Ordered, ChildrenFirst, Deleting, Item
    <2>2. ~Exists(src, c)
      BY <2>1 DEF WInv, Ordered, DeletedSoFar, Deleting
    <2> QED BY <2>2 DEF Named, Children
  <1>4. Item.kind = "dir" /\ Children(src, Item.path) # {}
    BY <1>1, <1>2 DEF CanRemove, Exists, NodeKinds
  <1>5. Children(src, Item.path) \cap NotUtf8 # {}
    BY <1>3, <1>4 DEF Named
  <1>6. kind = "delete" \/ (kind = "moveCross" /\ Item.path \in copied)
    <2>1. kind \in {"delete", "moveCross"}
      BY DEF WInv, IInv, TypeOK, Core, KindsMatch, JobKinds, Copying, Renaming
    <2>2. CASE kind = "moveCross"
      <3>1. Item.path \in PlannedPaths
        BY <1>1 DEF PlannedPaths, Item
      <3>2. missed = {}
        BY DEF WInv, Ordered
      <3>3. ~Unseen(Item.path)
        BY <3>2, UnseenFacts DEF WInv, IInv
      <3> QED BY <2>2, <3>1, <3>3 DEF WInv, IInv, Core, DeletesKnown, Deleting
    <2> QED BY <2>1, <2>2
  <1> QED BY <1>4, <1>5, <1>6

LEMMA DeleteItemKeepsOrdered ==
    ASSUME ~SameDir, WInv, IInv', DeleteItem PROVE Ordered'
  <1> USE DEF trees, walk, xfer, progress, history, End, Goto
  <1> DEFINE p == Item.path
  <1>1. pc = "delApply" /\ idx <= Len(plan)
    BY DEF DeleteItem, AtItem
  <1>2. CASE ~CanRemove(src, p, Item.kind)
    <2>1. /\ pc' = "done" /\ outcome' = "failed"
          /\ UNCHANGED <<src, dst, kind, plan, idx, touched, missed, copied, faulted>>
      BY <1>2 DEF DeleteItem
    <2>2. touched = {} /\ ~faulted =>
              /\ kind = "delete" \/ (kind = "moveCross" /\ Item.path \in copied)
              /\ Item.kind = "dir" /\ Children(src, Item.path) \cap NotUtf8 # {}
      BY <1>1, <1>2, RemoveFails
    <2>3. OnlyRealFailures' /\ CompletedIsComplete'
      BY <1>1, <2>1, <2>2 DEF OnlyRealFailures, CompletedIsComplete, Item, Children, Exists
    <2> QED BY <2>1, <2>3, EndKeepsOrdered
  <1>3. CASE CanRemove(src, p, Item.kind)
    <2>1. /\ pc' = "delCheck" /\ src' = [src EXCEPT ![p] = Absent] /\ idx' = idx + 1
          /\ UNCHANGED <<dst, kind, todo, plan, orig, touched, missed, copied, cut, outcome, faulted>>
      BY <1>3 DEF DeleteItem, DropSrc
    <2>2. p \in Path /\ idx \in DOMAIN plan /\ idx \in Nat /\ \A i \in DOMAIN plan : i \in Nat
      BY <1>1, ItemTyped, LenProperties DEF WInv, IInv, TypeOK
    <2>3. \A i \in DOMAIN plan : plan[i].path \in Path
      <3>1. \A i \in DOMAIN plan : plan[i] \in [path : Path, kind : NodeKinds]
        BY LenProperties, ElementOfSeq DEF WInv, IInv, TypeOK
      <3> QED BY <3>1
    <2>4. src'[p] = Absent /\ Absent.kind = "none" /\ \A q \in Path : q # p => src'[q] = src[q]
      BY <2>1, <2>2, NodeFacts DEF WInv, IInv, TypeOK
    <2>5. \A q \in Path : Exists(src', q) => Exists(src, q) /\ q # p /\ src'[q] = src[q]
      BY <2>4 DEF Exists
    <2>6. WellFormed(src')
      <3>1. ASSUME NEW q \in Path, Exists(src', q), Parent[q] # Root PROVE src'[Parent[q]].kind = "dir"
        <4>1. Exists(src, q) /\ src[Parent[q]].kind = "dir" /\ Parent[q] \in Path
          BY <2>5, <3>1, PathAssumption DEF WInv, Ordered, WellFormed, Dirs
        <4>2. Parent[q] # p
          BY <1>3, <4>1 DEF CanRemove, Children
        <4> QED BY <2>4, <4>1, <4>2
      <3> QED BY <3>1, PathAssumption DEF WellFormed, Dirs
    <2>7. PathsOnce'
      <3>1. Once(plan)' = Once(plan) /\ Once(todo)' = Once(todo) /\ PlannedPaths' = PlannedPaths
            /\ TodoPaths' = TodoPaths /\ Expanded' = Expanded
        BY <2>1 DEF Once, PlannedPaths, TodoPaths, Expanded, PostOf
      <3> QED BY <1>1, <2>1, <3>1 DEF WInv, Ordered, PathsOnce, Deleting
    <2>8. DeletedSoFar'
      <3>1. ASSUME NEW i \in DOMAIN plan, i < idx + 1, plan[i].path \notin touched
            PROVE  ~Exists(src', plan[i].path)
        <4>1. CASE i = idx
          BY <2>5, <2>2, <4>1 DEF Item
        <4>2. CASE i # idx
          <5>1. i < idx
            BY <2>2, <3>1, <4>2
          <5> QED BY <1>1, <2>3, <2>5, <3>1, <5>1 DEF WInv, Ordered, DeletedSoFar, Deleting
        <4> QED BY <4>1, <4>2
      <3>2. PlannedPaths' = PlannedPaths /\ TodoPaths' = TodoPaths
        BY <2>1 DEF PlannedPaths, TodoPaths
      <3> QED BY <1>1, <2>1, <3>1, <3>2 DEF WInv, Ordered, DeletedSoFar, Deleting
    <2>9. ChildrenFirst'
      <3> SUFFICES ASSUME touched = {}, ~faulted PROVE ChildrenFirst'
        BY <2>1 DEF ChildrenFirst
      <3>1. todo = <<>> /\ Once(plan)
        BY <1>1 DEF WInv, Ordered, PathsOnce, Deleting
      <3>2. ASSUME NEW i \in DOMAIN plan, i >= idx + 1
            PROVE  plan[i].kind = src'[plan[i].path].kind /\ Exists(src', plan[i].path)
        <4>1. i >= idx /\ i # idx
          BY <2>2, <3>2
        <4>2. plan[i].path # p
          BY <2>2, <3>1, <4>1 DEF Once, Item
        <4>3. plan[i].kind = src[plan[i].path].kind /\ Exists(src, plan[i].path)
          BY <1>1, <4>1 DEF WInv, Ordered, ChildrenFirst, Deleting
        <4> QED BY <2>3, <2>4, <4>2, <4>3 DEF Exists
      <3>3. \A q : Named(src', q) \subseteq Named(src, q)
        BY <2>5 DEF Named, Children
      <3>4. ASSUME NEW i \in DOMAIN plan, plan[i].kind = "dir", NEW c \in Named(src', plan[i].path)
            PROVE  \E k \in DOMAIN plan : k < i /\ plan[k].path = c
        BY <1>1, <3>3, <3>4 DEF WInv, Ordered, ChildrenFirst, Deleting
      <3>5. DOMAIN todo' = {}
        BY <2>1, <3>1
      <3>6. \A q : Named(src, q)' = Named(src', q)
        BY DEF Named, Children, Exists
      <3> QED BY <2>1, <3>2, <3>4, <3>5, <3>6 DEF ChildrenFirst, Exists
    <2>10. ParentsFirst' /\ CopiedSoFar' /\ RenamedSoFar' /\ SourcesThere'
      BY <2>1 DEF ParentsFirst, CopiedSoFar, RenamedSoFar, SourcesThere, Copying, Renaming
    <2>11. TargetKnown' /\ AllArrived'
      BY <1>1, <2>1 DEF WInv, Ordered, TargetKnown, AllArrived, Original, Selected, Unseen, Unlisted,
                        Copying, Deleting
    <2>12. outcome' = "none" /\ CompletedIsComplete' /\ OnlyRealFailures'
      BY <1>1, <2>1, StillRunning
    <2>13. HiddenLeft'
      <3>1. PlannedPaths' = PlannedPaths /\ TodoPaths' = TodoPaths /\ p \in PlannedPaths
        BY <2>1, <2>2 DEF PlannedPaths, TodoPaths, Item
      <3>2. /\ \A q \in PlannedPaths \cup TodoPaths : ~Unlisted(q)
            /\ \A q \in Path : Original(q) /\ Unlisted(q) => src[q] = orig[q]
        BY <1>1 DEF WInv, Ordered, HiddenLeft, Deleting
      <3>3. \A q \in Path : Original(q) /\ Unlisted(q) => src'[q] = orig[q]
        BY <2>4, <3>1, <3>2
      <3> QED BY <2>1, <3>1, <3>2, <3>3 DEF HiddenLeft, Unlisted, Original
    <2>14. missed' # {} => faulted'
      BY <2>1 DEF WInv, Ordered
    <2> QED BY <2>1, <2>6, <2>7, <2>8, <2>9, <2>10, <2>11, <2>12, <2>13, <2>14 DEF Ordered
  <1> QED BY <1>2, <1>3

LEMMA RenameNextKeepsOrdered ==
    ASSUME WInv, RenameNext PROVE Ordered'
  <1> USE DEF trees, walk, xfer, progress, history, End, Goto, AtItem
  <1>1. CASE cancelled
    BY <1>1, GivingUpKeepsOrdered DEF RenameNext
  <1>2. CASE ~cancelled
    <2>1. /\ pc = "renCheck" /\ pc' = "renApply"
          /\ UNCHANGED <<src, dst, kind, todo, plan, idx, orig, touched, missed, copied, outcome, faulted>>
      BY <1>2 DEF RenameNext
    <2>2. WellFormed(src)' /\ TargetKnown' /\ RenamedSoFar' /\ SourcesThere' /\ CopiedSoFar'
      BY <2>1 DEF WInv, Ordered, WellFormed, TargetKnown, RenamedSoFar, SourcesThere, CopiedSoFar,
                  PlannedPaths, Original, Exists, Dirs, Copying, Renaming
    <2>3. PathsOnce' /\ ParentsFirst' /\ AllArrived' /\ DeletedSoFar' /\ HiddenLeft' /\ ChildrenFirst'
      BY <2>1 DEF PathsOnce, ParentsFirst, AllArrived, DeletedSoFar, HiddenLeft, ChildrenFirst, Copying, Deleting
    <2>4. outcome' = "none" /\ CompletedIsComplete' /\ OnlyRealFailures'
      BY <2>1, StillRunning
    <2>5. missed' # {} => faulted'
      BY <2>1 DEF WInv, Ordered
    <2> QED BY <2>2, <2>3, <2>4, <2>5 DEF Ordered
  <1> QED BY <1>1, <1>2

LEMMA RenameItemKeepsOrdered ==
    ASSUME ~SameDir, WInv, IInv', RenameItem PROVE Ordered'
  <1> USE DEF trees, walk, xfer, progress, history, End, Goto
  <1> DEFINE p == Item.path
  <1>1. /\ pc = "renApply" /\ idx <= Len(plan) /\ p \in Path /\ p \in PlannedPaths
        /\ idx \in DOMAIN plan /\ idx \in Nat /\ \A i \in DOMAIN plan : i \in Nat
    <2>1. pc = "renApply" /\ idx <= Len(plan)
      BY DEF RenameItem, AtItem
    <2>2. p \in Path /\ idx \in DOMAIN plan /\ idx \in Nat /\ \A i \in DOMAIN plan : i \in Nat
      BY <2>1, ItemTyped, LenProperties DEF WInv, IInv, TypeOK
    <2> QED BY <2>1, <2>2 DEF PlannedPaths, Item
  <1>2. /\ PlannedPaths = Items /\ copied = {}
        /\ \A i \in DOMAIN plan : \A q \in Path :
               i < idx /\ Original(q) /\ ItemOf[q] = plan[i].path => ~Exists(src, q)
        /\ touched = {} => \A i \in DOMAIN plan : i >= idx => Exists(src, plan[i].path)
    BY <1>1 DEF WInv, Ordered, RenamedSoFar, CopiedSoFar, SourcesThere, Renaming
  <1>3. kind = "rename"
    BY <1>1 DEF WInv, IInv, TypeOK, Core, KindsMatch, JobKinds, Copying, Deleting
  <1>4. CASE ~CanRename(p)
    <2>1. /\ pc' = "done" /\ outcome' = "failed"
          /\ UNCHANGED <<src, dst, kind, plan, idx, copied, touched, missed, faulted>>
      BY <1>4 DEF RenameItem
    <2>2. touched = {} => Exists(dst, p)
      <3>1. idx >= idx
        BY <1>1
      <3>2. touched = {} => Exists(src, p)
        BY <1>1, <1>2, <3>1 DEF Item
      <3> QED BY <1>4, <3>2 DEF CanRename, Exists
    <2>3. OnlyRealFailures' /\ CompletedIsComplete'
      BY <1>1, <1>2, <1>3, <2>1, <2>2 DEF OnlyRealFailures, CompletedIsComplete, Item, Exists
    <2> QED BY <2>1, <2>3, EndKeepsOrdered
  <1>5. CASE CanRename(p)
    <2>1. /\ pc' = "renCheck" /\ idx' = idx + 1
          /\ dst' = [q \in Path |-> IF ItemOf[q] = p THEN src[q] ELSE dst[q]]
          /\ src' = [q \in Path |-> IF ItemOf[q] = p THEN Absent ELSE src[q]]
          /\ UNCHANGED <<kind, todo, plan, orig, touched, missed, copied, outcome, faulted>>
      BY <1>5 DEF RenameItem
    <2>2. /\ \A q \in Path : ItemOf[q] = p => src'[q] = Absent /\ dst'[q] = src[q]
          /\ \A q \in Path : ItemOf[q] # p => src'[q] = src[q] /\ dst'[q] = dst[q]
      BY <2>1
    <2>3. \A q \in Path : Exists(src', q) => ItemOf[q] # p /\ Exists(src, q)
      BY <2>2, NodeFacts DEF Exists
    <2>4. WellFormed(src')
      <3>1. ASSUME NEW q \in Path, Exists(src', q), Parent[q] # Root PROVE src'[Parent[q]].kind = "dir"
        <4>1. Exists(src, q) /\ src[Parent[q]].kind = "dir" /\ Parent[q] \in Path
          BY <2>3, <3>1, PathAssumption DEF WInv, Ordered, WellFormed, Dirs
        <4>2. ItemOf[Parent[q]] # p
          BY <2>3, <3>1, ItemOfAssumption
        <4> QED BY <2>2, <4>1, <4>2
      <3> QED BY <3>1, PathAssumption DEF WellFormed, Dirs
    <2>5. TargetKnown'
      <3>1. \A q \in Path : src[q].kind = "dir" => src[q] = Leaf("dir")
        <4> SUFFICES ASSUME NEW q \in Path, src[q].kind = "dir" PROVE src[q] = Leaf("dir")
          OBVIOUS
        <4>1. q \notin touched
          BY DEF WInv, IInv, Core, SourceKnown
        <4>2. src[q] \in {Absent, Leaf("dir"), Leaf("link"), File("orig", Chunks)}
          BY <4>1 DEF WInv, IInv, Core, SourceKnown, OrigIsTree
        <4> QED BY <4>2, NodeFacts DEF NodeKinds, Contents
      <3>2. \A q \in Path : dst'[q].kind = "dir" => dst'[q] = Leaf("dir")
        BY <2>2, <3>1 DEF WInv, Ordered, TargetKnown
      <3> QED BY <2>1, <3>2 DEF TargetKnown, Copying
    <2>6. RenamedSoFar'
      <3>1. ASSUME NEW i \in DOMAIN plan, NEW q \in Path, i < idx + 1, Original(q), ItemOf[q] = plan[i].path
            PROVE  ~Exists(src', q)
        <4>1. CASE i = idx
          BY <2>3, <3>1, <4>1 DEF Item
        <4>2. CASE i # idx
          <5>1. i < idx
            BY <1>1, <3>1, <4>2
          <5> QED BY <1>2, <2>3, <3>1, <5>1
        <4> QED BY <4>1, <4>2
      <3>2. PlannedPaths' = PlannedPaths
        BY <2>1 DEF PlannedPaths
      <3> QED BY <1>2, <2>1, <3>1, <3>2 DEF RenamedSoFar, Original
    <2>7. SourcesThere'
      <3> SUFFICES ASSUME touched = {}, NEW i \in DOMAIN plan, i >= idx + 1 PROVE Exists(src', plan[i].path)
        BY <2>1 DEF SourcesThere
      <3>1. i >= idx /\ i # idx
        BY <1>1
      <3>2. plan[i].path # p
        BY <1>1, <1>3, <3>1 DEF WInv, IInv, Core, RenamesWhole, Renaming, Item
      <3>3. plan[i].path \in Items
        BY <1>2 DEF PlannedPaths
      <3>4. plan[i].path \in Path /\ ItemOf[plan[i].path] = plan[i].path
        BY <3>3, PathAssumption, ItemOfAssumption
      <3>5. Exists(src, plan[i].path)
        BY <1>2, <3>1
      <3> QED BY <2>2, <3>2, <3>4, <3>5 DEF Exists
    <2>8. /\ PathsOnce' /\ ParentsFirst' /\ AllArrived' /\ DeletedSoFar' /\ HiddenLeft' /\ ChildrenFirst'
          /\ CopiedSoFar'
      BY <1>2, <2>1 DEF PathsOnce, ParentsFirst, AllArrived, DeletedSoFar, HiddenLeft, ChildrenFirst,
                        CopiedSoFar, Copying, Deleting
    <2>9. outcome' = "none" /\ CompletedIsComplete' /\ OnlyRealFailures'
      BY <1>1, <2>1, StillRunning
    <2>10. missed' # {} => faulted'
      BY <2>1 DEF WInv, Ordered
    <2> QED BY <2>1, <2>4, <2>5, <2>6, <2>7, <2>8, <2>9, <2>10 DEF Ordered
  <1> QED BY <1>4, <1>5

LEMMA JobFinishedKeepsOrdered ==
    ASSUME WInv, JobFinished PROVE Ordered'
  <1> USE DEF trees, walk, xfer, progress, history, End
  <1>1. /\ pc \in {"delCheck", "renCheck"} /\ idx > Len(plan) /\ pc' = "done" /\ outcome' = "completed"
        /\ UNCHANGED <<src, dst, kind, plan, orig, touched, missed, copied, cut, faulted>>
    BY DEF JobFinished
  <1>2. kind \in JobKinds
    BY DEF WInv, IInv, TypeOK
  <1>3. ASSUME NEW p \in Path, Original(p), Selected(p)
        PROVE  /\ ~Exists(src, p)
               /\ kind # "delete" =>
                      \/ dst[p] = orig[p]
                      \/ kind # "rename" /\ (orig[p].kind = "link" \/ Unseen(p) \/ p \in cut)
    <2>1. CASE pc = "delCheck"
      <3>1. kind \in {"moveCross", "delete"}
        BY <1>2, <2>1 DEF WInv, IInv, Core, KindsMatch, JobKinds, Copying, Renaming
      <3>2. ~Exists(src, p)
        BY <1>1, <1>3, <2>1, AllGone
      <3>3. ~Unlisted(p)
        <4>1. Exists(orig, p)
          BY <1>3 DEF Original, Exists
        <4> QED BY <1>3, <2>1, <3>2, <4>1 DEF WInv, Ordered, HiddenLeft, Deleting, Exists
      <3> QED BY <1>3, <2>1, <3>1, <3>2, <3>3 DEF WInv, Ordered, AllArrived, Deleting
    <2>2. CASE pc = "renCheck"
      <3>1. kind = "rename"
        BY <1>2, <2>2 DEF WInv, IInv, Core, KindsMatch, JobKinds, Copying, Deleting
      <3>2. PICK i \in DOMAIN plan : plan[i].path = ItemOf[p]
        BY <1>3, <2>2 DEF WInv, Ordered, RenamedSoFar, Renaming, PlannedPaths, Selected
      <3>3. i < idx
        BY <1>1, LenProperties DEF WInv, IInv, TypeOK
      <3>4. ~Exists(src, p)
        BY <1>3, <2>2, <3>2, <3>3 DEF WInv, Ordered, RenamedSoFar, Renaming
      <3>5. dst[p] = orig[p]
        BY <1>3, <2>2, <3>1, <3>2, <3>3 DEF WInv, IInv, Core, RenamesWhole, Renaming
      <3> QED BY <3>4, <3>5
    <2> QED BY <1>1, <2>1, <2>2
  <1>5. kind # "copy"
    BY <1>1 DEF WInv, IInv, Core, KindsMatch, Copying
  <1>4. CompletedIsComplete' /\ OnlyRealFailures'
    BY <1>1, <1>3, <1>5 DEF CompletedIsComplete, OnlyRealFailures, Original, Selected, Exists, Unseen
  <1> QED BY <1>1, <1>4, EndKeepsOrdered

LEMMA OtherProgramKeepsOrdered ==
    ASSUME ~SameDir, WInv, IInv', OtherProgram PROVE Ordered'
  <1> USE DEF trees, walk, xfer, progress, history
  <1>1. PICK p \in Path :
            /\ src[p].kind \in {"none", "file"} /\ Parent[p] \in Dirs(src)
            /\ src' = [src EXCEPT ![p] = File("edited", Chunks)] \/ src' = [src EXCEPT ![p] = Absent]
            /\ dst' = dst /\ touched' = touched \cup {p}
    BY DEF OtherProgram
  <1>2. UNCHANGED <<kind, pc, todo, plan, idx, transport, orig, copied, missed, cut, outcome, faulted>> /\ pc # "done"
    BY DEF OtherProgram
  <1>3. /\ \A q \in Path : q # p => src'[q] = src[q]
        /\ \A q : q \notin touched' => q \notin touched /\ q # p
        /\ \A q : Original(q)' => Original(q) /\ q # p
    BY <1>1, <1>2 DEF Original, WInv, IInv, TypeOK
  <1>4. WellFormed(src')
    <2>1. ASSUME NEW q \in Path, Exists(src', q), Parent[q] # Root PROVE src'[Parent[q]].kind = "dir"
      <3>1. Parent[q] \in Path
        BY <2>1, PathAssumption
      <3>2. src[Parent[q]].kind = "dir"
        <4>1. CASE q = p
          BY <1>1, <2>1, <4>1 DEF Dirs
        <4>2. CASE q # p
          BY <1>3, <2>1, <4>2 DEF WInv, Ordered, WellFormed, Dirs, Exists
        <4> QED BY <4>1, <4>2
      <3>3. Parent[q] # p
        BY <1>1, <3>2
      <3> QED BY <1>3, <3>1, <3>2, <3>3
    <2> QED BY <2>1, PathAssumption DEF WellFormed, Dirs
  <1>5. PathsOnce' /\ ParentsFirst' /\ CopiedSoFar'
    <2>1. Once(plan)' = Once(plan) /\ Once(todo)' = Once(todo) /\ PlannedPaths' = PlannedPaths
          /\ TodoPaths' = TodoPaths /\ Expanded' = Expanded
      BY <1>2 DEF Once, PlannedPaths, TodoPaths, Expanded, PostOf
    <2>2. PathsOnce'
      BY <1>2, <2>1 DEF WInv, Ordered, PathsOnce
    <2>3. ParentsFirst' /\ CopiedSoFar'
      BY <1>1, <1>2 DEF WInv, Ordered, ParentsFirst, CopiedSoFar
    <2> QED BY <2>2, <2>3
  <1>6. TargetKnown' /\ AllArrived'
    BY <1>1, <1>2, <1>3 DEF WInv, Ordered, TargetKnown, AllArrived, Selected, Unseen, Unlisted, Item
  <1>7. \A i \in DOMAIN plan : plan[i].path \in Path
    <2>1. \A i \in DOMAIN plan : plan[i] \in [path : Path, kind : NodeKinds]
      BY LenProperties, ElementOfSeq DEF WInv, IInv, TypeOK
    <2> QED BY <2>1
  <1>8. DeletedSoFar'
    <2>1. PlannedPaths' = PlannedPaths /\ TodoPaths' = TodoPaths
      BY <1>2 DEF PlannedPaths, TodoPaths
    <2>2. pc \in Deleting => \A i \in DOMAIN plan : i < idx /\ plan[i].path \notin touched' => ~Exists(src', plan[i].path)
      BY <1>3, <1>7 DEF WInv, Ordered, DeletedSoFar, Exists
    <2> QED BY <1>2, <2>1, <2>2 DEF WInv, Ordered, DeletedSoFar
  <1>9. RenamedSoFar'
    <2>1. PlannedPaths' = PlannedPaths
      BY <1>2 DEF PlannedPaths
    <2> QED BY <1>2, <1>3, <2>1 DEF WInv, Ordered, RenamedSoFar, Exists
  <1>10. ChildrenFirst' /\ SourcesThere'
    BY <1>1 DEF ChildrenFirst, SourcesThere
  <1>11. outcome' = "none" /\ CompletedIsComplete' /\ OnlyRealFailures'
    BY <1>2, StillRunning
  <1>12. HiddenLeft'
    <2>1. PlannedPaths' = PlannedPaths /\ TodoPaths' = TodoPaths
      BY <1>2 DEF PlannedPaths, TodoPaths
    <2>2. \A q : Unlisted(q)' <=> Unlisted(q)
      BY DEF Unlisted
    <2>3. \A q \in Path : Original(q)' => Original(q) /\ src'[q] = src[q]
      BY <1>3
    <2> QED BY <1>2, <2>1, <2>2, <2>3 DEF WInv, Ordered, HiddenLeft
  <1>13. missed' # {} => faulted'
    BY <1>2 DEF WInv, Ordered
  <1> QED BY <1>4, <1>5, <1>6, <1>8, <1>9, <1>10, <1>11, <1>12, <1>13, <1>2 DEF Ordered

\* The steps that change neither a tree nor the plan.
LEMMA QuietStepsKeepOrdered ==
    ASSUME WInv, VfsFails \/ Cancel \/ UNCHANGED vars PROVE Ordered'
  <1> USE DEF trees, walk, xfer, progress, history, End
  <1>1. CASE VfsFails
    BY <1>1, GivingUpKeepsOrdered DEF VfsFails, Error
  <1>2. CASE Cancel \/ UNCHANGED vars
    <2>1. UNCHANGED <<src, dst, kind, pc, todo, plan, idx, transport, orig, touched, missed, copied, cut,
                      outcome, faulted>>
      BY <1>2 DEF Cancel, vars
    <2>2. PathsOnce'
      <3>1. Once(plan)' = Once(plan) /\ Once(todo)' = Once(todo) /\ PlannedPaths' = PlannedPaths
            /\ TodoPaths' = TodoPaths /\ Expanded' = Expanded
        BY <2>1 DEF Once, PlannedPaths, TodoPaths, Expanded, PostOf
      <3> QED BY <2>1, <3>1 DEF WInv, Ordered, PathsOnce
    <2>3. WellFormed(src)' /\ ParentsFirst' /\ CopiedSoFar' /\ TargetKnown' /\ AllArrived'
      BY <2>1 DEF WInv, Ordered, WellFormed, ParentsFirst, CopiedSoFar, TargetKnown, AllArrived,
                  Original, Selected, Unseen, Unlisted, Exists, Dirs, Item
    <2>4. DeletedSoFar' /\ HiddenLeft' /\ RenamedSoFar' /\ ChildrenFirst' /\ SourcesThere'
      BY <2>1 DEF WInv, Ordered, DeletedSoFar, HiddenLeft, RenamedSoFar, ChildrenFirst, SourcesThere,
                  PlannedPaths, TodoPaths, Original, Unlisted, Exists, Named, Children
    <2>5. (pc # "done" => outcome = "none")' /\ CompletedIsComplete' /\ OnlyRealFailures'
          /\ (missed # {} => faulted)'
      BY <2>1 DEF WInv, Ordered, CompletedIsComplete, OnlyRealFailures, Original, Selected, Unseen, Unlisted,
                  Exists, Children, Item
    <2> QED BY <2>2, <2>3, <2>4, <2>5 DEF Ordered
  <1> QED BY <1>1, <1>2

LEMMA InitOrdered == ~SameDir /\ Init => Ordered
  <1> SUFFICES ASSUME ~SameDir, Init PROVE Ordered
    OBVIOUS
  <1>1. /\ src = orig /\ touched = {} /\ missed = {} /\ copied = {} /\ idx = 1 /\ outcome = "none" /\ transport = "none"
        /\ pc = FirstPc(kind) /\ kind \in JobKinds /\ WellFormed(src) /\ \A p \in Items : Exists(src, p)
        /\ dst \in [Path -> {Absent, Leaf("dir"), File("old", Chunks)}]
    BY ModeAssumption DEF Init, InitialTrees
  <1>2. Items \subseteq Path /\ \A p \in Items : Parent[p] = Root
    BY PathAssumption
  <1>3. TargetKnown
    <2>1. \A p \in Path : dst[p] \in {Absent, Leaf("dir"), File("old", Chunks)}
      BY <1>1
    <2>2. Leaf("dir").data = "blank" /\ Absent.data = "blank" /\ File("old", Chunks).data = "old"
          /\ Absent.kind = "none" /\ File("old", Chunks).kind = "file"
      BY NodeFacts DEF Leaf, Absent, File, NodeKinds
    <2>3. \A p \in Path : (dst[p].kind = "dir" => dst[p] = Leaf("dir")) /\ dst[p].data # "orig"
      BY <2>1, <2>2
    <2> QED BY <1>1, <2>3 DEF TargetKnown, FirstPc
  <1>4. CASE kind # "rename"
    <2>1. todo \in Listings(Visits(Items)) /\ plan = <<>> /\ pc \in {"copyWalk", "delWalk"}
      BY <1>1, <1>4 DEF Init, FirstPc
    <2>2. /\ PathsOf(todo) = Items /\ Once(todo)
          /\ \A i \in DOMAIN todo : todo[i].path \in Items /\ ~todo[i].post
      BY <1>2, <2>1, VisitOnce
    <2>3. PlannedPaths = {} /\ TodoPaths = Items /\ DOMAIN plan = {} /\ Once(plan)
      BY <2>1, <2>2 DEF PlannedPaths, TodoPaths, PathsOf, Once
    <2>4. PathsOnce /\ ParentsFirst
      BY <1>2, <2>1, <2>2, <2>3 DEF PathsOnce, ParentsFirst
    <2>5. CopiedSoFar /\ DeletedSoFar /\ RenamedSoFar /\ AllArrived
      BY <1>1, <2>1, <2>3 DEF CopiedSoFar, DeletedSoFar, RenamedSoFar, AllArrived, FirstPc, Deleting, Renaming
    <2>6. ChildrenFirst /\ SourcesThere
      BY <1>1, <2>1, <2>2, <2>3 DEF ChildrenFirst, SourcesThere, Renaming
    <2>7. HiddenLeft
      BY <1>1, <2>3, UnlistedFacts DEF HiddenLeft
    <2> QED BY <1>1, <1>3, <2>4, <2>5, <2>6, <2>7 DEF Ordered, CompletedIsComplete, OnlyRealFailures
  <1>5. CASE kind = "rename"
    <2> DEFINE P == {[path |-> p, kind |-> src[p].kind] : p \in Items}
    <2>1. IsFiniteSet(P)
      <3>1. IsFiniteSet(Items)
        BY <1>2, PathAssumption, FS_Subset
      <3> DEFINE g == [p \in Items |-> [path |-> p, kind |-> src[p].kind]]
      <3>2. g \in Surjection(Items, P)
        BY DEF Surjection
      <3> QED BY <3>1, <3>2, FS_Surjection
    <2>2. plan \in Listings(P) /\ pc = "renCheck"
      BY <1>1, <1>5 DEF Init, FirstPc
    <2>3. /\ plan \in Seq(P) /\ DOMAIN plan = 1..Len(plan)
          /\ \A e \in P : \E i \in DOMAIN plan : plan[i] = e
      BY <2>1, <2>2, ListingFacts
    <2>4. \A i \in DOMAIN plan : plan[i] \in P
      BY <2>3, ElementOfSeq
    <2>5. \A i \in DOMAIN plan : plan[i].path \in Items
      BY <2>4
    <2>6. \A p \in Items : \E i \in DOMAIN plan : plan[i].path = p
      <3> SUFFICES ASSUME NEW p \in Items PROVE \E i \in DOMAIN plan : plan[i].path = p
        OBVIOUS
      <3>1. PICK i \in DOMAIN plan : plan[i] = [path |-> p, kind |-> src[p].kind]
        BY <2>3
      <3> QED BY <3>1
    <2>7. PlannedPaths = Items
      BY <2>5, <2>6 DEF PlannedPaths
    <2>8. \A i \in DOMAIN plan : ~(i < idx)
      BY <1>1, <2>3
    <2>9. RenamedSoFar /\ SourcesThere /\ CopiedSoFar
      BY <1>1, <2>2, <2>5, <2>7, <2>8 DEF RenamedSoFar, SourcesThere, CopiedSoFar, Copying
    <2>10. PathsOnce /\ ParentsFirst /\ AllArrived /\ DeletedSoFar /\ HiddenLeft /\ ChildrenFirst
      BY <2>2 DEF PathsOnce, ParentsFirst, AllArrived, DeletedSoFar, HiddenLeft, ChildrenFirst, Copying, Deleting
    <2> QED BY <1>1, <1>3, <2>9, <2>10 DEF Ordered, CompletedIsComplete, OnlyRealFailures
  <1> QED BY <1>4, <1>5

LEMMA NextKeepsWInv == Sound /\ WInv /\ [Next]_vars => WInv'
  <1> SUFFICES ASSUME ~SameDir, WInv, [Next]_vars PROVE WInv'
    BY DEF Sound
  <1>1. IInv'
    BY NextKeepsIInv DEF WInv
  <1>2. CASE WalkForCopy \/ StartCopying \/ CopyNext \/ CopyDir \/ ChmodFails \/ CopyLink
    BY <1>1, <1>2, WalkForCopyKeepsOrdered, CopyPlanStepsKeepOrdered, CopyDirKeepsOrdered,
       ChmodFailsKeepsOrdered, CopyLinkKeepsOrdered DEF WInv
  <1>3. CASE \/ BeginTransfer \/ OpenSource \/ CreateDest \/ ReadChunk \/ WriteChunk
             \/ TransferDone \/ TransferCut \/ TransferCancelled
    BY <1>1, <1>3, CopyPlanStepsKeepOrdered, OpenSourceKeepsOrdered, CreateDestKeepsOrdered,
       ReadChunkKeepsOrdered, WriteChunkKeepsOrdered, TransferEndsOrdered DEF WInv
  <1>4. CASE CopyFinished \/ WalkForDelete \/ StartDeleting \/ DeleteNext \/ DeleteItem
    BY <1>1, <1>4, CopyFinishedKeepsOrdered, WalkForDeleteKeepsOrdered, DeletePlanStepsKeepOrdered,
       DeleteItemKeepsOrdered DEF WInv
  <1>5. CASE RenameNext \/ RenameItem \/ JobFinished \/ OtherProgram
    BY <1>1, <1>5, RenameNextKeepsOrdered, RenameItemKeepsOrdered, JobFinishedKeepsOrdered,
       OtherProgramKeepsOrdered DEF WInv
  <1>6. CASE VfsFails \/ Cancel \/ UNCHANGED vars
    BY <1>1, <1>6, QuietStepsKeepOrdered DEF WInv
  <1> QED
    BY <1>2, <1>3, <1>4, <1>5, <1>6 DEF Next, JobStep, WriteAllRetries, Terminated

LEMMA WInvHolds == Sound => (Spec => []WInv)
  <1>1. CASE Sound
    <2>1. Init => WInv
      BY <1>1, InitTyped, InitCore, InitOrdered DEF WInv, IInv, Sound
    <2>2. WInv /\ [Next]_vars => WInv'
      BY <1>1, NextKeepsWInv
    <2>3. Spec => []WInv
      BY <2>1, <2>2, PTL DEF Spec
    <2> QED BY <2>3
  <1> QED BY <1>1

\* A job that reports Completed has done all of it, whatever the tree: nothing
\* selected has been left out of a walk but what the listings passed over,
\* nothing skipped by the index or left behind, and what was copied is whole
\* unless the agent said so of a file that is not.
THEOREM CompletedIsCompleteTheorem == Sound => (Spec => []CompletedIsComplete)
  <1>1. WInv => CompletedIsComplete
    BY DEF WInv, Ordered
  <1>2. CASE Sound
    <2>1. Spec => []WInv
      BY <1>2, WInvHolds
    <2>2. Spec => []CompletedIsComplete
      BY <1>1, <2>1, PTL
    <2> QED BY <2>2
  <1> QED BY <1>2

\* A job never fails by its own doing: deleting never meets a directory that
\* still has entries, but for a name that is not UTF-8 or an entry that a listing
\* could not read, and no entry is created before its directory, or twice.
THEOREM OnlyRealFailuresTheorem == Sound => (Spec => []OnlyRealFailures)
  <1>1. WInv => OnlyRealFailures
    BY DEF WInv, Ordered
  <1>2. CASE Sound
    <2>1. Spec => []WInv
      BY <1>2, WInvHolds
    <2>2. Spec => []OnlyRealFailures
      BY <1>1, <2>1, PTL
    <2> QED BY <2>2
  <1> QED BY <1>2

-----------------------------------------------------------------------------
(* A move between backends implements its contract.                        *)

IsMove == kind = "moveCross"
Moving == WInv /\ kind = "moveCross"

\* A tracked file has arrived or is still at the source.
LEMMA TrackedPlaces ==
    ASSUME Moving, NEW p \in Path
    PROVE  /\ Tracked(p) => WhereOf(p) \in {"source", "both", "target"}
           /\ ~Tracked(p) => WhereOf(p) = "foreign"
           /\ Tracked(p) => orig[p] = File("orig", Chunks)
  <1>1. Tracked(p) => orig[p] = File("orig", Chunks)
    <2>1. orig[p] \in {Absent, Leaf("dir"), Leaf("link"), File("orig", Chunks)}
      BY DEF Moving, WInv, IInv, Core, OrigIsTree
    <2> QED BY <2>1, NodeFacts DEF NodeKinds, Tracked
  <1>2. Tracked(p) /\ ~Exists(src, p) => dst[p] = orig[p]
    BY DEF Moving, WInv, IInv, Core, NothingLost, Tracked
  <1> QED BY <1>1, <1>2 DEF WhereOf

\* A step that moves no file is a stutter of the contract.
LEMMA SamePlaces ==
    ASSUME \A p \in Path : WhereOf(p)' = WhereOf(p)
    PROVE  FilePlaces' = FilePlaces
  BY DEF FilePlaces

\* A step that moves one file changes its place only.
LEMMA OneMoves ==
    ASSUME NEW p \in Path, \A q \in Path : q # p => WhereOf(q)' = WhereOf(q)
    PROVE  FilePlaces' = [FilePlaces EXCEPT ![p] = WhereOf(p)']
  BY DEF FilePlaces

\* Files whose ends and history are untouched stay where they are.
LEMMA WhereSame ==
    ASSUME NEW p \in Path, UNCHANGED <<orig, touched, missed, cut>>, src'[p] = src[p], dst'[p] = dst[p]
    PROVE  WhereOf(p)' = WhereOf(p)
  BY DEF WhereOf, Tracked, Original, Selected, Unseen, Unlisted, Exists

LEMMA TreesSame ==
    ASSUME UNCHANGED <<src, dst, orig, touched, missed, cut>>
    PROVE  FilePlaces' = FilePlaces
  <1>1. \A p \in Path : WhereOf(p)' = WhereOf(p)
    BY WhereSame
  <1> QED BY <1>1, SamePlaces

\* The contract's Disown, spelled out.
Disowned == \E gone \in SUBSET Path :
                FilePlaces' = [f \in Path |-> IF f \in gone THEN "foreign" ELSE FilePlaces[f]]

\* A step that only gives up on files, and leaves the others alone.
LEMMA GivenUp ==
    ASSUME UNCHANGED orig,
           \A q \in Path : Tracked(q)' => Tracked(q) /\ src'[q] = src[q] /\ dst'[q] = dst[q]
    PROVE  Disowned
  <1> DEFINE gone == {q \in Path : ~Tracked(q)'}
  <1>1. ASSUME NEW q \in Path PROVE WhereOf(q)' = IF q \in gone THEN "foreign" ELSE WhereOf(q)
    BY DEF WhereOf, Exists
  <1>2. FilePlaces' = [f \in Path |-> IF f \in gone THEN "foreign" ELSE FilePlaces[f]]
    BY <1>1 DEF FilePlaces
  <1> HIDE DEF gone
  <1>3. gone \in SUBSET Path
    BY DEF gone
  <1> QED BY <1>2, <1>3 DEF Disowned

\* The step a job takes with a directory or a link moves no file.
LEMMA OtherItemsStay ==
    ASSUME ~SameDir, Moving, CopyDir \/ ChmodFails \/ CopyLink PROVE FilePlaces' = FilePlaces
  <1> USE DEF trees, walk, xfer, progress, history
  <1>1. /\ pc = "copyApply" /\ idx <= Len(plan) /\ Item.kind \in {"dir", "link"}
        /\ UNCHANGED <<src, orig, touched, missed, cut>>
        /\ dst' = dst \/ \E n \in Node : dst' = [dst EXCEPT ![Item.path] = n]
    BY NodeFacts DEF CopyDir, ChmodFails, CopyLink, PutDst, AtItem, NodeKinds
  <1>2. Item.path \in Path /\ dst \in [Path -> Node]
    BY <1>1, ItemTyped DEF Moving, WInv, IInv, TypeOK
  <1>3. \A q \in Path : q # Item.path => dst'[q] = dst[q]
    BY <1>1, <1>2
  <1>4. ~Tracked(Item.path)
    BY <1>1, ItemKind DEF Moving, WInv, Tracked, Original, Copying
  <1>5. ASSUME NEW q \in Path PROVE WhereOf(q)' = WhereOf(q)
    <2>1. CASE q = Item.path
      <3>1. \A p \in Path : ~Tracked(p)' /\ ~Tracked(p) => WhereOf(p)' = WhereOf(p)
        BY DEF WhereOf
      <3>2. Tracked(q)' <=> Tracked(q)
        BY <1>1 DEF Tracked, Original, Selected, Unseen, Unlisted
      <3> QED BY <1>4, <2>1, <3>1, <3>2
    <2>2. CASE q # Item.path
      BY <1>1, <1>3, <2>2, WhereSame
    <2> QED BY <2>1, <2>2
  <1> QED BY <1>5, SamePlaces

\* Truncating a file at the destination moves no file: it had not arrived.
LEMMA CreateStays ==
    ASSUME ~SameDir, Moving, CreateDest PROVE FilePlaces' = FilePlaces
  <1> USE DEF trees, walk, xfer, progress, history
  <1> DEFINE p == Item.path
  <1>1. CASE UNCHANGED dst
    <2>1. UNCHANGED <<src, dst, orig, touched, missed, cut>>
      BY <1>1 DEF CreateDest, PutDst
    <2> QED BY <2>1, TreesSame
  <1>2. CASE dst' # dst
    <2>1. /\ pc = "create" /\ idx <= Len(plan) /\ UNCHANGED <<src, orig, touched, missed, cut>>
          /\ dst' = [dst EXCEPT ![p] = File("blank", 0)]
      BY <1>2 DEF CreateDest, PutDst, AtItem
    <2>2. p \in Path /\ p \notin copied /\ dst \in [Path -> Node]
      BY <2>1, ItemInHand DEF Moving, WInv, IInv, TypeOK, Copying
    <2>3. dst'[p] = File("blank", 0) /\ \A q \in Path : q # p => dst'[q] = dst[q]
      BY <2>1, <2>2
    <2>4. dst[p].data # "orig"
      BY <2>1, <2>2 DEF Moving, WInv, Ordered, TargetKnown, Copying
    <2>5. Tracked(p) => orig[p].data = "orig"
      BY <2>2, TrackedPlaces DEF File
    <2>6. File("blank", 0).data = "blank"
      BY DEF File
    <2>7. Tracked(p) => dst[p] # orig[p] /\ dst'[p] # orig[p]
      BY <2>3, <2>4, <2>5, <2>6
    <2>8. ASSUME NEW q \in Path PROVE WhereOf(q)' = WhereOf(q)
      <3>1. CASE q = p
        <4>1. Tracked(q)' <=> Tracked(q)
          BY <2>1 DEF Tracked, Original, Selected, Unseen, Unlisted
        <4>2. src'[q] = src[q] /\ orig'[q] = orig[q]
          BY <2>1
        <4>3. Tracked(q) => dst[q] # orig[q] /\ dst'[q] # orig[q]
          BY <2>7, <3>1
        <4> QED BY <4>1, <4>2, <4>3 DEF WhereOf, Exists
      <3>2. CASE q # p
        BY <2>1, <2>3, <3>2, WhereSame
      <3> QED BY <3>1, <3>2
    <2> QED BY <2>8, SamePlaces
  <1> QED BY <1>1, <1>2

\* The last chunk of a file is its arrival.
LEMMA WriteArrives ==
    ASSUME ~SameDir, Moving, WriteChunk
    PROVE  FilePlaces' = FilePlaces \/ \E f \in Path : FilePlaces[f] = "source" /\ FilePlaces' = [FilePlaces EXCEPT ![f] = "both"]
  <1> USE DEF trees, walk, xfer, progress, history
  <1> DEFINE p == Item.path
  <1>1. /\ pc = "pump" /\ idx <= Len(plan) /\ held.len > 0
        /\ UNCHANGED <<src, orig, touched, missed, cut>>
        /\ \E n : dst' = [dst EXCEPT ![p] = n]
    BY DEF WriteChunk, PutDst, AtItem
  <1>2. p \in Path /\ dst \in [Path -> Node] /\ pos \in Nat /\ held.len \in Nat
    BY <1>1, ItemTyped DEF Moving, WInv, IInv, TypeOK, Node
  <1>3. \A q \in Path : q # p => dst'[q] = dst[q]
    BY <1>1, <1>2
  <1>4. \A q \in Path : q # p => WhereOf(q)' = WhereOf(q)
    BY <1>1, <1>3, WhereSame
  <1>6. CASE ~Tracked(p)
    <2>1. ASSUME NEW q \in Path PROVE WhereOf(q)' = WhereOf(q)
      <3>1. Tracked(q)' <=> Tracked(q)
        BY <1>1 DEF Tracked, Original, Selected, Unseen, Unlisted
      <3>2. CASE q = p
        BY <1>6, <3>1, <3>2 DEF WhereOf
      <3> QED BY <1>4, <3>2
    <2> QED BY <2>1, SamePlaces
  <1>7. CASE Tracked(p)
    <2>1. /\ orig[p] = File("orig", Chunks) /\ Chunks \in Nat /\ p \notin touched
      BY <1>2, <1>7, TrackedPlaces, NodeFacts DEF Tracked, Original
    <2>2. pos <= Chunks /\ held.len <= pos /\ dst[p].len = pos - held.len
      BY <1>1, <2>1 DEF Moving, WInv, IInv, Core, TransferExact, File
    <2>5. dst[p] # orig[p]
      <3>1. orig[p].len = Chunks
        BY <2>1 DEF File
      <3> QED BY <1>1, <1>2, <2>1, <2>2, <3>1
    <2>6. Exists(src, p)
      <3>1. src[p] = orig[p]
        BY <1>1, <1>2, <2>1 DEF Moving, WInv, IInv, Core, SourceKnown, Copying
      <3> QED BY <1>7, <3>1 DEF Exists, Tracked
    <2>7. WhereOf(p) = "source"
      BY <1>7, <2>5, <2>6 DEF WhereOf
    <2>8. ASSUME NEW q \in Path, q = p PROVE WhereOf(q)' \in {"source", "both"}
      <3>1. Tracked(q)' /\ Exists(src, q)'
        BY <1>1, <1>7, <2>6, <2>8 DEF Tracked, Original, Selected, Unseen, Unlisted, Exists
      <3> QED BY <3>1 DEF WhereOf
    <2>9. PICK q \in Path : q = p
      BY <1>2
    <2>10. FilePlaces' = [FilePlaces EXCEPT ![q] = WhereOf(q)'] /\ FilePlaces[q] = "source" /\ FilePlaces = [FilePlaces EXCEPT ![q] = "source"]
      <3>1. \A r \in Path : r # q => WhereOf(r)' = WhereOf(r)
        BY <1>4, <2>9
      <3>2. FilePlaces[q] = "source"
        BY <2>7, <2>9 DEF FilePlaces
      <3>3. FilePlaces = [FilePlaces EXCEPT ![q] = "source"]
        BY <3>2 DEF FilePlaces
      <3> QED BY <3>1, <3>2, <3>3, OneMoves
    <2> QED BY <2>8, <2>9, <2>10
  <1> QED BY <1>6, <1>7

\* An original is deleted only when every tracked file has arrived.
LEMMA DeleteLeaves ==
    ASSUME ~SameDir, Moving, DeleteItem
    PROVE  \/ FilePlaces' = FilePlaces
           \/ /\ \A g \in Path : FilePlaces[g] # "source"
              /\ \E f \in Path : FilePlaces[f] = "both" /\ FilePlaces' = [FilePlaces EXCEPT ![f] = "target"]
  <1> USE DEF trees, walk, xfer, progress, history
  <1>1. CASE UNCHANGED src
    <2>1. UNCHANGED <<src, dst, orig, touched, missed, cut>>
      BY <1>1 DEF DeleteItem, DropSrc
    <2> QED BY <2>1, TreesSame
  <1>2. CASE src' # src
    <2>1. /\ pc = "delApply" /\ idx <= Len(plan) /\ CanRemove(src, Item.path, Item.kind)
          /\ src' = [src EXCEPT ![Item.path] = Absent] /\ UNCHANGED <<dst, orig, touched, missed, cut>>
      BY <1>2 DEF DeleteItem, DropSrc, AtItem
    <2>2. PICK p \in Path : p = Item.path
      BY <2>1, ItemTyped DEF Moving, WInv, IInv
    <2>3. src'[p] = Absent /\ Absent.kind = "none" /\ \A q \in Path : q # p => src'[q] = src[q]
      BY <2>1, <2>2, NodeFacts DEF Moving, WInv, IInv, TypeOK
    <2>4. Exists(src, p)
      BY <2>1, <2>2 DEF CanRemove, Exists
    <2>5. \A q \in Path : q # p => WhereOf(q)' = WhereOf(q)
      BY <2>1, <2>3, WhereSame
    <2>6. Tracked(p)' <=> Tracked(p)
      BY <2>1 DEF Tracked, Original, Selected, Unseen, Unlisted
    <2>7. CASE ~Tracked(p)
      <3>1. WhereOf(p)' = WhereOf(p)
        BY <2>6, <2>7 DEF WhereOf
      <3> QED BY <2>5, <3>1, SamePlaces
    <2>8. CASE Tracked(p)
      <3>1. ASSUME NEW g \in Path, Tracked(g) PROVE dst[g] = orig[g]
        <4>1. Original(g) /\ Selected(g) /\ orig[g].kind # "link" /\ ~Unseen(g) /\ ~Unlisted(g) /\ g \notin cut
          BY <3>1 DEF Tracked
        <4> QED BY <2>1, <4>1 DEF Moving, WInv, Ordered, AllArrived, Deleting
      <3>2. \A g \in Path : FilePlaces[g] # "source"
        BY <3>1 DEF FilePlaces, WhereOf
      <3>3. WhereOf(p) = "both"
        BY <2>4, <2>8, <3>1 DEF WhereOf
      <3>4. WhereOf(p)' = "target"
        <4>1. dst'[p] = orig'[p] /\ ~Exists(src', p)
          BY <2>1, <2>3, <2>8, <3>1 DEF Exists
        <4> QED BY <2>6, <2>8, <4>1 DEF WhereOf, Exists
      <3>5. FilePlaces' = [FilePlaces EXCEPT ![p] = "target"] /\ FilePlaces[p] = "both"
        BY <2>5, <3>3, <3>4, OneMoves DEF FilePlaces
      <3> QED BY <3>2, <3>5
    <2> QED BY <2>7, <2>8
  <1> QED BY <1>1, <1>2

\* Another program's change disowns the file it changes, a listing at fault what
\* it has left out, and an agent that misleads the job the file it has cut.
LEMMA OtherDisowns ==
    ASSUME ~SameDir, Moving, OtherProgram PROVE Disowned
  <1> USE DEF trees, walk, xfer, progress, history
  <1>1. PICK p \in Path :
            /\ src' = [src EXCEPT ![p] = File("edited", Chunks)] \/ src' = [src EXCEPT ![p] = Absent]
            /\ dst' = dst /\ touched' = touched \cup {p} /\ UNCHANGED <<orig, missed, cut>>
    BY DEF OtherProgram
  <1>2. \A q \in Path : Tracked(q)' => Tracked(q) /\ q # p
    BY <1>1 DEF Tracked, Original, Selected, Unseen, Unlisted
  <1>3. \A q \in Path : q # p => src'[q] = src[q] /\ dst'[q] = dst[q]
    BY <1>1 DEF Moving, WInv, IInv, TypeOK
  <1> QED BY <1>1, <1>2, <1>3, GivenUp

LEMMA ListingDisowns ==
    ASSUME WalkForCopy PROVE Disowned
  <1>1. UNCHANGED <<src, dst, orig, touched, cut>> /\ missed \subseteq missed'
    BY DEF WalkForCopy, trees
  <1>2. \A q \in Path : Unseen(q) => Unseen(q)'
    BY <1>1, UnseenStays
  <1>3. \A q \in Path : Tracked(q)' => Tracked(q)
    BY <1>1, <1>2 DEF Tracked, Original, Selected, Unlisted
  <1> QED BY <1>1, <1>3, GivenUp

LEMMA CutDisowns ==
    ASSUME ~SameDir, Moving, TransferCut PROVE Disowned
  <1> USE DEF trees, walk, xfer, progress, history
  <1>1. /\ UNCHANGED <<src, orig, touched, missed>> /\ cut' = cut \cup {Item.path}
        /\ dst' = dst \/ \E n : dst' = [dst EXCEPT ![Item.path] = n]
    BY DEF TransferCut, Transferred, PutDst
  <1>2. \A q \in Path : Tracked(q)' => Tracked(q) /\ q # Item.path
    BY <1>1 DEF Tracked, Original, Selected, Unseen, Unlisted
  <1>3. \A q \in Path : q # Item.path => dst'[q] = dst[q]
    BY <1>1 DEF Moving, WInv, IInv, TypeOK
  <1> QED BY <1>1, <1>2, <1>3, GivenUp

\* Every step of a move is a step of the contract, or changes no place.
LEMMA StepImplementsContract ==
    ASSUME Sound, Moving, [Next]_vars
    PROVE  [Contract!ContractNext]_FilePlaces
  <1>0. ~SameDir
    BY DEF Sound
  <1>2. CASE CopyDir \/ ChmodFails \/ CopyLink \/ CreateDest
    BY <1>0, <1>2, OtherItemsStay, CreateStays
  <1>3. CASE WriteChunk
    <2>1. FilePlaces' = FilePlaces \/ \E f \in Path : FilePlaces[f] = "source" /\ FilePlaces' = [FilePlaces EXCEPT ![f] = "both"]
      BY <1>0, <1>3, WriteArrives
    <2> QED BY <2>1 DEF Contract!ContractNext, Contract!Arrive, Contract!Move, FilePlaces
  <1>4. CASE DeleteItem
    <2>1. \/ FilePlaces' = FilePlaces
          \/ /\ \A g \in Path : FilePlaces[g] # "source"
             /\ \E f \in Path : FilePlaces[f] = "both" /\ FilePlaces' = [FilePlaces EXCEPT ![f] = "target"]
      BY <1>0, <1>4, DeleteLeaves
    <2> QED BY <2>1 DEF Contract!ContractNext, Contract!Leave, Contract!Move, FilePlaces
  <1>5. CASE OtherProgram \/ WalkForCopy \/ TransferCut
    <2>1. Disowned
      BY <1>0, <1>5, OtherDisowns, ListingDisowns, CutDisowns
    <2> QED BY <2>1 DEF Disowned, Contract!ContractNext, Contract!Disown
  <1>6. CASE RenameItem
    <2>1. pc = "renApply"
      BY <1>6 DEF RenameItem, AtItem
    <2> QED BY <2>1 DEF Moving, WInv, IInv, Core, KindsMatch, Copying, Deleting
  <1>7. CASE \/ StartCopying \/ CopyNext \/ BeginTransfer \/ OpenSource \/ ReadChunk \/ TransferDone
             \/ TransferCancelled \/ CopyFinished
    <2>1. UNCHANGED <<src, dst, orig, touched, missed, cut>>
      BY <1>7, Zenon DEF StartCopying, CopyNext, BeginTransfer, OpenSource, ReadChunk, TransferDone,
                         Transferred, TransferCancelled, CopyFinished, trees, history
    <2> QED BY <2>1, TreesSame
  <1>8. CASE \/ WalkForDelete \/ StartDeleting \/ DeleteNext \/ RenameNext \/ JobFinished
             \/ VfsFails \/ Cancel \/ UNCHANGED vars
    <2>1. UNCHANGED <<src, dst, orig, touched, missed, cut>>
      BY <1>8, Zenon DEF WalkForDelete, StartDeleting, DeleteNext, RenameNext, JobFinished,
                         VfsFails, Cancel, vars, trees, history
    <2> QED BY <2>1, TreesSame
  <1> QED
    BY <1>2, <1>3, <1>4, <1>5, <1>6, <1>7, <1>8 DEF Next, JobStep, WriteAllRetries, Terminated

\* Seen through where each file is, a move between backends is a behaviour of
\* MoveContract: files arrive, and only when all have arrived do they leave.  It
\* speaks of the files the listings show and the agent has not misreported.
THEOREM MoveKeepsContract == Sound /\ Kinds = {"moveCross"} => (Spec => ImplementsMoveContract)
  <1>1. ASSUME Sound, Kinds = {"moveCross"} PROVE Init => Contract!ContractInit /\ IsMove
    <2> SUFFICES ASSUME Init PROVE FilePlaces \in [Path -> {"source", "foreign"}] /\ IsMove
      BY DEF Contract!ContractInit, FilePlaces
    <2>1. kind = "moveCross" /\ src = orig
      BY <1>1 DEF Init
    <2>2. ASSUME NEW p \in Path PROVE WhereOf(p) \in {"source", "foreign"}
      <3>1. dst[p] \in {Absent, Leaf("dir"), File("old", Chunks)}
        BY <1>1 DEF Init, InitialTrees, Sound
      <3>2. orig[p] \in {Absent, Leaf("dir"), Leaf("link"), File("orig", Chunks)}
        BY <2>1 DEF Init, InitialTrees
      <3>3. Tracked(p) => orig[p] = File("orig", Chunks) /\ Exists(src, p)
        BY <2>1, <3>2, NodeFacts DEF Tracked, Exists, NodeKinds
      <3>4. File("orig", Chunks) \notin {Absent, Leaf("dir"), File("old", Chunks)}
        <4>1. File("orig", Chunks).data = "orig" /\ Absent.data = "blank" /\ Leaf("dir").data = "blank"
              /\ File("old", Chunks).data = "old"
          BY DEF File, Absent, Leaf
        <4> QED BY <4>1
      <3> QED BY <3>1, <3>3, <3>4 DEF WhereOf
    <2> QED BY <2>1, <2>2 DEF FilePlaces, IsMove
  <1>2. IsMove /\ [Next]_vars => IsMove'
    <2> SUFFICES ASSUME [Next]_vars PROVE kind' = kind
      BY DEF IsMove
    <2> USE DEF trees, walk, xfer, progress, history
    <2>1. CASE \/ WalkForCopy \/ StartCopying \/ CopyNext \/ CopyDir \/ ChmodFails \/ CopyLink
               \/ BeginTransfer \/ OpenSource
      BY <2>1, Zenon DEF WalkForCopy, StartCopying, CopyNext, CopyDir, ChmodFails, CopyLink, BeginTransfer,
                         OpenSource
    <2>2. CASE \/ CreateDest \/ ReadChunk \/ WriteChunk \/ TransferDone \/ TransferCut
               \/ TransferCancelled \/ CopyFinished \/ WalkForDelete
      BY <2>2, Zenon DEF CreateDest, ReadChunk, WriteChunk, TransferDone, TransferCut, Transferred,
                         TransferCancelled, CopyFinished, WalkForDelete
    <2>3. CASE StartDeleting \/ DeleteNext \/ DeleteItem \/ RenameNext \/ RenameItem \/ JobFinished
      BY <2>3, Zenon DEF StartDeleting, DeleteNext, DeleteItem, RenameNext, RenameItem, JobFinished
    <2>4. CASE VfsFails \/ Cancel \/ OtherProgram \/ UNCHANGED vars
      BY <2>4, Zenon DEF VfsFails, Cancel, OtherProgram, vars
    <2> QED BY <2>1, <2>2, <2>3, <2>4 DEF Next, JobStep, WriteAllRetries, Terminated
  <1>3. CASE Sound /\ Kinds = {"moveCross"}
    <2>1. WInv /\ IsMove /\ [Next]_vars =>
              [Contract!ContractNext]_FilePlaces
      BY <1>3, StepImplementsContract DEF Moving, IsMove
    <2>2. Spec => []WInv
      BY <1>3, WInvHolds
    <2>3. Init => Contract!ContractInit /\ IsMove
      BY <1>1, <1>3
    <2>4. Spec => ImplementsMoveContract
      BY <1>2, <2>1, <2>2, <2>3, PTL DEF Spec, ImplementsMoveContract, Contract!ContractSpec
    <2> QED BY <2>4
  <1> QED BY <1>3

=============================================================================
