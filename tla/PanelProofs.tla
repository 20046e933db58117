---------------------------- MODULE PanelProofs ----------------------------
(***************************************************************************)
(* Theorems about a panel, for every number of entries and of rows, and    *)
(* about the index of an archive in which a panel browses, for any archive.*)
(***************************************************************************)
EXTENDS Panel, ArchiveIndex, SequenceTheorems, WellFoundedInduction, TLAPS

\* What clamp_cursor makes of the cursor in a listing of n entries.
LEMMA ClampFits ==
    ASSUME NEW n \in Nat, cursor \in Nat
    PROVE  /\ ClampedCursor(n) \in Nat
           /\ ClampedCursor(n) < n \/ (n = 0 /\ ClampedCursor(n) = 0)
  BY DEF ClampedCursor

\* What a frame's new offset is good for.
LEMMA ScrolledFits ==
    ASSUME NEW n \in Nat, NEW h \in Nat, NEW c \in Nat, NEW o \in Nat,
           entries = n, cursor = c, scroll_offset = o, c < n \/ (n = 0 /\ c = 0)
    PROVE  /\ Scrolled(h) \in Nat
           /\ n > 0 /\ h > 0 => Scrolled(h) <= c /\ c < Scrolled(h) + h
           /\ h > 0 => Scrolled(h) = 0 \/ Scrolled(h) + h <= n
  <1>1. CASE h = 0
    BY <1>1 DEF Scrolled
  <1>2. CASE h > 0
    <2>1. /\ Followed(h) \in Nat
          /\ Followed(h) <= c
          /\ c < Followed(h) + h
      BY <1>2 DEF Followed
    <2>2. Greatest(n - h, 0) \in Nat
      BY DEF Greatest
    <2>3. Scrolled(h) = Least(Followed(h), Greatest(n - h, 0))
      BY <1>2 DEF Scrolled
    <2> QED
      BY <1>2, <2>1, <2>2, <2>3 DEF Least, Greatest
  <1> QED
    BY <1>1, <1>2

Inv == TypeOK /\ CursorVisible /\ NoBlankRows

LEMMA InvInit == Init => Inv
  <1> SUFFICES ASSUME Init
               PROVE  Inv
    OBVIOUS
  <1>1. entries \in Sizes /\ entries \in Nat /\ cursor = 0
    BY SizesAssumption DEF Init
  <1>2. cursor < entries \/ (entries = 0 /\ cursor = 0)
    BY <1>1
  <1>3. drawn \in BOOLEAN /\ ~drawn
    BY DEF Init
  <1>4. cursor \in Nat /\ scroll_offset \in Nat /\ viewport_height \in Heights \cup {0}
    BY DEF Init
  <1> QED
    BY <1>1, <1>2, <1>3, <1>4 DEF Inv, TypeOK, CursorVisible, NoBlankRows

LEMMA InvNext == Inv /\ [Next]_vars => Inv'
  <1> SUFFICES ASSUME Inv, [Next]_vars
               PROVE  Inv'
    OBVIOUS
  <1>0. /\ entries \in Sizes /\ entries \in Nat /\ cursor \in Nat /\ scroll_offset \in Nat
        /\ viewport_height \in Heights \cup {0} /\ viewport_height \in Nat
        /\ cursor < entries \/ (entries = 0 /\ cursor = 0)
    BY SizesAssumption DEF Inv, TypeOK
  \* Between two frames only the cursor and the listing change, and nothing
  \* is said of what is on the screen.
  <1>a. ASSUME drawn' = FALSE, scroll_offset' = scroll_offset, viewport_height' = viewport_height,
               entries' \in Sizes, cursor' \in Nat,
               cursor' < entries' \/ (entries' = 0 /\ cursor' = 0)
        PROVE  Inv'
    BY <1>0, <1>a DEF Inv, TypeOK, CursorVisible, NoBlankRows
  <1>1. CASE MoveCursor
    <2>1. PICK delta \in Deltas :
             cursor' = IF entries = 0 THEN 0 ELSE Clamped(cursor + delta, 0, entries - 1)
      BY <1>1 DEF MoveCursor
    <2>2. delta \in Int
      BY <1>0, <2>1 DEF Deltas, Greatest
    <2>3. cursor' \in Nat /\ (cursor' < entries \/ (entries = 0 /\ cursor' = 0))
      BY <1>0, <2>1, <2>2 DEF Clamped, Least, Greatest
    <2> QED
      BY <1>0, <1>1, <1>a, <2>3 DEF MoveCursor
  <1>2. CASE Reload
    <2>1. entries' \in Nat /\ cursor' = ClampedCursor(entries')
      BY <1>2, SizesAssumption DEF Reload
    <2>2. cursor' \in Nat /\ (cursor' < entries' \/ (entries' = 0 /\ cursor' = 0))
      BY <1>0, <2>1, ClampFits
    <2> QED
      BY <1>2, <1>a, <2>2 DEF Reload
  <1>3. CASE ChangeDirectory
    <2>1. entries' \in Nat
      BY <1>3, SizesAssumption DEF ChangeDirectory
    <2>2. cursor' = 0 \/ (cursor' \in Nat /\ cursor' < entries')
      BY <1>3, SizesAssumption DEF ChangeDirectory
    <2>3. cursor' \in Nat /\ (cursor' < entries' \/ (entries' = 0 /\ cursor' = 0))
      BY <2>1, <2>2
    <2> QED
      BY <1>3, <1>a, <2>3 DEF ChangeDirectory
  <1>4. CASE SyncViewport
    <2>1. viewport_height' \in Heights /\ viewport_height' \in Nat
      BY <1>4, SizesAssumption DEF SyncViewport
    <2>2. scroll_offset' = Scrolled(viewport_height')
      BY <1>4 DEF SyncViewport
    <2>3. /\ Scrolled(viewport_height') \in Nat
          /\ entries > 0 /\ viewport_height' > 0 =>
                Scrolled(viewport_height') <= cursor
                /\ cursor < Scrolled(viewport_height') + viewport_height'
          /\ viewport_height' > 0 =>
                Scrolled(viewport_height') = 0
                \/ Scrolled(viewport_height') + viewport_height' <= entries
      BY <1>0, <2>1, ScrolledFits
    <2>4. entries' = entries /\ cursor' = cursor /\ drawn' = TRUE
      BY <1>4 DEF SyncViewport
    <2> QED
      BY <1>0, <2>1, <2>2, <2>3, <2>4 DEF Inv, TypeOK, CursorVisible, NoBlankRows
  <1>5. CASE UNCHANGED vars
    BY <1>5 DEF vars, Inv, TypeOK, CursorVisible, NoBlankRows
  <1> QED
    BY <1>1, <1>2, <1>3, <1>4, <1>5 DEF Next

\* move_cursor, clamp_cursor and select_by_name keep the cursor on an entry.
THEOREM TypeCorrect == Spec => []TypeOK
  <1>1. Inv => TypeOK
    BY DEF Inv
  <1> QED
    BY InvInit, InvNext, <1>1, PTL DEF Spec

\* sync_viewport keeps the cursor on the screen, whatever the listing and the
\* terminal have become since the last frame.
THEOREM CursorAlwaysVisible == Spec => []CursorVisible
  <1>1. Inv => CursorVisible
    BY DEF Inv
  <1> QED
    BY InvInit, InvNext, <1>1, PTL DEF Spec

\* sync_viewport never leaves blank trailing space while entries are hidden
\* above the viewport.
THEOREM NeverBlankRows == Spec => []NoBlankRows
  <1>1. Inv => NoBlankRows
    BY DEF Inv
  <1> QED
    BY InvInit, InvNext, <1>1, PTL DEF Spec

\* The new offset is the nearest one that shows what a frame has to show.
LEMMA ScrolledNearest ==
    ASSUME NEW n \in Nat \ {0}, NEW h \in Nat \ {0}, NEW c \in Nat, NEW o \in Nat, c < n,
           entries = n, cursor = c, scroll_offset = o, NEW other \in 0..n, Shows(other, h)
    PROVE  Distance(o, Scrolled(h)) <= Distance(o, other)
  <1>1. /\ other \in Nat /\ other <= c /\ c < other + h
        /\ other = 0 \/ other + h <= n
    BY DEF Shows
  <1>2. Scrolled(h) = Least(Followed(h), Greatest(n - h, 0))
    BY DEF Scrolled
  <1>3. CASE c < o
    <2>1. Followed(h) = c
      BY <1>3 DEF Followed
    <2>2. other <= Scrolled(h) /\ Scrolled(h) <= o /\ Scrolled(h) \in Nat
      BY <1>1, <1>2, <1>3, <2>1 DEF Least, Greatest
    <2> QED
      BY <1>1, <2>2 DEF Distance
  <1>4. CASE c >= o + h
    <2>1. Followed(h) = c + 1 - h
      BY <1>4 DEF Followed
    <2>2. o <= Scrolled(h) /\ Scrolled(h) <= other /\ Scrolled(h) \in Nat
      BY <1>1, <1>2, <1>4, <2>1 DEF Least, Greatest
    <2> QED
      BY <1>1, <2>2 DEF Distance
  <1>5. CASE o <= c /\ c < o + h
    <2>1. Followed(h) = o
      BY <1>5 DEF Followed
    <2>2. \/ Scrolled(h) = o
          \/ other <= Scrolled(h) /\ Scrolled(h) <= o /\ Scrolled(h) \in Nat
      BY <1>1, <1>2, <2>1 DEF Least, Greatest
    <2> QED
      BY <1>1, <2>2 DEF Distance
  <1> QED
    BY <1>3, <1>4, <1>5

\* sync_viewport follows the cursor and takes back blank rows with the smallest
\* scroll that will do.
THEOREM FramesScrollLeast == Spec => ScrollsLeast
  <1>1. Inv /\ [Next]_vars =>
           [entries > 0 /\ ~drawn /\ drawn' /\ viewport_height' > 0 =>
               \A other \in 0..entries :
                   Shows(other, viewport_height') =>
                       Distance(scroll_offset, scroll_offset') <= Distance(scroll_offset, other)]_vars
    <2> SUFFICES ASSUME Inv, Next, entries > 0, ~drawn, drawn', viewport_height' > 0,
                        NEW other \in 0..entries, Shows(other, viewport_height')
                 PROVE  Distance(scroll_offset, scroll_offset') <= Distance(scroll_offset, other)
      OBVIOUS
    <2>1. SyncViewport
      BY DEF Next, MoveCursor, Reload, ChangeDirectory
    <2>2. /\ entries \in Nat \ {0} /\ cursor \in Nat /\ scroll_offset \in Nat /\ cursor < entries
      BY SizesAssumption DEF Inv, TypeOK
    <2>3. viewport_height' \in Nat \ {0} /\ scroll_offset' = Scrolled(viewport_height')
      BY <2>1, SizesAssumption DEF SyncViewport
    <2>4. PICK h \in Nat \ {0} : h = viewport_height'
      BY <2>3
    <2>5. Distance(scroll_offset, Scrolled(h)) <= Distance(scroll_offset, other)
      BY <2>2, <2>4, ScrolledNearest
    <2> QED
      BY <2>3, <2>4, <2>5
  <1> QED
    BY <1>1, InvInit, InvNext, PTL DEF Spec, ScrollsLeast

-----------------------------------------------------------------------------
(* The index of an archive.                                                *)

LEMMA LeastExists ==
    ASSUME NEW T \in SUBSET Nat, T # {}
    PROVE  \E m \in T : \A n \in T : m <= n
<1> DEFINE Less == OpToRel(<, Nat)
<1>1. \A x, y \in Nat : <<x, y>> \in Less <=> x < y
  BY DEF OpToRel
<1>2. IsWellFoundedOn(Less, Nat)
  BY NatLessThanWellFounded
<1> HIDE DEF Less
<1>3. PICK m \in T : \A n \in T : <<n, m>> \notin Less
  BY <1>2, WFMin
<1>4. \A n \in T : ~ (n < m)
  BY <1>1, <1>3, Zenon
<1>5. \A n \in T : n \in Nat /\ m \in Nat
  OBVIOUS
<1>6. \A a, b \in Nat : ~ (a < b) => b <= a
  BY SMT
<1> QED BY <1>4, <1>5, <1>6, Zenon

\* A prefix of a path.
LEMMA PrefixFacts ==
    ASSUME NEW C, NEW p \in Seq(C), NEW n \in 1..Len(p)
    PROVE  SubSeq(p, 1, n) \in Seq(C) /\ Len(SubSeq(p, 1, n)) = n
<1>1. \A i \in 1..n : p[i] \in C
  BY ElementOfSeq
<1>2. n \in Int /\ 1 \in Int /\ 1 <= n
  OBVIOUS
<1> QED BY <1>1, <1>2, SubSeqProperties

LEMMA AncestorFacts ==
    ASSUME NEW C, NEW p \in Seq(C), NEW q \in Ancestors(p)
    PROVE  /\ q \in Seq(C)
           /\ Len(q) \in 1..(Len(p) - 1)
           /\ q = SubSeq(p, 1, Len(q))
<1>1. PICK n \in 1..(Len(p) - 1) : q = SubSeq(p, 1, n)
  BY DEF Ancestors
<1>2. n \in 1..Len(p)
  BY LenProperties
<1>3. SubSeq(p, 1, n) \in Seq(C) /\ Len(SubSeq(p, 1, n)) = n
  BY <1>2, PrefixFacts
<1> QED BY <1>1, <1>3

LEMMA PrefixOfPrefix ==
    ASSUME NEW C, NEW p \in Seq(C), NEW n \in 1..Len(p), NEW m \in 1..n
    PROVE  SubSeq(SubSeq(p, 1, n), 1, m) = SubSeq(p, 1, m)
<1>1. 1 \in 1..Len(p) /\ 1 \in 1..(n - 1 + 1) /\ m \in 1..(n - 1 + 1)
  BY LenProperties
<1>2. SubSeq(SubSeq(p, 1, n), 1, m) = SubSeq(p, 1 + 1 - 1, 1 + m - 1)
  BY <1>1, SubSeqOfSubSeq
<1>3. 1 + 1 - 1 = 1 /\ 1 + m - 1 = m
  OBVIOUS
<1> QED BY <1>2, <1>3

LEMMA AncestorOfAncestor ==
    ASSUME NEW C, NEW p \in Seq(C), NEW q \in Ancestors(p), NEW r \in Ancestors(q)
    PROVE  r \in Ancestors(p)
<1>1. q \in Seq(C) /\ Len(q) \in 1..(Len(p) - 1) /\ q = SubSeq(p, 1, Len(q))
  BY AncestorFacts
<1>2. Len(r) \in 1..(Len(q) - 1) /\ r = SubSeq(q, 1, Len(r))
  BY <1>1, AncestorFacts
<1>3. Len(p) \in Nat /\ Len(q) \in Nat
  BY <1>1, LenProperties
<1>4. Len(q) \in 1..Len(p) /\ Len(r) \in 1..Len(q) /\ Len(r) \in 1..(Len(p) - 1)
  BY <1>1, <1>2, <1>3
<1>5. r = SubSeq(p, 1, Len(r))
  BY <1>1, <1>2, <1>4, PrefixOfPrefix
<1> QED BY <1>4, <1>5 DEF Ancestors

\* Of two ancestors of a path the shorter one is an ancestor of the longer.
LEMMA AncestorsNest ==
    ASSUME NEW C, NEW p \in Seq(C), NEW q \in Ancestors(p), NEW r \in Ancestors(p), Len(q) < Len(r)
    PROVE  q \in Ancestors(r)
<1>1. Len(q) \in 1..(Len(p) - 1) /\ q = SubSeq(p, 1, Len(q))
  BY AncestorFacts
<1>2. r \in Seq(C) /\ Len(r) \in 1..(Len(p) - 1) /\ r = SubSeq(p, 1, Len(r))
  BY AncestorFacts
<1>3. Len(p) \in Nat
  BY LenProperties
<1>4. Len(r) \in 1..Len(p) /\ Len(q) \in 1..Len(r) /\ Len(q) \in 1..(Len(r) - 1)
  BY <1>1, <1>2, <1>3
<1>5. q = SubSeq(r, 1, Len(q))
  BY <1>1, <1>2, <1>4, PrefixOfPrefix
<1> QED BY <1>4, <1>5 DEF Ancestors

-----------------------------------------------------------------------------

\* An ancestor of an entry is in the tree: the entry nearest below it adds it.
LEMMA AncestorOfEntry ==
    ASSUME NEW C, NEW paths \in SUBSET Seq(C), NEW p \in paths, NEW q \in Ancestors(p)
    PROVE  q \in Tree(paths)
<1>1. CASE q \in paths
  BY <1>1 DEF Tree
<1>2. CASE q \notin paths
  <2> DEFINE Below == {r \in paths : q \in Ancestors(r)}
             Lens == {Len(r) : r \in Below}
  <2>1. Lens \in SUBSET Nat /\ Lens # {}
    <3>1. \A r \in Below : Len(r) \in Nat
      BY LenProperties
    <3>2. p \in Below
      OBVIOUS
    <3> QED BY <3>1, <3>2
  <2>2. PICK m \in Lens : \A n \in Lens : m <= n
    <3> HIDE DEF Lens
    <3> QED BY <2>1, LeastExists
  <2>3. PICK r \in Below : m = Len(r)
    BY <2>2
  <2>4. r \in paths /\ q \in Ancestors(r) /\ r \in Seq(C)
    BY <2>3
  <2>5. ASSUME NEW s \in Between(q, r), s \in paths
        PROVE  FALSE
    <3>1. s \in Ancestors(r) /\ Len(q) <= Len(s)
      BY <2>5 DEF Between
    <3>2. s \in Seq(C) /\ Len(s) \in 1..(Len(r) - 1) /\ s = SubSeq(r, 1, Len(s))
      BY <2>4, <3>1, AncestorFacts
    <3>3. Len(q) \in 1..(Len(r) - 1) /\ q = SubSeq(r, 1, Len(q))
      BY <2>4, AncestorFacts
    <3>4. Len(q) # Len(s)
      BY <1>2, <2>5, <3>2, <3>3
    <3>5. Len(r) \in Nat
      BY <2>4, LenProperties
    <3>6. Len(s) \in Nat /\ Len(q) \in Nat
      BY <3>2, <3>3
    <3>7. Len(s) < Len(r)
      BY <3>2, <3>5
    <3>8. Len(q) < Len(s) /\ Len(s) < Len(r)
      BY <3>1, <3>4, <3>6, <3>7
    <3>9. q \in Ancestors(s)
      BY <2>4, <3>1, <3>8, AncestorsNest
    <3>10. Len(s) \in Lens
      BY <2>5, <3>9
    <3>11. Len(r) <= Len(s)
      BY <2>2, <2>3, <3>10
    <3> HIDE DEF Below, Lens
    <3> QED BY <3>5, <3>6, <3>7, <3>11, SMT
  <2>6. Between(q, r) \cap paths = {}
    BY <2>5
  <2> QED BY <2>4, <2>6 DEF Tree, Synthesized
<1> QED BY <1>1, <1>2

LEMMA TreeIsOfPaths ==
    ASSUME NEW C, NEW paths \in SUBSET Seq(C), NEW p \in Tree(paths)
    PROVE  p \in Seq(C) /\ (p \in paths \/ \E r \in paths : p \in Ancestors(r))
<1>1. CASE p \in paths
  BY <1>1
<1>2. CASE p \notin paths
  <2>1. PICK r \in paths : p \in Ancestors(r)
    BY <1>2 DEF Tree, Synthesized
  <2>2. r \in Seq(C)
    OBVIOUS
  <2> QED BY <2>1, <2>2, AncestorFacts
<1> QED BY <1>1, <1>2

\* build_index leaves no gap: for every set of entries, whatever is listed lies
\* in directories that are listed, up to the root.
THEOREM NothingOutOfReach ==
    \A C : \A paths \in SUBSET (Seq(C) \ {Root}) : Navigable(paths)
<1> SUFFICES ASSUME NEW C, NEW paths \in SUBSET (Seq(C) \ {Root}), NEW p \in Tree(paths)
             PROVE  Ancestors(p) \subseteq Tree(paths) /\ parent_of(p) \in Tree(paths) \cup {Root}
  BY DEF Navigable
<1>1. paths \in SUBSET Seq(C)
  OBVIOUS
<1>2. p \in Seq(C) /\ (p \in paths \/ \E r \in paths : p \in Ancestors(r))
  BY <1>1, TreeIsOfPaths
<1>3. ASSUME NEW q \in Ancestors(p) PROVE q \in Tree(paths)
  <2>1. CASE p \in paths
    BY <1>1, <2>1, AncestorOfEntry
  <2>2. CASE p \notin paths
    <3>1. PICK r \in paths : p \in Ancestors(r)
      BY <1>2, <2>2
    <3>2. r \in Seq(C)
      OBVIOUS
    <3>3. q \in Ancestors(r)
      BY <3>1, <3>2, AncestorOfAncestor
    <3> QED BY <1>1, <3>3, AncestorOfEntry
  <2> QED BY <2>1, <2>2
<1>4. parent_of(p) \in Tree(paths) \cup {Root}
  <2>1. Len(p) \in Nat
    BY <1>2, LenProperties
  <2>2. CASE Len(p) <= 1
    <3>1. Len(p) - 1 < 1 /\ Len(p) - 1 \in Int
      BY <2>1, <2>2
    <3>2. parent_of(p) = <<>>
      BY <3>1, SubSeqEmpty DEF parent_of
    <3> QED BY <3>2 DEF Root
  <2>3. CASE Len(p) > 1
    <3>1. Len(p) - 1 \in 1..(Len(p) - 1)
      BY <2>1, <2>3
    <3>2. parent_of(p) \in Ancestors(p)
      BY <3>1 DEF parent_of, Ancestors
    <3> QED BY <1>3, <3>2
  <2> QED BY <2>1, <2>2, <2>3
<1> QED BY <1>3, <1>4

-----------------------------------------------------------------------------

LEMMA GreatestExists ==
    ASSUME NEW n \in Nat, NEW T \in SUBSET (1..n), T # {}
    PROVE  \E m \in T : \A k \in T : k <= m
<1> DEFINE Rest == {n - k : k \in T}
<1>1. Rest \in SUBSET Nat /\ Rest # {}
  <2>1. \A k \in T : n - k \in Nat
    OBVIOUS
  <2>2. PICK k \in T : TRUE
    OBVIOUS
  <2>3. n - k \in Rest
    OBVIOUS
  <2> QED BY <2>1, <2>3
<1>2. PICK r \in Rest : \A k \in Rest : r <= k
  <2> HIDE DEF Rest
  <2> QED BY <1>1, LeastExists
<1>3. PICK m \in T : r = n - m
  BY <1>2
<1>4. ASSUME NEW k \in T PROVE k <= m
  <2>1. n - m <= n - k
    BY <1>2, <1>3
  <2>2. k \in Int /\ m \in Int /\ n \in Int
    OBVIOUS
  <2> HIDE DEF Rest
  <2> QED BY <2>1, <2>2, SMT
<1> QED BY <1>4

RawEntries ==
    Seq([path : Seq(STRING), is_dir : BOOLEAN, is_symlink : BOOLEAN, target : Seq(STRING), data : STRING])

\* Duplicates or not, the entry that makes a path a file is one that extract
\* accepts, so that extract finds one.
THEOREM ListedFilesOpen == \A raw_entries \in RawEntries : FilesOpen(raw_entries)
<1> SUFFICES ASSUME NEW raw \in RawEntries, NEW p \in Listed(raw), stat(raw, p) = "file"
             PROVE  open_read(raw, p) # NotFound
  BY DEF FilesOpen
<1>1. DOMAIN raw = 1..Len(raw) /\ Len(raw) \in Nat
  BY LenProperties DEF RawEntries
<1>2. find(raw, p).kind = "file"
  BY DEF stat
<1>3. p \in Explicit(raw) /\ Kind(raw[LastOf(raw, p)]) = "file"
  BY <1>2 DEF find
<1>4. Positions(raw, p) \in SUBSET (1..Len(raw)) /\ Positions(raw, p) # {}
  BY <1>1, <1>3 DEF Positions, Explicit
<1>5. \E m \in Positions(raw, p) : \A k \in Positions(raw, p) : k <= m
  BY <1>1, <1>4, GreatestExists
<1>6. LastOf(raw, p) \in Positions(raw, p)
  BY <1>5 DEF LastOf
<1>7. ~ raw[LastOf(raw, p)].is_dir
  BY <1>3 DEF Kind
<1>8. Readable(raw, p) # {} /\ Readable(raw, p) \in SUBSET (1..Len(raw))
  BY <1>4, <1>6, <1>7 DEF Readable
<1>9. \E m \in Readable(raw, p) : \A k \in Readable(raw, p) : m <= k
  <2>1. Readable(raw, p) \in SUBSET Nat
    BY <1>8
  <2> QED BY <1>8, <2>1, LeastExists
<1>10. open_read(raw, p) \in Readable(raw, p)
  BY <1>8, <1>9 DEF open_read
<1> QED BY <1>8, <1>10 DEF NotFound
=============================================================================
