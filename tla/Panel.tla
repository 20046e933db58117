------------------------------- MODULE Panel -------------------------------
(***************************************************************************)
(* A panel's cursor and viewport.  Only the number of entries matters; the *)
(* frame drawn before each key press brings the viewport up to date.       *)
(***************************************************************************)
EXTENDS Integers

CONSTANTS
    Sizes,    \* numbers of entries a listing may have
    Heights   \* numbers of rows the terminal may have

ASSUME SizesAssumption == Sizes \subseteq Nat /\ Heights \subseteq Nat

VARIABLES entries, cursor, scroll_offset, viewport_height,
          drawn   \* nothing has changed since the last frame

vars == <<entries, cursor, scroll_offset, viewport_height, drawn>>

Least(a, b) == IF a < b THEN a ELSE b
Greatest(a, b) == IF a < b THEN b ELSE a
Clamped(n, lo, hi) == Greatest(lo, Least(n, hi))

Init ==
    /\ entries \in Sizes
    /\ cursor = 0 /\ scroll_offset = 0 /\ viewport_height = 0 /\ drawn = FALSE

-----------------------------------------------------------------------------
\* move_cursor: by one row, or by page_size.
Deltas == {-1, 1, Greatest(viewport_height, 1), -Greatest(viewport_height, 1)}

\* Mutant: the end of the list is one entry further down.
MoveCursor_PastEnd ==
    /\ drawn
    /\ \E delta \in Deltas :
          cursor' = IF entries = 0 THEN 0 ELSE Clamped(cursor + delta, 0, entries)
    /\ drawn' = FALSE
    /\ UNCHANGED <<entries, scroll_offset, viewport_height>>

MoveCursor ==
    /\ drawn
    /\ \E delta \in Deltas :
          cursor' = IF entries = 0 THEN 0 ELSE Clamped(cursor + delta, 0, entries - 1)
    /\ drawn' = FALSE
    /\ UNCHANGED <<entries, scroll_offset, viewport_height>>

\* reload of the directory shown: clamp_cursor.
ClampedCursor(n) == IF n = 0 THEN 0 ELSE IF cursor >= n THEN n - 1 ELSE cursor

Reload ==
    /\ entries' \in Sizes
    /\ cursor' = ClampedCursor(entries')
    /\ drawn' = FALSE
    /\ UNCHANGED <<scroll_offset, viewport_height>>

\* descend and ascend: the cursor is reset, and ascend's select_by_name may
\* find the place that was left.
ChangeDirectory ==
    /\ drawn
    /\ entries' \in Sizes
    /\ \/ cursor' = 0
       \/ \E i \in Sizes : i < entries' /\ cursor' = i
    /\ drawn' = FALSE
    /\ UNCHANGED <<scroll_offset, viewport_height>>

\* sync_viewport.
Followed(h) ==
    IF cursor < scroll_offset THEN cursor
    ELSE IF cursor >= scroll_offset + h THEN cursor + 1 - h
    ELSE scroll_offset

\* Mutant: a cursor one row below the viewport counts as visible.
Scrolled_OffByOne(h) ==
    IF h = 0 THEN 0
    ELSE Least(IF cursor < scroll_offset THEN cursor
               ELSE IF cursor > scroll_offset + h THEN cursor + 1 - h ELSE scroll_offset,
               Greatest(entries - h, 0))

\* Mutant: the cursor is put in the middle.
Scrolled_Centred(h) ==
    IF h = 0 THEN 0
    ELSE Clamped(cursor - h \div 2, 0, Greatest(entries - h, 0))

\* Mutant: the blank rows below the last entry are not taken back.
Scrolled_Blank(h) == IF h = 0 THEN 0 ELSE Followed(h)

Scrolled(h) == IF h = 0 THEN 0 ELSE Least(Followed(h), Greatest(entries - h, 0))

SyncViewport ==
    /\ viewport_height' \in Heights
    /\ scroll_offset' = Scrolled(viewport_height')
    /\ drawn' = TRUE
    /\ UNCHANGED <<entries, cursor>>

Next == MoveCursor \/ Reload \/ ChangeDirectory \/ SyncViewport

Spec == Init /\ [][Next]_vars

-----------------------------------------------------------------------------
(* Properties.                                                             *)

\* Every variable is a number of its kind, and there is an entry under the
\* cursor whenever there is one at all.
TypeOK ==
    /\ entries \in Sizes /\ viewport_height \in Heights \cup {0}
    /\ cursor \in Nat /\ scroll_offset \in Nat /\ drawn \in BOOLEAN
    /\ cursor < entries \/ (entries = 0 /\ cursor = 0)

\* A frame shows the row the cursor is on.
CursorVisible ==
    drawn /\ entries > 0 /\ viewport_height > 0 =>
        scroll_offset <= cursor /\ cursor < scroll_offset + viewport_height

\* A frame leaves no row blank while entries are scrolled out at the top.
NoBlankRows ==
    drawn /\ viewport_height > 0 =>
        scroll_offset = 0 \/ scroll_offset + viewport_height <= entries

\* A frame scrolls no further than it has to: an offset nearer to the old one
\* would hide the cursor or leave blank rows.
Shows(offset, h) ==
    /\ offset <= cursor /\ cursor < offset + h
    /\ offset = 0 \/ offset + h <= entries
Distance(a, b) == IF a < b THEN b - a ELSE a - b
ScrollsLeast ==
    [][entries > 0 /\ ~drawn /\ drawn' /\ viewport_height' > 0 =>
          \A other \in 0..entries :
              Shows(other, viewport_height') =>
                  Distance(scroll_offset, scroll_offset') <= Distance(scroll_offset, other)]_vars
=============================================================================
