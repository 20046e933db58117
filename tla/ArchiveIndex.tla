---------------------------- MODULE ArchiveIndex ----------------------------
(***************************************************************************)
(* How an archive becomes a tree that can be browsed: build_index cleans   *)
(* the paths of the raw entries, keeps the last entry of each path and     *)
(* adds the directories the archive does not mention; list_dir, stat and   *)
(* open_read answer from the result.  A path is the sequence of its        *)
(* components, the root the empty one.                                     *)
(***************************************************************************)
EXTENDS Naturals, Sequences, FiniteSets

Root == <<>>
Unsafe == <<"..">>     \* sanitize_path's None
NotFound == 0

\* sanitize_path: no "..", no empty components, no dots, and not the root.
sanitize_path(raw) ==
    LET clean == SelectSeq(raw, LAMBDA c : c \notin {"", "."})
    IN IF clean = Root \/ \E i \in DOMAIN raw : raw[i] = ".." THEN Unsafe ELSE clean

parent_of(path) == SubSeq(path, 1, Len(path) - 1)

\* path.parent(), path.parent().parent(), ... short of the root.
Ancestors(path) == {SubSeq(path, 1, n) : n \in 1..(Len(path) - 1)}

-----------------------------------------------------------------------------
(* raw_entries is a sequence of records [path, is_dir, is_symlink, target, *)
(* data]; data stands for the contents and whatever else an entry carries. *)

Kind(raw) ==
    IF raw.is_symlink THEN "symlink" ELSE IF raw.is_dir THEN "dir" ELSE "file"

\* The raw entries of a path.
Positions(raw_entries, path) ==
    {i \in DOMAIN raw_entries : sanitize_path(raw_entries[i].path) = path /\ path # Unsafe}

\* by_path after the first loop: an entry replaces an earlier one of its path.
Explicit(raw_entries) ==
    {sanitize_path(raw_entries[i].path) : i \in DOMAIN raw_entries} \ {Unsafe}
LastOf(raw_entries, path) ==
    CHOOSE i \in Positions(raw_entries, path) : \A j \in Positions(raw_entries, path) : j <= i

\* Going up from each entry, the second loop adds the directories it meets
\* until it meets one there is an entry for.
Between(q, p) == {r \in Ancestors(p) : Len(q) <= Len(r)}
Synthesized(paths) ==
    UNION {{q \in Ancestors(p) : Between(q, p) \cap paths = {}} : p \in paths}

\* The paths of build_index, and what it says of each.
Tree(paths) == paths \cup Synthesized(paths)
Listed(raw_entries) == Tree(Explicit(raw_entries))

find(raw_entries, path) ==
    IF path \in Explicit(raw_entries)
    THEN LET raw == raw_entries[LastOf(raw_entries, path)]
         IN [path |-> path, kind |-> Kind(raw), data |-> raw.data,
             target |-> IF raw.is_symlink THEN sanitize_path(raw.target) ELSE Unsafe]
    ELSE [path |-> path, kind |-> "dir", data |-> "none", target |-> Unsafe]

stat(raw_entries, path) ==
    IF path = Root \/ path \in Listed(raw_entries) THEN find(raw_entries, path).kind ELSE "absent"

\* Whatever lies in the path, if there is an entry for it at all: a directory or not.
list_dir(raw_entries, path) ==
    IF stat(raw_entries, path) = "absent" THEN {}
    ELSE {p \in Listed(raw_entries) : parent_of(p) = path}

\* extract: the first entry of the path that is not a directory.
Readable(raw_entries, path) == {i \in Positions(raw_entries, path) : ~raw_entries[i].is_dir}
open_read(raw_entries, path) ==
    IF Readable(raw_entries, path) = {} THEN NotFound
    ELSE CHOOSE i \in Readable(raw_entries, path) : \A j \in Readable(raw_entries, path) : i <= j

-----------------------------------------------------------------------------
(* Properties.                                                             *)

\* The second loop of build_index, read as it stands: upwards from an entry,
\* with a break.
WalkUp(paths, p) ==
    LET up[n \in Nat] == IF n = 0 \/ SubSeq(p, 1, n) \in paths THEN {} ELSE {SubSeq(p, 1, n)} \cup up[n - 1]
    IN up[Len(p) - 1]

\* The set of directories build_index adds is what that loop adds.
SynthesizedAsWritten(paths) == Synthesized(paths) = UNION {WalkUp(paths, p) : p \in paths}

\* "panel navigation always has something to list_dir() at every level": whatever
\* is listed lies in something listed, up to the root.
Navigable(paths) ==
    \A p \in Tree(paths) : Ancestors(p) \subseteq Tree(paths) /\ parent_of(p) \in Tree(paths) \cup {Root}

\* What is listed as a file can be opened.
FilesOpen(raw_entries) ==
    \A p \in Listed(raw_entries) : stat(raw_entries, p) = "file" => open_read(raw_entries, p) # NotFound

\* No listed path and no link target climbs out of the archive.
StaysInside(raw_entries) ==
    \A p \in Listed(raw_entries) :
        \A q \in {p, find(raw_entries, p).target} \ {Unsafe} : \A i \in DOMAIN q : q[i] \notin {"..", ".", ""}

\* What is opened is what is listed, and what lies in a file is not hidden: an
\* archive that has an entry twice breaks the one, an entry that is a file and
\* has others below it the other.
OpensWhatIsListed(raw_entries) ==
    \A p \in Listed(raw_entries) :
        open_read(raw_entries, p) # NotFound =>
            raw_entries[open_read(raw_entries, p)].data = find(raw_entries, p).data
OnlyDirsHaveEntries(raw_entries) ==
    \A p \in Listed(raw_entries) : list_dir(raw_entries, p) # {} => stat(raw_entries, p) = "dir"
=============================================================================
