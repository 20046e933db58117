------------------------------ MODULE MCPanel ------------------------------
(* Panel for TLC; the configuration gives the sizes.  And, before it starts,*)
(* the index of small archives, whose directories a panel lists.            *)
EXTENDS Panel, ArchiveIndex

LOCAL Names == {"a", "b"}
LOCAL Paths == UNION {[1..n -> Names] : n \in 1..3}
LOCAL RawPaths ==
    {<<"a">>, <<"b">>, <<"a", "b">>, <<"a", "b", "a">>, <<"", "a">>, <<"a", ".", "b">>, <<"..", "a">>, <<>>, <<".">>}
LOCAL RawEntry(path, kind, data) ==
    [path |-> path, is_dir |-> kind = "dir", is_symlink |-> kind = "symlink",
     target |-> <<"..", "b">>, data |-> data]
LOCAL Archives ==
    {[i \in DOMAIN paths |-> RawEntry(paths[i], kinds[i], i)] :
        paths \in [1..2 -> RawPaths], kinds \in [1..2 -> {"file", "dir", "symlink"}]}

\* Every set of paths of up to three components, and every archive of two entries.
ASSUME TreesChecked ==
    \A paths \in SUBSET Paths : Cardinality(paths) <= 4 => SynthesizedAsWritten(paths) /\ Navigable(paths)
ASSUME ArchivesChecked == \A raw_entries \in Archives : FilesOpen(raw_entries) /\ StaysInside(raw_entries)
=============================================================================
