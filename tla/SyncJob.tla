------------------------------- MODULE SyncJob -------------------------------
(***************************************************************************)
(* Directory sync of pfnc_core::job: build_sync_plan compares two trees    *)
(* without changing them, the user looks at the plan, execute_sync_plan    *)
(* applies it.  The user may set the token of either job, other programs   *)
(* may change both trees, and any Vfs call may fail; a sync that stopped   *)
(* half-way may be started again.  A listing shows less than there is:     *)
(* never a name that is not UTF-8, nor an entry that LocalFs cannot read.  *)
(*                                                                         *)
(* A tree is a function from Path to nodes, as in TransferJob; one path    *)
(* names an entry of the source and its counterpart at the destination.    *)
(***************************************************************************)
EXTENDS Integers, Sequences, FiniteSets, Functions

CONSTANTS
    Path,          \* relative paths below the two directories
    Root,          \* the two directories themselves
    Parent,        \* Parent[p]: the directory entry p lies in
    SrcTrees,      \* the trees the source may start with
    DstTrees,      \* the trees the destination may start with
    SrcWhere,      \* "local" or "remote": location of the source backend
    DstWhere,      \* likewise for the destination
    DeleteChoices, \* settings of sync_delete_extraneous to consider
    Now,           \* the modification time of what the job writes
    NotUtf8,       \* the paths whose last name is not UTF-8: no list_dir shows them
    IoFaults,      \* may a Vfs call fail on its own?
    PeerFaults,    \* may a remote agent answer Ok for a file that is not whole?
    MaxRounds,     \* bound: how often the user starts a sync
    MaxEdits       \* bound: changes made by other programs

Contents == {"blank", "new", "old", "long", "torn"}
NoTime == -1
\* "other": a device, a pipe or a socket.
NodeKinds == {"none", "dir", "file", "link", "other"}
Node == [kind : NodeKinds, data : Contents, time : Int]
Leaf(k, d) == [kind |-> k, data |-> d, time |-> NoTime]
Absent == Leaf("none", "blank")
Dir == Leaf("dir", "blank")
Link(target) == Leaf("link", target)
File(d, t) == [kind |-> "file", data |-> d, time |-> t]

ASSUME PathAssumption ==
    /\ Root \notin Path /\ Parent \in [Path -> Path \cup {Root}] /\ IsFiniteSet(Path)
    /\ NotUtf8 \subseteq Path
\* Every path lies below Root.
ASSUME RootedAssumption ==
    \A S \in SUBSET Path :
        (\A p \in Path : Parent[p] = Root \/ Parent[p] \in S => p \in S) => S = Path
ASSUME ModeAssumption ==
    /\ {SrcWhere, DstWhere} \subseteq {"local", "remote"} /\ {IoFaults, PeerFaults} \subseteq BOOLEAN
    /\ DeleteChoices \subseteq BOOLEAN /\ {Now, MaxRounds, MaxEdits} \subseteq Nat

VARIABLES
    src, dst,           \* the two trees
    delete_extraneous,  \* config.general.sync_delete_extraneous
    pc,                 \* where the job thread, or the user, is
    todo,               \* the scan's recursion: what is still to visit, next first
    copies, deletes,    \* SyncPlan.copy and SyncPlan.delete
    idx,                \* the item being worked on
    opened,             \* the content behind the open read handle
    xxhsum,             \* per side, whether quick_hash works: SftpFs.xxhsum_available
    cancelled,          \* the token of the running job
    outcome,            \* how the last round ended
    \* History: what the properties compare the state with.
    was,                \* the destination when the round started
    disturbed,          \* in this round another program changed a tree, or a
                        \*   listing passed over an entry it could not read
    faulted,            \* a call failed on its own in this round
    dropped,            \* entries this round takes for made that are not: symlinks that
                        \*   could not be, and files the agent has not written to the end
    rounds, edits

trees == <<src, dst>>
plan == <<copies, deletes>>
scan == <<todo, plan>>
user == <<delete_extraneous, rounds, was>>
world == <<disturbed, edits>>
vars == <<src, dst, delete_extraneous, pc, todo, copies, deletes, idx, opened, xxhsum,
          cancelled, outcome, was, disturbed, faulted, dropped, rounds, edits>>

-----------------------------------------------------------------------------
(* Trees, and the calls the jobs make on them.                             *)

Exists(t, p) == t[p].kind # "none"
Dirs(t) == {Root} \cup {p \in Path : t[p].kind = "dir"}
Children(t, p) == {c \in Path : Parent[c] = p /\ Exists(t, c)}
Named(t, p) == Children(t, p) \ NotUtf8
WellFormed(t) == \A p \in Path : Exists(t, p) => Parent[p] \in Dirs(t)

\* The jobs look at no time but a file's, and at the contents of a file or a link.
Proper(n) == (n.kind = "none" => n = Absent) /\ (n.kind = "dir" => n = Dir)
Tree(t) == t \in [Path -> Node] /\ WellFormed(t) /\ \A p \in Path : Proper(t[p])

ASSUME TreeAssumption ==
    \A t \in SrcTrees \cup DstTrees : Tree(t) /\ \A p \in Path : t[p].data # "torn"

\* A path and all below it: the least set with the path and its members' children.
Entries == Path \cup {Root}
ClosedDown(S) == \A c \in Path : Parent[c] \in S => c \in S
Below == [p \in Entries |->
            {q \in Entries : \A S \in SUBSET Entries : p \in S /\ ClosedDown(S) => q \in S}]

Without(t, gone) == [p \in Path |-> IF p \in gone THEN Absent ELSE t[p]]

\* An entry whose name is not UTF-8, or that lies below one.
Hidden(p) == \E q \in NotUtf8 : p \in Below[q]
\* A directory over SFTP cannot be removed with what is below it if list_dir
\* does not show all of it.
HoldsHidden(p) == \E q \in NotUtf8 \cap Below[p] : Exists(dst, q)

\* What list_dir may show of a directory, in an order of the backend's choosing.
Shown(t, where, p) == IF IoFaults /\ where = "local" THEN SUBSET Named(t, p) ELSE {Named(t, p)}
Listings(S) == Bijection(1..Cardinality(S), S)

\* LocalFs::mkdir is create_dir_all; SftpFs::mkdir fails when p exists.
CanMkdir(p) ==
    /\ Parent[p] \in Dirs(dst)
    /\ dst[p].kind = "none" \/ (dst[p].kind = "dir" /\ DstWhere = "local")
CanCreate(p) == Parent[p] \in Dirs(dst) /\ dst[p].kind \in {"none", "file"}
CanRemove(p, k) ==
    IF k = "dir" THEN dst[p].kind = "dir" /\ Children(dst, p) = {} ELSE dst[p].kind \in {"file", "link", "other"}

Size(d) == CASE d = "long" -> 2 [] d = "torn" -> 0 [] OTHER -> 1

\* mtime_looks_changed, with MTIME_TOLERANCE in seconds.
MtimeLooksChanged(s, d) == s = NoTime \/ d = NoTime \/ s - d > 2

\* What quick_hash may return: a local one reads the file now; the first call
\* of a remote one settles whether xxhsum is there at all.
QuickHash(side, where, t, p) ==
    IF where = "local" THEN {IF t[p].kind = "file" THEN "hash" ELSE "error"}
    ELSE {"none"} \cup (IF xxhsum[side] # "no" /\ t[p].kind = "file" THEN {"hash"} ELSE {})
Settled(side, where, result) ==
    IF where = "remote" /\ xxhsum[side] = "unprobed"
    THEN IF result = "hash" THEN "yes" ELSE "no"
    ELSE xxhsum[side]

-----------------------------------------------------------------------------
Visit(what, p, meta, old) == [do |-> what, path |-> p, meta |-> meta, old |-> old]
Item(p, meta, old) == [path |-> p, meta |-> meta, old |-> old]

Init ==
    /\ src \in SrcTrees /\ dst \in DstTrees
    /\ delete_extraneous \in DeleteChoices
    /\ pc = "idle" /\ todo = <<>> /\ copies = <<>> /\ deletes = <<>> /\ idx = 1
    /\ opened = "blank" /\ xxhsum = [side \in {"src", "dst"} |-> "unprobed"]
    /\ cancelled = FALSE /\ outcome = "none" /\ was = dst
    /\ disturbed = FALSE /\ faulted = FALSE /\ dropped = {} /\ rounds = 0 /\ edits = 0

Goto(where) == pc' = where /\ UNCHANGED outcome
Stop(o) == pc' = "idle" /\ outcome' = o

\* F4: a scan job with a token of its own.
StartScan ==
    /\ pc = "idle" /\ rounds < MaxRounds /\ rounds' = rounds + 1
    /\ pc' = "begin" /\ outcome' = "none" /\ was' = dst /\ cancelled' = FALSE
    /\ todo' = <<Visit("diff", Root, Dir, Dir)>> /\ copies' = <<>> /\ deletes' = <<>> /\ idx' = 1
    /\ disturbed' = FALSE /\ faulted' = FALSE /\ dropped' = {}
    /\ UNCHANGED <<trees, delete_extraneous, opened, xxhsum, edits>>

-----------------------------------------------------------------------------
(* build_sync_plan.                                                        *)

\* The only place where the scan looks at its token.
BeginScan ==
    /\ pc = "begin"
    /\ IF cancelled THEN Stop("cancelled") ELSE Goto("scan")
    /\ UNCHANGED <<trees, user, scan, idx, opened, xxhsum, cancelled, world, faulted, dropped>>

Visiting(what) == pc = "scan" /\ todo # <<>> /\ Head(todo).do = what
V == Head(todo)
First(visits) == todo' = visits \o Tail(todo)
Listing == UNCHANGED <<trees, user, idx, opened, cancelled, edits, faulted, dropped>>
ScanStep == Listing /\ UNCHANGED disturbed
\* Whether the listings have shown all they could.
Sees(all) == disturbed' = (disturbed \/ ~all)
ScanFails == Stop("failed") /\ UNCHANGED <<scan, xxhsum>> /\ ScanStep

\* diff_dir: list both sides, pair the entries by name.
Paired(mine, theirs, leftovers) ==
    /\ \E ours \in Listings(mine), left \in Listings(leftovers) :
          First([i \in DOMAIN ours |->
                   IF ours[i] \in theirs THEN Visit("entry", ours[i], src[ours[i]], dst[ours[i]])
                                         ELSE Visit("full", ours[i], src[ours[i]], Absent)]
                \o [i \in DOMAIN left |-> Visit("left", left[i], Absent, Absent)])
    /\ Sees(mine = Named(src, V.path) /\ theirs = Named(dst, V.path))
    /\ Goto("scan") /\ UNCHANGED <<plan, xxhsum>> /\ Listing

\* Mutant: leftovers are removed whether or not the user opted in.
DiffDir_AlwaysDeletes ==
    /\ Visiting("diff") /\ V.path \in Dirs(src) \cap Dirs(dst)
    /\ \E mine \in Shown(src, SrcWhere, V.path), theirs \in Shown(dst, DstWhere, V.path) :
          Paired(mine, theirs, theirs \ mine)

DiffDir ==
    /\ Visiting("diff")
    /\ IF V.path \notin Dirs(src) \cap Dirs(dst) THEN ScanFails
       ELSE \E mine \in Shown(src, SrcWhere, V.path), theirs \in Shown(dst, DstWhere, V.path) :
               Paired(mine, theirs, IF delete_extraneous THEN theirs \ mine ELSE {})

\* diff_entry where the two entries are not both files.
DiffEntry ==
    /\ Visiting("entry") /\ ~(V.meta.kind = "file" /\ V.old.kind = "file")
    /\ CASE V.meta.kind # V.old.kind ->
              First(<<[V EXCEPT !.do = "full"]>>) /\ UNCHANGED copies
         [] V.meta.kind = "dir" /\ V.old.kind = "dir" ->
              First(<<Visit("diff", V.path, V.meta, V.old)>>) /\ UNCHANGED copies
         [] V.meta.kind = "other" /\ V.old.kind = "other" ->
              First(<<>>) /\ UNCHANGED copies
         [] V.meta.kind = "link" /\ V.old.kind = "link" ->
              /\ First(<<>>)
              /\ copies' = IF V.meta = V.old THEN copies
                           ELSE Append(copies, Item(V.path, V.meta, V.old))
    /\ Goto("scan") /\ UNCHANGED <<deletes, xxhsum>> /\ ScanStep

\* Mutant: files of one size are taken to be the same.
FileNeedsCopy_SizeOnly(s, d) == Size(V.meta.data) # Size(V.old.data)

\* file_needs_copy, given what the two calls of quick_hash returned.
FileNeedsCopy(s, d) ==
    IF Size(V.meta.data) # Size(V.old.data) THEN TRUE
    ELSE IF s = "hash" /\ d = "hash" THEN src[V.path].data # dst[V.path].data
    ELSE MtimeLooksChanged(V.meta.time, V.old.time)

\* diff_entry for two files; sizes that differ save the hashing.
DiffFile ==
    /\ Visiting("entry") /\ V.meta.kind = "file" /\ V.old.kind = "file"
    /\ LET hashes == Size(V.meta.data) = Size(V.old.data) IN
       \E s \in IF hashes THEN QuickHash("src", SrcWhere, src, V.path) ELSE {"unasked"},
          d \in IF hashes THEN QuickHash("dst", DstWhere, dst, V.path) ELSE {"unasked"} :
          IF "error" \in {s, d} THEN ScanFails
          ELSE /\ First(<<>>)
               /\ copies' = IF FileNeedsCopy(s, d)
                            THEN Append(copies, Item(V.path, V.meta, Absent)) ELSE copies
               /\ xxhsum' = IF hashes THEN [src |-> Settled("src", SrcWhere, s),
                                            dst |-> Settled("dst", DstWhere, d)] ELSE xxhsum
               /\ Goto("scan") /\ UNCHANGED deletes /\ ScanStep

\* push_full_copy: an entry that is to be created, with all below it.
PushFullCopy ==
    /\ Visiting("full")
    /\ IF V.meta.kind = "dir" /\ V.path \notin Dirs(src) THEN ScanFails
       ELSE /\ copies' = Append(copies, Item(V.path, V.meta, V.old))
            /\ \E mine \in IF V.meta.kind = "dir" THEN Shown(src, SrcWhere, V.path) ELSE {{}} :
                  /\ \E kids \in Listings(mine) :
                        First([i \in DOMAIN kids |-> Visit("full", kids[i], src[kids[i]], Absent)])
                  /\ Sees(V.meta.kind = "dir" => mine = Named(src, V.path))
            /\ Goto("scan") /\ UNCHANGED <<deletes, xxhsum>> /\ Listing

\* Mutant: a directory is planned before what lies in it.
WalkForDelete_PreOrder ==
    /\ Visiting("left") /\ Exists(dst, V.path)
    /\ deletes' = Append(deletes, [path |-> V.path, kind |-> dst[V.path].kind])
    /\ \E kids \in Listings(Named(dst, V.path)) :
          First([i \in DOMAIN kids |-> Visit("left", kids[i], Absent, Absent)])
    /\ Goto("scan") /\ UNCHANGED <<copies, xxhsum>> /\ ScanStep

\* walk_for_delete: stat, then the children of a directory; the entry itself
\* is pushed after them.
WalkForDelete ==
    /\ Visiting("left")
    /\ IF ~Exists(dst, V.path) THEN ScanFails
       ELSE /\ \E theirs \in Shown(dst, DstWhere, V.path) :
                  /\ \E kids \in Listings(theirs) :
                        First([i \in DOMAIN kids |-> Visit("left", kids[i], Absent, Absent)]
                              \o <<Visit("push", V.path, Absent, dst[V.path])>>)
                  /\ Sees(theirs = Named(dst, V.path))
            /\ Goto("scan") /\ UNCHANGED <<plan, xxhsum>> /\ Listing

PushDelete ==
    /\ Visiting("push") /\ First(<<>>)
    /\ deletes' = Append(deletes, [path |-> V.path, kind |-> V.old.kind])
    /\ Goto("scan") /\ UNCHANGED <<copies, xxhsum>> /\ ScanStep

\* The plan is shown, unless there is nothing to do.
ScanDone ==
    /\ pc = "scan" /\ todo = <<>>
    /\ IF copies = <<>> /\ deletes = <<>> THEN Stop("nothing") ELSE Goto("confirm")
    /\ UNCHANGED <<scan, xxhsum>> /\ ScanStep

-----------------------------------------------------------------------------
(* The user's answer, and execute_sync_plan.                               *)

Decline == pc = "confirm" /\ Stop("declined") /\ UNCHANGED <<scan, xxhsum>> /\ ScanStep

\* Mutant: everything that is to be replaced is removed first.
Confirm_RemovesAll ==
    /\ pc = "confirm" /\ Goto("copy") /\ cancelled' = FALSE
    /\ dst' = Without(dst, UNION {Below[copies[i].path] :
                                    i \in {i \in DOMAIN copies : copies[i].old # Absent}})
    /\ copies' = [i \in DOMAIN copies |-> [copies[i] EXCEPT !.old = Absent]]
    /\ UNCHANGED <<src, user, todo, deletes, idx, opened, xxhsum, world, faulted, dropped>>

\* A job of its own, with a token of its own.
Confirm ==
    /\ pc = "confirm" /\ Goto("copy") /\ cancelled' = FALSE
    /\ UNCHANGED <<trees, user, scan, idx, opened, xxhsum, world, faulted, dropped>>

At(where, list) == pc = where /\ idx <= Len(list)
C == copies[idx]
Executing == UNCHANGED <<src, user, scan, xxhsum, cancelled, world, faulted>>
NextItem == idx' = idx + 1 /\ Goto("copy")

\* remove_file or remove_dir(path, true), by the shape the scan saw; the
\* token is looked at before.
CopyNext ==
    /\ At("copy", copies)
    /\ \/ cancelled /\ Stop("cancelled") /\ UNCHANGED dst
       \/ ~cancelled /\ C.old = Absent /\ Goto("apply") /\ UNCHANGED dst
       \/ /\ ~cancelled /\ C.old # Absent
          /\ IF (C.old.kind = "dir") = (dst[C.path].kind = "dir") /\ Exists(dst, C.path)
             THEN /\ DstWhere = "local" \/ ~HoldsHidden(C.path)
                  /\ Goto("apply") /\ dst' = Without(dst, Below[C.path])
             ELSE Stop("failed") /\ UNCHANGED dst
    /\ UNCHANGED <<idx, opened, dropped>> /\ Executing

\* A recursive removal that fails, on its own or for want of a name, has
\* removed some of what lies below.
RemovalFails ==
    /\ At("copy", copies) /\ ~cancelled /\ C.old.kind = "dir" /\ dst[C.path].kind = "dir"
    /\ \/ IoFaults /\ faulted' = TRUE
       \/ DstWhere = "remote" /\ HoldsHidden(C.path) /\ UNCHANGED faulted
    /\ \E gone \in SUBSET (Below[C.path] \ {C.path}) :
          /\ DstWhere = "remote" => \A p \in gone : ~Hidden(p)
          /\ dst' = Without(dst, gone) /\ WellFormed(dst')
    /\ Stop("failed")
    /\ UNCHANGED <<src, user, scan, xxhsum, cancelled, world, idx, opened, dropped>>

\* apply_copy_item: a directory is made, or the sync fails.
ApplyDir ==
    /\ At("apply", copies) /\ C.meta.kind = "dir"
    /\ IF CanMkdir(C.path)
       THEN dst' = [dst EXCEPT ![C.path] = Dir] /\ NextItem
       ELSE Stop("failed") /\ UNCHANGED <<dst, idx>>
    /\ UNCHANGED <<opened, dropped>> /\ Executing

\* A link is made as the scan saw it; if it cannot be, nobody is told.
ApplyLink ==
    /\ At("apply", copies) /\ C.meta.kind = "link" /\ NextItem
    /\ \/ /\ Parent[C.path] \in Dirs(dst) /\ dst[C.path].kind = "none"
          /\ dst' = [dst EXCEPT ![C.path] = C.meta] /\ UNCHANGED dropped
       \/ /\ IoFaults \/ Parent[C.path] \notin Dirs(dst) \/ dst[C.path].kind # "none"
          /\ dropped' = dropped \cup {C.path} /\ UNCHANGED dst
    /\ UNCHANGED opened /\ Executing

\* A file, or what is copied as one: the source is opened, the destination
\* created or truncated.
BeginTransfer ==
    /\ At("apply", copies) /\ C.meta.kind \in {"file", "other"}
    /\ IF src[C.path].kind \in {"file", "other"} /\ CanCreate(C.path)
       THEN /\ dst' = [dst EXCEPT ![C.path] = File("torn", Now)]
            /\ opened' = src[C.path].data /\ Goto("pump")
       ELSE Stop("failed") /\ UNCHANGED <<dst, opened>>
    /\ UNCHANGED <<idx, dropped>> /\ Executing

TransferDone ==
    /\ At("pump", copies) /\ NextItem
    /\ dst' = [dst EXCEPT ![C.path] = File(opened, Now)]
    /\ UNCHANGED <<opened, dropped>> /\ Executing

\* execute_sync_plan negotiates the agent, which answers Ok also for a file
\* it could not read to the end, or whose last write fails.
TransferCut ==
    /\ At("pump", copies) /\ NextItem
    /\ PeerFaults /\ SrcWhere # DstWhere
    /\ dropped' = dropped \cup {C.path}
    /\ UNCHANGED <<dst, opened>> /\ Executing

TransferCancelled ==
    /\ At("pump", copies) /\ cancelled /\ Stop("cancelled")
    /\ UNCHANGED <<dst, idx, opened, dropped>> /\ Executing

CopiesDone ==
    /\ pc = "copy" /\ idx > Len(copies) /\ idx' = 1 /\ Goto("delete")
    /\ UNCHANGED <<dst, opened, dropped>> /\ Executing

\* Mutant: a directory is removed with all that lies in it.
DeleteNext_Recursive ==
    /\ At("delete", deletes)
    /\ IF cancelled THEN Stop("cancelled") /\ UNCHANGED <<dst, idx>>
       ELSE /\ dst' = Without(dst, Below[deletes[idx].path])
            /\ idx' = idx + 1 /\ Goto("delete")
    /\ UNCHANGED <<opened, dropped>> /\ Executing

\* The token, then apply_delete_item: only an empty directory can be removed.
DeleteNext ==
    /\ At("delete", deletes)
    /\ IF cancelled THEN Stop("cancelled") /\ UNCHANGED <<dst, idx>>
       ELSE IF CanRemove(deletes[idx].path, deletes[idx].kind)
       THEN /\ dst' = Without(dst, {deletes[idx].path})
            /\ idx' = idx + 1 /\ Goto("delete")
       ELSE Stop("failed") /\ UNCHANGED <<dst, idx>>
    /\ UNCHANGED <<opened, dropped>> /\ Executing

SyncDone ==
    /\ pc = "delete" /\ idx > Len(deletes) /\ Stop("completed")
    /\ UNCHANGED <<dst, idx, opened, dropped>> /\ Executing

-----------------------------------------------------------------------------
(* The user, the network, and other programs.                              *)

Cancel ==
    /\ pc \notin {"idle", "confirm"} /\ ~cancelled /\ cancelled' = TRUE
    /\ UNCHANGED <<trees, user, pc, outcome, scan, idx, opened, xxhsum, world, faulted, dropped>>

VfsFails ==
    /\ IoFaults
    /\ \/ pc = "scan" /\ todo # <<>> /\ V.do # "push"
       \/ At("copy", copies) /\ ~cancelled /\ C.old # Absent
       \/ At("apply", copies) /\ C.meta.kind # "link"
       \/ At("pump", copies)
       \/ At("delete", deletes) /\ ~cancelled
    /\ Stop("failed") /\ faulted' = TRUE
    /\ UNCHANGED <<trees, user, scan, idx, opened, xxhsum, cancelled, world, dropped>>

\* Another program adds, changes or removes one entry on either side; not the
\* file being written to.
OtherProgram ==
    /\ edits < MaxEdits /\ edits' = edits + 1 /\ disturbed' = TRUE /\ pc # "pump"
    /\ \/ \E p \in Path, n \in {Absent, File("long", Now)} :
             src[p].kind # "dir" /\ src' = [src EXCEPT ![p] = n] /\ WellFormed(src') /\ UNCHANGED dst
       \/ \E p \in Path, n \in {Absent, File("long", Now)} :
             dst[p].kind # "dir" /\ dst' = [dst EXCEPT ![p] = n] /\ WellFormed(dst') /\ UNCHANGED src
    /\ UNCHANGED <<user, pc, outcome, scan, idx, opened, xxhsum, cancelled, faulted, dropped>>

Scanning ==
    \/ StartScan \/ BeginScan \/ DiffDir \/ DiffEntry \/ DiffFile \/ PushFullCopy
    \/ WalkForDelete \/ PushDelete \/ ScanDone
Applying ==
    \/ Confirm \/ Decline \/ CopyNext \/ RemovalFails \/ ApplyDir \/ ApplyLink \/ BeginTransfer
    \/ TransferDone \/ TransferCut \/ TransferCancelled \/ CopiesDone \/ DeleteNext \/ SyncDone

Next == Scanning \/ Applying \/ Cancel \/ VfsFails \/ OtherProgram
Spec == Init /\ [][Next]_vars

-----------------------------------------------------------------------------
(* Properties.                                                             *)

\* Both sides are trees, the index is within the list being worked on, and an
\* item is only planned as the scan saw it.
Items == [path : Path, meta : Node, old : Node]
TypeOK ==
    /\ {src, dst, was} \subseteq [Path -> Node] /\ WellFormed(src) /\ WellFormed(dst)
    /\ pc \in {"idle", "begin", "scan", "confirm", "copy", "apply", "pump", "delete"}
    /\ \A i \in DOMAIN copies : copies[i] \in Items
    /\ \A i \in DOMAIN deletes : deletes[i].path \in Path
    /\ idx \in 1..((IF pc = "delete" THEN Len(deletes) ELSE Len(copies)) + 1) \/ pc = "idle"
    /\ opened \in Contents
    /\ outcome \in {"none", "nothing", "declined", "completed", "cancelled", "failed"}

\* One side's file does for the other's: the same content; or, where a side
\* cannot hash, the same size and no newer source, left as it was.
Alike(p) ==
    \/ dst[p].data = src[p].data
    \/ /\ "remote" \in {SrcWhere, DstWhere} /\ dst[p] = was[p] /\ Size(dst[p].data) = Size(src[p].data)
       /\ ~MtimeLooksChanged(src[p].time, dst[p].time)

\* A file is made of what is neither directory nor link.
Made(k) == IF k = "other" THEN "file" ELSE k

\* A sync that says it is complete, or that there is nothing to do, leaves the
\* destination a mirror of the source, also after earlier rounds that stopped
\* half-way.  Left out are names that are not UTF-8, which neither side lists;
\* special files that are there on both sides; and the entries that a call has
\* said Ok for, or nobody asked about, though they were not made.
CompletedMirrors ==
    outcome \in {"completed", "nothing"} /\ ~disturbed =>
        \A p \in Path : ~Hidden(p) =>
            /\ Exists(src, p) =>
                  \/ dst[p].kind = Made(src[p].kind) /\ Alike(p)
                  \/ src[p].kind = "other" /\ dst[p].kind = "other"
                  \/ p \in dropped
            /\ delete_extraneous /\ Exists(dst, p) => Exists(src, p)

\* The plan's order works: parents before children, the old entry gone before
\* the new one is made, directories empty when they are removed.  The one thing
\* the scan cannot foresee is a directory that holds a name no listing shows.
OnlyRealFailures ==
    outcome = "failed" =>
        \/ faulted \/ disturbed
        \/ /\ DstWhere = "remote" /\ idx \in DOMAIN copies
           /\ copies[idx].old.kind = "dir" /\ HoldsHidden(copies[idx].path)
        \/ /\ idx \in DOMAIN deletes /\ deletes[idx].kind = "dir"
           /\ Children(dst, deletes[idx].path) \cap NotUtf8 # {}

\* Wherever a sync stops, at most one entry that it has not been told is done
\* is neither as it was nor renewed.
Intact(p) == \A q \in Below[p] : dst[q] = was[q]
Renewed(p) == dst[p].kind = Made(src[p].kind) /\ dst[p].data = src[p].data
Broken(i) ==
    copies[i].path \notin dropped /\ ~Intact(copies[i].path) /\ ~Renewed(copies[i].path)
AtMostOneBroken == ~disturbed => Cardinality({i \in DOMAIN copies : Broken(i)}) <= 1

\* Nothing goes that the plan did not name: what another program added since
\* the scan stays, except below an entry that is replaced.
DeletesOnlyListed ==
    [][\A p \in Path : Exists(dst, p) /\ ~Exists(dst', p) /\ edits' = edits =>
          \/ \E i \in DOMAIN deletes : deletes[i].path = p
          \/ \E i \in DOMAIN copies : copies[i].old # Absent /\ p \in Below[copies[i].path]]_vars

\* Without sync_delete_extraneous what only the destination has is kept,
\* wherever the directories it lies in are directories on both sides.
KeepsUnrelated ==
    ~delete_extraneous /\ ~disturbed =>
        \A p \in Path :
            Exists(was, p) /\ ~Exists(src, p)
            /\ (\A q \in Path \ {p} : p \in Below[q] => src[q].kind \in {"none", "dir"})
               => dst[p] = was[p]

\* README.md: "never deletes destination-only files unless you opt into that".
KeepsDestOnly ==
    ~delete_extraneous /\ ~disturbed =>
        \A p \in Path : Exists(was, p) /\ ~Exists(src, p) => Exists(dst, p)
=============================================================================
