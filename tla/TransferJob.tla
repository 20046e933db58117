----------------------------- MODULE TransferJob -----------------------------
(***************************************************************************)
(* One background job of pfnc_core::job: copy_job, delete_job, move_job    *)
(* (rename within one backend) and move_cross_backend (copy, then delete   *)
(* the originals), run by a job thread while the UI may set its            *)
(* cancellation token, other programs may change the source files, and any *)
(* Vfs call may fail.                                                      *)
(*                                                                         *)
(* A directory tree is a function from Path to Node.  Path is the set of   *)
(* relative paths below the source directory; the same relative path below *)
(* dest_dir names the destination of that entry, as walk_for_copy pairs    *)
(* them.  A file's data is abstracted to which content it holds and how    *)
(* many COPY_CHUNK_SIZE chunks of it are there.                            *)
(***************************************************************************)
EXTENDS Naturals, Sequences, FiniteSets, Functions

CONSTANTS
    Path,       \* relative paths below the source and destination directories
    Root,       \* the two directories themselves; not an entry of a tree
    Parent,     \* Parent[p]: the directory entry p lies in
    Items,      \* the selected entries the job is given (children of Root)
    ItemOf,     \* ItemOf[p]: the child of Root that p is or lies below
    Kinds,      \* the job kinds to consider
    SrcWhere,   \* "local" or "remote": location of the source backend
    DstWhere,   \* likewise for the destination
    FastPath,   \* enable_quic_fast_path
    SameDir,    \* the source directory is the destination directory
    SrcKinds,   \* SrcKinds[p]: what may be at p in the source at the start,
    DstKinds,   \*   and at the destination, by kind
    Chunks,     \* chunks in a source file
    NotUtf8,    \* the paths whose last name is not UTF-8: no list_dir shows them
    ReadAhead,  \* chunks the agent's client reads before they are written
    IoFaults,   \* may a Vfs call fail on its own?
    PeerFaults, \* may the agent answer Ok for a file that is not whole?
    MaxEdits    \* bound on the changes made by other programs

JobKinds == {"copy", "delete", "rename", "moveCross"}
NodeKinds == {"none", "dir", "file", "link"}

ASSUME PathAssumption ==
    /\ Root \notin Path
    /\ Parent \in [Path -> Path \cup {Root}]
    /\ Items \subseteq {p \in Path : Parent[p] = Root}
    /\ IsFiniteSet(Path)
\* The user selects from a listing.
ASSUME NotUtf8Assumption == NotUtf8 \subseteq Path \ Items
ASSUME ItemOfAssumption ==
    /\ ItemOf \in [Path -> Path]
    /\ \A p \in Path : ItemOf[p] = IF Parent[p] = Root THEN p ELSE ItemOf[Parent[p]]
\* Every path lies below Root.
ASSUME TreeAssumption ==
    \A S \in SUBSET Path :
        (\A p \in Path : Parent[p] = Root \/ Parent[p] \in S => p \in S) => S = Path
ASSUME ModeAssumption ==
    /\ Kinds \subseteq JobKinds
    /\ {SrcWhere, DstWhere} \subseteq {"local", "remote"}
    /\ {FastPath, SameDir, IoFaults, PeerFaults} \subseteq BOOLEAN
    /\ SrcKinds \in [Path -> SUBSET NodeKinds]
    /\ DstKinds \in [Path -> SUBSET {"none", "dir", "file"}]
    /\ SameDir => Kinds \cap {"rename", "moveCross"} = {}
    /\ {Chunks, ReadAhead} \subseteq Nat \ {0} /\ MaxEdits \in Nat

VARIABLES
    src, dst,    \* the two trees
    kind,        \* which job this is
    pc,          \* where the job thread is
    todo,        \* the walk's recursion: entries still to visit, next first
    plan,        \* the planned (path, kind) entries
    idx,         \* the entry of plan being worked on
    transport,   \* what negotiate_transport chose
    reader,      \* the file seen through the open read handle, and
    pos,         \*   how many of its chunks have been read,
    held,        \*   and those of them that are not written yet
    done, total, \* JobProgress.files_done and files_total
    cancelled,   \* the CancellationToken
    outcome,     \* JobOutcome, once the job has ended
    \* History: what the properties compare the state with.
    orig,        \* the source tree when the job was spawned
    touched,     \* paths another program has changed since
    edits,       \* how many such changes (bounded by MaxEdits)
    copied,      \* paths whose copy step has finished
    missed,      \* entries a listing of the copy's walk has left out by a fault
    cut,         \* files a remote agent has answered Ok for that are not whole
    late,        \* entries the job has changed after the token was set
    faulted      \* a Vfs call has failed on its own

trees == <<src, dst>>
walk == <<todo, plan, idx>>
xfer == <<transport, reader, pos, held>>
progress == <<done, total>>
history == <<orig, touched, edits, missed>>
vars == <<src, dst, kind, pc, todo, plan, idx, transport, reader, pos, held, done,
          total, cancelled, outcome, orig, touched, edits, copied, missed, cut, late, faulted>>

-----------------------------------------------------------------------------
(* Trees and the Vfs calls the jobs make on them.                          *)

Contents == {"blank", "old", "orig", "edited", "torn"}
Node == [kind : NodeKinds, data : Contents, len : Nat]

Leaf(k) == [kind |-> k, data |-> "blank", len |-> 0]
Absent == Leaf("none")
File(d, n) == [kind |-> "file", data |-> d, len |-> n]

Exists(t, p) == t[p].kind # "none"
Dirs(t) == {Root} \cup {p \in Path : t[p].kind = "dir"}
Children(t, p) == {c \in Path : Parent[c] = p /\ Exists(t, c)}
WellFormed(t) == \A p \in Path : Exists(t, p) => Parent[p] \in Dirs(t)

\* A path and all below it: the least set with the path and its members' children.
ClosedDown(S) == \A c \in Path : Parent[c] \in S => c \in S
Below == [p \in Path |-> {q \in Path : \A S \in SUBSET Path : p \in S /\ ClosedDown(S) => q \in S}]

\* What list_dir may show of a directory: names that are not UTF-8 are passed
\* over, and LocalFs also passes over entries whose metadata it cannot read.
Named(t, p) == Children(t, p) \ NotUtf8
Shown(t, where, p) == IF IoFaults /\ where = "local" THEN SUBSET Named(t, p) ELSE {Named(t, p)}

\* It returns them in an order of the backend's choosing.
Listings(S) == Bijection(1..Cardinality(S), S)

\* LocalFs::mkdir is create_dir_all; SftpFs::mkdir fails when p exists.
CanMkdir(t, p) ==
    /\ Parent[p] \in Dirs(t)
    /\ t[p].kind = "none" \/ (t[p].kind = "dir" /\ DstWhere = "local")
CanCreate(t, p) == Parent[p] \in Dirs(t) /\ t[p].kind \in {"none", "file"}
CanLink(t, p) == Parent[p] \in Dirs(t) /\ t[p].kind = "none"
\* remove_dir(path, false) wants an empty directory, remove_file anything else.
CanRemove(t, p, k) ==
    IF k = "dir" THEN t[p].kind = "dir" /\ Children(t, p) = {}
                 ELSE t[p].kind \in {"file", "link"}
\* LocalFs::rename replaces a file by a file, or an empty directory by a
\* directory; over SFTP (protocol version 3) an existing target is an error.
CanRename(p) ==
    /\ Exists(src, p)
    /\ \/ dst[p].kind = "none"
       \/ /\ DstWhere = "local"
          /\ \/ dst[p].kind # "dir" /\ src[p].kind # "dir"
             \/ dst[p].kind = "dir" /\ src[p].kind = "dir" /\ Children(dst, p) = {}

\* The planned entry in hand.
Item == plan[idx]

\* The job changes one entry.  When both panels show one directory the two
\* trees are the same tree.
PutDst(p, n) ==
    /\ dst' = [dst EXCEPT ![p] = n]
    /\ src' = IF SameDir THEN [src EXCEPT ![p] = n] ELSE src
DropSrc(p) ==
    /\ src' = [src EXCEPT ![p] = Absent]
    /\ dst' = IF SameDir THEN [dst EXCEPT ![p] = Absent] ELSE dst

MarkLate == late' = IF cancelled THEN late \cup {Item.path} ELSE late

-----------------------------------------------------------------------------
Visits(S) == {[path |-> p, post |-> FALSE] : p \in S}

InitialTrees ==
    /\ src \in [Path -> {Absent, Leaf("dir"), Leaf("link"), File("orig", Chunks)}]
    /\ WellFormed(src) /\ \A p \in Path : src[p].kind \in SrcKinds[p]
    /\ \A p \in Items : Exists(src, p)
    /\ IF SameDir THEN dst = src
       ELSE /\ dst \in [Path -> {Absent, Leaf("dir"), File("old", Chunks)}]
            /\ WellFormed(dst) /\ \A p \in Path : dst[p].kind \in DstKinds[p]

FirstPc(k) == IF k = "delete" THEN "delWalk" ELSE IF k = "rename" THEN "renCheck" ELSE "copyWalk"

Init ==
    /\ InitialTrees
    /\ kind \in Kinds
    /\ pc = FirstPc(kind)
    /\ IF kind = "rename"
       THEN todo = <<>> /\ plan \in Listings({[path |-> p, kind |-> src[p].kind] : p \in Items})
       ELSE todo \in Listings(Visits(Items)) /\ plan = <<>>
    /\ idx = 1 /\ transport = "none" /\ reader = Absent /\ pos = 0 /\ held = Absent
    /\ done = 0 /\ total = Len(plan)
    /\ cancelled = FALSE /\ outcome = "none"
    /\ orig = src /\ touched = {} /\ edits = 0
    /\ copied = {} /\ missed = {} /\ cut = {} /\ late = {} /\ faulted = FALSE

Planned(p, k) == [path |-> p, kind |-> k]
AtItem(where) == pc = where /\ idx <= Len(plan)

End(o) == pc' = "done" /\ outcome' = o
Goto(where) == pc' = where /\ outcome' = outcome

\* An error inside a RemoteFileAgent call counts as a cancellation once the
\* token is set (`Err(_) if cancel.is_cancelled()`); any other error is itself.
InAgent ==
    \/ transport = "download" /\ pc \in {"open", "pump"}
    \/ transport = "upload" /\ pc \in {"create", "pump"}
Error == IF InAgent /\ cancelled THEN "cancelled" ELSE "failed"

-----------------------------------------------------------------------------
(* copy_job: plan everything first, then work through the plan.            *)

\* walk_for_copy: stat, push, then the children of a directory (pre-order).
WalkForCopy ==
    /\ pc = "copyWalk" /\ todo # <<>>
    /\ LET p == Head(todo).path IN
       IF ~Exists(src, p)
       THEN End("failed") /\ UNCHANGED <<walk, missed, faulted>>
       ELSE /\ plan' = Append(plan, Planned(p, src[p].kind))
            /\ IF src[p].kind = "dir"
               THEN \E shown \in Shown(src, SrcWhere, p) : \E kids \in Listings(Visits(shown)) :
                       /\ todo' = kids \o Tail(todo)
                       /\ missed' = missed \cup (Named(src, p) \ shown)
                       /\ faulted' = (faulted \/ shown # Named(src, p))
               ELSE todo' = Tail(todo) /\ UNCHANGED <<missed, faulted>>
            /\ Goto("copyWalk") /\ UNCHANGED idx
    /\ UNCHANGED <<trees, kind, xfer, progress, cancelled, orig, touched, edits, copied, cut, late>>

\* negotiate_transport; fast_transport() returns an agent or it does not.
Negotiated ==
    {"stream"} \cup
    (IF FastPath /\ SrcWhere = "local" /\ DstWhere = "remote" THEN {"upload"} ELSE {}) \cup
    (IF FastPath /\ SrcWhere = "remote" /\ DstWhere = "local" THEN {"download"} ELSE {})

StartCopying ==
    /\ pc = "copyWalk" /\ todo = <<>>
    /\ total' = Cardinality({i \in DOMAIN plan : plan[i].kind # "dir"})
    /\ transport' \in Negotiated
    /\ Goto("copyCheck")
    /\ UNCHANGED <<trees, kind, walk, reader, pos, held, done, cancelled, history, copied, cut, late, faulted>>

\* The head of copy_job's loop: the token is read once per planned entry.
CopyNext ==
    /\ AtItem("copyCheck")
    /\ IF cancelled THEN End("cancelled") ELSE Goto("copyApply")
    /\ UNCHANGED <<trees, kind, walk, xfer, progress, cancelled, history, copied, cut, late, faulted>>

\* apply_copy_item has returned Ok: on to the next entry.
ItemCopied ==
    /\ copied' = copied \cup {Item.path}
    /\ idx' = idx + 1
    /\ Goto("copyCheck")

CopyDir ==
    /\ AtItem("copyApply") /\ Item.kind = "dir"
    /\ IF CanMkdir(dst, Item.path)
       THEN /\ IF dst[Item.path].kind = "none" THEN PutDst(Item.path, Leaf("dir")) ELSE UNCHANGED trees
            /\ ItemCopied /\ MarkLate
       ELSE End("failed") /\ UNCHANGED <<trees, idx, copied, late>>
    /\ UNCHANGED <<kind, todo, plan, xfer, progress, cancelled, history, cut, faulted>>

\* LocalFs::mkdir sets the mode of a directory that is there by then.
ChmodFails ==
    /\ AtItem("copyApply") /\ Item.kind = "dir" /\ IoFaults /\ DstWhere = "local"
    /\ CanMkdir(dst, Item.path) /\ dst[Item.path].kind = "none"
    /\ PutDst(Item.path, Leaf("dir")) /\ MarkLate
    /\ End("failed") /\ faulted' = TRUE
    /\ UNCHANGED <<kind, walk, xfer, progress, cancelled, history, copied, cut>>

\* `let _ = dst.symlink(..)`: whether or not the link is made, the item is done.
CopyLink ==
    /\ AtItem("copyApply") /\ Item.kind = "link"
    /\ \/ /\ CanLink(dst, Item.path)
          /\ PutDst(Item.path, Leaf("link")) /\ MarkLate /\ UNCHANGED faulted
       \/ /\ ~CanLink(dst, Item.path)
          /\ UNCHANGED <<trees, late, faulted>>
       \/ /\ IoFaults /\ faulted' = TRUE
          /\ UNCHANGED <<trees, late>>
    /\ ItemCopied
    /\ UNCHANGED <<kind, todo, plan, xfer, progress, cancelled, history, cut>>

\* Transport::transfer begins.  The stream transport opens the source and then
\* truncates the destination; QuicSideTransport first reads the token, and when
\* downloading it truncates the destination before the agent opens the source.
BeginTransfer ==
    /\ AtItem("copyApply") /\ Item.kind = "file"
    /\ IF transport # "stream" /\ cancelled
       THEN End("cancelled")
       ELSE Goto(IF transport = "download" THEN "create" ELSE "open")
    /\ UNCHANGED <<trees, kind, walk, xfer, progress, cancelled, history, copied, cut, late, faulted>>

OpenSource ==
    /\ AtItem("open")
    /\ IF src[Item.path].kind = "file"
       THEN /\ reader' = src[Item.path] /\ pos' = 0 /\ held' = Absent
            /\ Goto(IF transport = "download" THEN "pump" ELSE "create")
       ELSE /\ End(Error)
            /\ UNCHANGED <<reader, pos, held>>
    /\ UNCHANGED <<trees, kind, walk, transport, progress, cancelled, history, copied, cut, late, faulted>>

\* Mutant: an existing destination file is opened without truncating it.
CreateDest_NoTruncate ==
    /\ AtItem("create")
    /\ IF CanCreate(dst, Item.path)
       THEN /\ PutDst(Item.path, IF Exists(dst, Item.path) THEN dst[Item.path] ELSE File("blank", 0))
            /\ MarkLate /\ reader' = reader
            /\ Goto(IF transport = "download" THEN "open" ELSE "pump")
       ELSE End(Error) /\ UNCHANGED <<trees, reader, late>>
    /\ UNCHANGED <<kind, walk, transport, pos, held, progress, cancelled, history, copied, cut, faulted>>

CreateDest ==
    /\ AtItem("create")
    /\ IF CanCreate(dst, Item.path)
       THEN /\ PutDst(Item.path, File("blank", 0)) /\ MarkLate
            /\ reader' = IF SameDir /\ transport = "stream" THEN File("blank", 0) ELSE reader
            /\ Goto(IF transport = "download" THEN "open" ELSE "pump")
       ELSE /\ End(Error)
            /\ UNCHANGED <<trees, reader, late>>
    /\ UNCHANGED <<kind, walk, transport, pos, held, progress, cancelled, history, copied, cut, faulted>>

\* A file, or what is held of one, with one more chunk.
Grown(f, d) == File(IF f.len = 0 \/ f.data = d THEN d ELSE "torn", f.len + 1)

\* The token is looked at and a chunk is read.  The stream transport, and a
\* download's loop around ProgressIo::write, have one chunk in hand.  Over the
\* agent an upload's read_file goes on while earlier chunks are on their way.
ReadChunk ==
    /\ AtItem("pump") /\ ~cancelled /\ pos < reader.len
    /\ held.len < (IF transport = "upload" THEN ReadAhead ELSE 1)
    /\ held' = Grown(held, reader.data) /\ pos' = pos + 1
    /\ UNCHANGED <<trees, kind, pc, walk, transport, reader, progress, cancelled, outcome,
                   history, copied, cut, late, faulted>>

\* write_all: the token is not looked at again before a chunk that has been
\* read is written.
WriteChunk ==
    /\ AtItem("pump") /\ held.len > 0
    /\ PutDst(Item.path, Grown(dst[Item.path], held.data)) /\ MarkLate
    /\ held' = IF held.len = 1 THEN Absent ELSE File(held.data, held.len - 1)
    /\ UNCHANGED <<kind, pc, walk, transport, reader, pos, progress, cancelled, outcome,
                   history, copied, cut, faulted>>

\* Mutants: a short read is taken for the end of the file; the stream transport
\* counts the file as well; the source goes as soon as its own copy is done.
TransferDone_ShortRead ==
    /\ AtItem("pump") /\ held.len = 0 /\ pos >= 1 /\ ~cancelled
    /\ done' = done + 1 /\ ItemCopied
    /\ UNCHANGED <<trees, kind, todo, plan, xfer, total, cancelled, history, cut, late, faulted>>
TransferDone_CountsTwice ==
    /\ AtItem("pump") /\ held.len = 0 /\ pos >= reader.len /\ ~cancelled
    /\ done' = done + 2 /\ ItemCopied
    /\ UNCHANGED <<trees, kind, todo, plan, xfer, total, cancelled, history, cut, late, faulted>>
TransferDone_DropsSource ==
    /\ AtItem("pump") /\ held.len = 0 /\ pos >= reader.len /\ ~cancelled
    /\ done' = done + 1 /\ ItemCopied
    /\ DropSrc(Item.path)
    /\ UNCHANGED <<kind, todo, plan, xfer, total, cancelled, history, cut, late, faulted>>

\* read() has returned 0.  Over the agent the token may have been set since.
\* QuicSideTransport counts the file, and so does apply_copy_item once the
\* transfer has returned.
Transferred ==
    /\ done' = done + (IF transport = "stream" THEN 1 ELSE 2)
    /\ ItemCopied
    /\ UNCHANGED <<kind, todo, plan, xfer, total, cancelled, history, late>>
TransferDone ==
    /\ AtItem("pump") /\ held.len = 0 /\ pos >= reader.len /\ (transport = "stream" => ~cancelled)
    /\ Transferred
    /\ UNCHANGED <<trees, cut, faulted>>

\* The agent answers Ok all the same: where reading the file fails on its
\* side, the stream ends as at the end of the file; where its last write, still
\* in flight when it answers, fails, nobody asks.
TransferCut ==
    /\ AtItem("pump") /\ held.len = 0 /\ PeerFaults
    /\ \/ transport = "download" /\ pos < reader.len /\ UNCHANGED trees
       \/ /\ transport = "upload" /\ pos >= reader.len /\ dst[Item.path].len > 0
          /\ PutDst(Item.path, [dst[Item.path] EXCEPT !.len = @ - 1])
    /\ Transferred
    /\ cut' = cut \cup {Item.path} /\ faulted' = TRUE

\* Mutant: an interrupted read is retried like an interrupted write.
TransferCancelled_Retried ==
    /\ AtItem("pump") /\ cancelled /\ transport = "stream" /\ held.len = 0
    /\ End("cancelled")
    /\ UNCHANGED <<trees, kind, walk, xfer, progress, cancelled, history, copied, cut, late, faulted>>

\* The token is set before the next chunk.  ProgressIo reports it as
\* ErrorKind::Interrupted: an upload's read fails with it, a download's
\* write_all calls write again (and again).
TransferCancelled ==
    /\ AtItem("pump") /\ cancelled /\ transport # "download" /\ (transport = "stream" => held.len = 0)
    /\ End("cancelled")
    /\ UNCHANGED <<trees, kind, walk, xfer, progress, cancelled, history, copied, cut, late, faulted>>
WriteAllRetries ==
    /\ AtItem("pump") /\ cancelled /\ transport = "download" /\ held.len = 0 /\ pos < reader.len
    /\ UNCHANGED vars

\* Mutants: the index restarts at zero; the last planned entry is never reached.
CopyFinished_ZeroBased ==
    /\ pc = "copyCheck" /\ idx > Len(plan)
    /\ IF kind = "copy"
       THEN End("completed") /\ UNCHANGED <<walk, progress>>
       ELSE /\ \E items \in Listings(Visits(Items)) : todo' = items
            /\ plan' = <<>> /\ idx' = 0 /\ done' = 0 /\ total' = 0
            /\ Goto("delWalk")
    /\ UNCHANGED <<trees, kind, xfer, cancelled, history, copied, cut, late, faulted>>
CopyFinished_SkipsLast ==
    /\ pc = "copyCheck" /\ idx >= Len(plan)
    /\ End("completed")
    /\ UNCHANGED <<trees, kind, walk, progress, xfer, cancelled, history, copied, cut, late, faulted>>

\* The plan is used up.  move_cross_backend goes on to delete_job.
CopyFinished ==
    /\ pc = "copyCheck" /\ idx > Len(plan)
    /\ IF kind = "copy"
       THEN End("completed") /\ UNCHANGED <<walk, progress>>
       ELSE /\ \E items \in Listings(Visits(Items)) : todo' = items
            /\ plan' = <<>> /\ idx' = 1 /\ done' = 0 /\ total' = 0
            /\ Goto("delWalk")
    /\ UNCHANGED <<trees, kind, xfer, cancelled, history, copied, cut, late, faulted>>

-----------------------------------------------------------------------------
(* delete_job, on the items as they are by now.                            *)

\* Mutant: a directory is pushed before what is below it.
WalkForDelete_PreOrder ==
    /\ pc = "delWalk" /\ todo # <<>>
    /\ LET p == Head(todo).path IN
       IF ~Exists(src, p)
       THEN End("failed") /\ UNCHANGED walk
       ELSE /\ plan' = Append(plan, Planned(p, src[p].kind))
            /\ \E kids \in Listings(Visits(Named(src, p))) : todo' = kids \o Tail(todo)
            /\ Goto("delWalk") /\ UNCHANGED idx
    /\ UNCHANGED <<trees, kind, xfer, progress, cancelled, history, copied, cut, late, faulted>>

\* walk_for_delete: a directory is pushed after everything below it.
WalkForDelete ==
    /\ pc = "delWalk" /\ todo # <<>>
    /\ LET p == Head(todo).path IN
       IF Head(todo).post
       THEN /\ plan' = Append(plan, Planned(p, "dir"))
            /\ todo' = Tail(todo) /\ Goto("delWalk") /\ UNCHANGED <<idx, faulted>>
       ELSE IF ~Exists(src, p)
       THEN End("failed") /\ UNCHANGED <<walk, faulted>>
       ELSE IF src[p].kind = "dir"
       THEN /\ \E shown \in Shown(src, SrcWhere, p) : \E kids \in Listings(Visits(shown)) :
                   /\ todo' = kids \o <<[path |-> p, post |-> TRUE]>> \o Tail(todo)
                   /\ faulted' = (faulted \/ shown # Named(src, p))
            /\ Goto("delWalk") /\ UNCHANGED <<plan, idx>>
       ELSE /\ plan' = Append(plan, Planned(p, src[p].kind))
            /\ todo' = Tail(todo) /\ Goto("delWalk") /\ UNCHANGED <<idx, faulted>>
    /\ UNCHANGED <<trees, kind, xfer, progress, cancelled, history, copied, cut, late>>

StartDeleting ==
    /\ pc = "delWalk" /\ todo = <<>>
    /\ total' = Len(plan)
    /\ Goto("delCheck")
    /\ UNCHANGED <<trees, kind, walk, xfer, done, cancelled, history, copied, cut, late, faulted>>

\* Mutant: the token is not read between deletions.
DeleteNext_NoCheck ==
    /\ AtItem("delCheck")
    /\ Goto("delApply")
    /\ UNCHANGED <<trees, kind, walk, xfer, progress, cancelled, history, copied, cut, late, faulted>>

DeleteNext ==
    /\ AtItem("delCheck")
    /\ IF cancelled THEN End("cancelled") ELSE Goto("delApply")
    /\ UNCHANGED <<trees, kind, walk, xfer, progress, cancelled, history, copied, cut, late, faulted>>

DeleteItem ==
    /\ AtItem("delApply")
    /\ IF CanRemove(src, Item.path, Item.kind)
       THEN /\ DropSrc(Item.path) /\ MarkLate
            /\ idx' = idx + 1 /\ done' = done + 1
            /\ Goto("delCheck")
       ELSE End("failed") /\ UNCHANGED <<trees, idx, done, late>>
    /\ UNCHANGED <<kind, todo, plan, xfer, total, cancelled, history, copied, cut, faulted>>

-----------------------------------------------------------------------------
(* move_job: one rename per item.                                          *)

RenameNext ==
    /\ AtItem("renCheck")
    /\ IF cancelled THEN End("cancelled") ELSE Goto("renApply")
    /\ UNCHANGED <<trees, kind, walk, xfer, progress, cancelled, history, copied, cut, late, faulted>>

RenameItem ==
    /\ AtItem("renApply")
    /\ IF CanRename(Item.path)
       THEN /\ dst' = [q \in Path |-> IF ItemOf[q] = Item.path THEN src[q] ELSE dst[q]]
            /\ src' = [q \in Path |-> IF ItemOf[q] = Item.path THEN Absent ELSE src[q]]
            /\ MarkLate
            /\ idx' = idx + 1 /\ done' = done + 1
            /\ Goto("renCheck")
       ELSE End("failed") /\ UNCHANGED <<trees, idx, done, late>>
    /\ UNCHANGED <<kind, todo, plan, xfer, total, cancelled, history, copied, cut, faulted>>

JobFinished ==
    /\ pc \in {"delCheck", "renCheck"} /\ idx > Len(plan)
    /\ End("completed")
    /\ UNCHANGED <<trees, kind, walk, xfer, progress, cancelled, history, copied, cut, late, faulted>>

-----------------------------------------------------------------------------
\* Any Vfs call may fail; `?` ends the job there.  (CopyLink ignores it.)
VfsFails ==
    /\ IoFaults
    /\ \/ pc \in {"copyWalk", "delWalk"} /\ todo # <<>> /\ ~Head(todo).post
       \/ pc = "copyApply" /\ Item.kind = "dir"
       \/ pc \in {"open", "create", "delApply", "renApply"}
       \/ pc = "pump" /\ (transport = "stream" /\ held.len = 0 => ~cancelled)
    /\ End(Error)
    /\ faulted' = TRUE
    /\ UNCHANGED <<trees, kind, walk, xfer, progress, cancelled, history, copied, cut, late>>

\* The UI sets the token (Esc in the progress dialog).
Cancel ==
    /\ pc # "done" /\ ~cancelled
    /\ cancelled' = TRUE
    /\ UNCHANGED <<trees, kind, pc, walk, xfer, progress, outcome, history, copied, cut, late, faulted>>

\* Another program writes or removes a source file.  A file being read shows
\* the new content through the open handle; a removed one keeps its content.
OtherProgram ==
    /\ pc # "done" /\ edits < MaxEdits
    /\ \E p \in Path :
       /\ src[p].kind \in {"none", "file"} /\ Parent[p] \in Dirs(src)
       /\ \/ /\ src' = [src EXCEPT ![p] = File("edited", Chunks)]
             /\ reader' = IF pc \in {"create", "pump"} /\ idx <= Len(plan) /\ Item.path = p
                             /\ src[p].kind = "file"
                          THEN File("edited", Chunks) ELSE reader
          \/ /\ src[p].kind = "file"
             /\ src' = [src EXCEPT ![p] = Absent]
             /\ reader' = reader
       /\ dst' = IF SameDir THEN src' ELSE dst
       /\ touched' = touched \cup {p}
    /\ edits' = edits + 1
    /\ UNCHANGED <<kind, pc, walk, transport, pos, held, progress, cancelled, outcome, orig,
                   copied, missed, cut, late, faulted>>

JobStep ==
    \/ WalkForCopy \/ StartCopying \/ CopyNext \/ CopyDir \/ CopyLink
    \/ BeginTransfer \/ OpenSource \/ CreateDest \/ ReadChunk \/ WriteChunk \/ TransferDone
    \/ TransferCancelled \/ CopyFinished
    \/ WalkForDelete \/ StartDeleting \/ DeleteNext \/ DeleteItem
    \/ RenameNext \/ RenameItem \/ JobFinished

Terminated == pc = "done" /\ UNCHANGED vars

Next == JobStep \/ VfsFails \/ ChmodFails \/ TransferCut \/ WriteAllRetries \/ Cancel \/ OtherProgram \/ Terminated

Spec == Init /\ [][Next]_vars

\* The operating system keeps scheduling the job thread; no call has to fail.
FairSpec == Spec /\ WF_vars(JobStep)

-----------------------------------------------------------------------------
(* Properties.                                                             *)

\* Every variable holds a value of its kind.
PCs == {"copyWalk", "copyCheck", "copyApply", "open", "create", "pump", "delWalk",
        "delCheck", "delApply", "renCheck", "renApply", "done"}
TypeOK ==
    /\ src \in [Path -> Node] /\ dst \in [Path -> Node] /\ orig \in [Path -> Node]
    /\ kind \in JobKinds /\ pc \in PCs
    /\ todo \in Seq([path : Path, post : BOOLEAN])
    /\ plan \in Seq([path : Path, kind : NodeKinds])
    /\ idx \in Nat \ {0} /\ pos \in Nat /\ done \in Nat /\ total \in Nat
    /\ transport \in {"none", "stream", "upload", "download"}
    /\ reader \in Node /\ held \in Node
    /\ cancelled \in BOOLEAN /\ faulted \in BOOLEAN
    /\ outcome \in {"none", "completed", "cancelled", "failed"}
    /\ {touched, copied, missed, cut, late} \subseteq SUBSET Path
    /\ edits \in Nat

Selected(p) == ItemOf[p] \in Items
\* An entry that was there when the job was spawned and that no other program
\* has changed since.
Original(p) == orig[p].kind # "none" /\ p \notin touched

\* An entry the copy has not been shown, or that lies below one.
Unseen(p) == \E q \in missed : p \in Below[q]
\* An entry that cannot be listed, or that lies below one.
Unlisted(p) == \E q \in NotUtf8 : p \in Below[q]

\* A move never loses a file: once a file has left the source, all of it is at
\* the destination, whatever failed, was cancelled or changed in between
\* (move_cross_backend deletes only after copy_job has returned Ok), unless the
\* calls it relies on have misled it about this very file: a listing that
\* passed over an entry it could not read, or an agent that answered Ok.  A
\* name that is not UTF-8 is no such excuse.
NothingLost ==
    kind \in {"moveCross", "rename"} =>
        \A p \in Path :
            Original(p) /\ orig[p].kind = "file" /\ ~Exists(src, p) =>
                dst[p] = orig[p] \/ Unseen(p) \/ p \in cut

\* The comment at move_cross_backend: "a copy followed by deleting the originals
\* (only once the copy fully succeeded)".
MovesKeepFiles ==
    kind = "moveCross" =>
        \A p \in Path :
            Original(p) /\ orig[p].kind = "file" /\ ~Exists(src, p) => dst[p] = orig[p]

\* A job that reports Completed has done all of it: every selected original
\* is at the destination and, unless this was a copy, gone from the source.
\* (The copying jobs only attempt symlinks, see LinksSurvive; they pass over
\* what their listings do, and believe the agent.)
CompletedIsComplete ==
    outcome = "completed" =>
        \A p \in Path : Original(p) /\ Selected(p) =>
            /\ kind # "copy" => ~Exists(src, p)
            /\ kind # "delete" =>
                  \/ dst[p] = orig[p]
                  \/ kind # "rename" /\ (orig[p].kind = "link" \/ Unseen(p) \/ p \in cut)
                  \/ kind = "copy" /\ Unlisted(p)

\* A job fails only for a reason outside it: a Vfs call that failed, another
\* program's change, an entry in the way at the destination, or a directory
\* to be removed that holds a name no listing shows.  In particular
\* deleting in post-order never meets a directory that still has other entries,
\* and no entry is created twice.
OnlyRealFailures ==
    outcome = "failed" /\ ~faulted /\ touched = {} =>
        /\ idx <= Len(plan)
        /\ \/ kind # "delete" /\ Item.path \notin copied /\ Exists(dst, Item.path)
           \/ /\ kind = "delete" \/ (kind = "moveCross" /\ Item.path \in copied)
              /\ Item.kind = "dir" /\ Children(src, Item.path) \cap NotUtf8 # {}

\* After the token is set the job changes at most the one entry it had in
\* hand: one mkdir, symlink, remove or rename, or the rest of what it does
\* to one file, which is to create it and write what has been read.
PromptStop == Cardinality(late) <= 1

\* A destination file never mixes contents: what is there is a prefix of the
\* one source file it stands for (create_write truncates what was there).
NoMixedContent == \A p \in Path : p \notin touched => dst[p].data # "torn"

\* files_done never passes files_total, and reaches it when a job completes
\* (symlinks are counted in the total and never as done).
ProgressSound ==
    /\ done <= total
    /\ outcome = "completed" /\ (\A i \in DOMAIN plan : plan[i].kind # "link") => done = total

\* The job thread always ends: every job sends its Finished event.
JobEnds == <>(pc = "done")

\* A move deletes an entry of the source only if it has copied it before.
DeletesOnlyCopied ==
    [][\A p \in Path : kind = "moveCross" /\ pc = "delApply" /\ Exists(src, p)
            => Exists(src', p) \/ p \in copied]_vars

\* A move keeps every symlink too, at one end or at the other.
LinksSurvive ==
    kind = "moveCross" =>
        \A p \in Path :
            Original(p) /\ orig[p].kind = "link" /\ ~Exists(src, p) => Exists(dst, p)

\* Copying leaves the originals in place.
CopyKeepsSource ==
    kind = "copy" => \A p \in Path : Original(p) => src[p] = orig[p]

=============================================================================
