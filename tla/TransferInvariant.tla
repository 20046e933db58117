-------------------------- MODULE TransferInvariant --------------------------
(***************************************************************************)
(* The inductive invariants behind the properties of TransferJob.          *)
(*                                                                         *)
(* IInv is behind NothingLost and NoMixedContent.  A move is safe because  *)
(* the walk leaves no original behind that its listings show (Closed),     *)
(* every planned file is whole at the destination once its step is over    *)
(* (CopiedIsWhole, TransferExact), and the second walk finds only what the *)
(* first one found, passed over (Unseen) or what another program put there *)
(* (DeletesKnown).                                                         *)
(*                                                                         *)
(* StopsSoon is behind PromptStop and Counted behind ProgressSound; each   *)
(* is inductive with TypeOK alone.  WInv, on top of IInv, says in which    *)
(* order the walks plan what they find and what the steps already taken    *)
(* have left at the two ends: it is behind CompletedIsComplete,            *)
(* OnlyRealFailures and ImplementsMoveContract.                            *)
(***************************************************************************)
EXTENDS TransferJob

Copying == {"copyWalk", "copyCheck", "copyApply", "open", "create", "pump"}
Deleting == {"delWalk", "delCheck", "delApply"}
Renaming == {"renCheck", "renApply"}

PlannedPaths == {plan[i].path : i \in DOMAIN plan}
TodoPaths == {todo[i].path : i \in DOMAIN todo}

\* The source as spawned is a tree whose files are whole.
OrigIsTree ==
    /\ \A p \in Path : orig[p] \in {Absent, Leaf("dir"), Leaf("link"), File("orig", Chunks)}
    /\ \A p \in Path : Exists(orig, p) => Parent[p] \in Dirs(orig)

\* Nobody but the job takes away a directory, a link or an untouched file.
SourceKnown ==
    /\ \A p \in Path : p \notin touched => src[p] \in {orig[p], Absent}
    /\ \A p \in touched : src[p].kind \in {"none", "file"}
    /\ pc \in Copying =>
        /\ \A p \in Path : p \notin touched => src[p] = orig[p]
        /\ \A p \in touched : orig[p].kind \in {"none", "file"}

KindsMatch ==
    /\ kind = "moveCross" => pc \in Copying \cup Deleting \cup {"done"}
    /\ kind = "rename" => pc \in Renaming \cup {"done"}
    /\ kind = "copy" => pc \in Copying \cup {"done"}
    /\ kind = "delete" => pc \in Deleting \cup {"done"}
    /\ pc \in Copying /\ pc # "copyWalk" => transport # "none"

\* While copying, an entry whose directory has been listed is planned or is
\* about to be, unless the listing left it out; so are the selected items.
Closed ==
    pc \in Copying =>
        /\ pc # "copyWalk" => todo = <<>>
        /\ \A i \in DOMAIN plan : plan[i].path \notin touched => plan[i].kind = orig[plan[i].path].kind
        /\ Items \subseteq PlannedPaths \cup TodoPaths
        /\ \A c \in Path : Original(c) /\ Parent[c] \in PlannedPaths =>
               c \in PlannedPaths \cup TodoPaths \cup missed \cup NotUtf8

\* The file in hand holds as much of the source as has been read, but for what
\* is held.
TransferExact ==
    pc \in {"open", "create", "pump"} =>
        /\ idx <= Len(plan) /\ Item.kind = "file"
        /\ Item.path \notin touched =>
            /\ (pc = "pump" \/ (pc = "create" /\ transport # "download")) =>
                   reader = orig[Item.path] /\ pos <= Chunks
            /\ pc = "create" /\ transport # "download" => pos = 0 /\ held = Absent
            /\ pc = "open" /\ transport = "download" => dst[Item.path] = File("blank", 0)
            /\ pc = "pump" =>
                /\ held.len <= pos /\ (held.len > 0 => held.data = "orig")
                /\ dst[Item.path] = File(IF pos = held.len THEN "blank" ELSE "orig", pos - held.len)

\* What has been copied is whole, unless it is being copied again, or a remote
\* agent has cut it short.
CopiedIsWhole ==
    /\ pc = "copyWalk" => idx = 1
    /\ pc \in Copying =>
        /\ copied \subseteq PlannedPaths
        /\ \A i \in DOMAIN plan : i < idx => plan[i].path \in copied
    /\ pc \in Copying \cup Deleting =>
        \A p \in copied : Original(p) /\ orig[p].kind = "file" =>
            \/ dst[p] = orig[p] \/ p \in cut
            \/ pc \in {"open", "create", "pump"} /\ p = Item.path

\* Before anything is deleted all items, and whatever the listing of a copied
\* directory showed, have been copied; only such entries are deleted, and what
\* lies below one the copy was not shown.
DeletesKnown ==
    kind = "moveCross" /\ pc \in Deleting =>
        /\ Items \subseteq copied
        /\ \A c \in Path : Original(c) /\ Parent[c] \in copied => c \in copied \cup missed \cup NotUtf8
        /\ \A p \in PlannedPaths \cup TodoPaths : p \in copied \cup touched \/ Unseen(p)

\* A rename moves whole items, each once.
RenamesWhole ==
    kind = "rename" /\ pc \in Renaming =>
        /\ \A i, j \in DOMAIN plan : plan[i].path = plan[j].path => i = j
        /\ \A i \in DOMAIN plan : \A q \in Path : Original(q) /\ ItemOf[q] = plan[i].path =>
            IF i < idx THEN dst[q] = orig[q] ELSE src[q] = orig[q]
        /\ \A q \in Path : Original(q) /\ ItemOf[q] \notin PlannedPaths => src[q] = orig[q]

\* Everything but the types.
Core ==
    /\ OrigIsTree
    /\ SourceKnown
    /\ KindsMatch
    /\ Closed
    /\ TransferExact
    /\ CopiedIsWhole
    /\ DeletesKnown
    /\ RenamesWhole
    /\ NothingLost

IInv == TypeOK /\ Core

-----------------------------------------------------------------------------
(* Cancellation and progress.                                              *)

\* What the job has changed since the token was set is one entry: the one in
\* hand, or when there is none in hand the token will be read before the next.
StopsSoon ==
    /\ \A p, q \in late : p = q
    /\ late # {} =>
        /\ cancelled
        /\ pc \notin {"copyWalk", "copyApply", "delApply", "renApply"}
        /\ pc \in {"open", "create", "pump"} => late = {Item.path}

\* The entries that count: those of the total, and those done so far.
ToCount == {i \in DOMAIN plan : plan[i].kind # "dir"}
CountedSoFar == {i \in DOMAIN plan : i < idx /\ plan[i].kind = "file"}

\* The counters agree with the plan, over the stream transport.
Counted ==
    /\ pc \in {"copyWalk", "delWalk"} => done = 0 /\ total = 0 /\ idx = 1
    /\ pc \in Copying => \A i \in DOMAIN plan : plan[i].kind # "none"
    /\ pc \in Copying \ {"copyWalk"} =>
        /\ transport = "stream"
        /\ total = Cardinality(ToCount) /\ done = Cardinality(CountedSoFar)
        /\ idx <= Len(plan) + 1
    /\ pc \in {"open", "create", "pump"} => idx <= Len(plan) /\ Item.kind = "file"
    /\ pc \in {"delCheck", "delApply"} \cup Renaming =>
        total = Len(plan) /\ done + 1 = idx /\ idx <= Len(plan) + 1
    /\ ProgressSound
    /\ pc # "done" => outcome = "none"

-----------------------------------------------------------------------------
(* What the walks plan, and what the steps taken so far have left.         *)

PathsOf(s) == {s[i].path : i \in DOMAIN s}
PostOf(s) == {s[j].path : j \in {i \in DOMAIN s : s[i].post}}
Once(s) == \A i, j \in DOMAIN s : s[i].path = s[j].path => i = j

\* Entries whose children have been listed.
Expanded == PlannedPaths \cup PostOf(todo)

\* No entry is planned twice, or planned and still to be visited.
PathsOnce ==
    pc \in Copying \cup Deleting =>
        /\ Once(plan) /\ Once(todo) /\ PlannedPaths \cap TodoPaths = {}
        /\ \A c \in PlannedPaths \cup TodoPaths : Parent[c] = Root \/ Parent[c] \in Expanded
        /\ pc \notin {"copyWalk", "delWalk"} => todo = <<>>
        /\ pc = "copyWalk" => \A j \in DOMAIN todo : ~todo[j].post

\* A copied entry's directory is planned before it.
ParentsFirst ==
    pc \in Copying =>
        /\ \A i \in DOMAIN plan : Parent[plan[i].path] # Root =>
               \E j \in DOMAIN plan : j < i /\ plan[j].path = Parent[plan[i].path] /\ plan[j].kind = "dir"
        /\ \A i \in DOMAIN todo : Parent[todo[i].path] # Root =>
               \E j \in DOMAIN plan : plan[j].path = Parent[todo[i].path] /\ plan[j].kind = "dir"

\* The copy steps taken are those before idx.
CopiedSoFar ==
    /\ pc \in Copying => \A i \in DOMAIN plan : plan[i].kind # "none"
    /\ pc \in Copying => \A p \in copied : \E i \in DOMAIN plan : i < idx /\ plan[i].path = p
    /\ pc \in Copying => \A i \in DOMAIN plan : i < idx /\ plan[i].kind = "dir" => dst[plan[i].path].kind = "dir"
    /\ pc \in Renaming => copied = {}

\* The destination: its directories hold no data of their own, the file in hand
\* is there, and a source file's data only in a file that is or was in hand.
TargetKnown ==
    /\ \A p \in Path : dst[p].kind = "dir" => dst[p] = Leaf("dir")
    /\ pc = "pump" \/ (pc = "open" /\ transport = "download") => dst[Item.path].kind = "file"
    /\ pc \in Copying => \A p \in Path : dst[p].data = "orig" =>
           p \in copied \/ (pc = "pump" /\ p = Item.path)

\* Once a move deletes, every selected original has arrived.
AllArrived ==
    kind = "moveCross" /\ pc \in Deleting =>
        \A p \in Path : Original(p) /\ Selected(p) =>
            dst[p] = orig[p] \/ orig[p].kind = "link" \/ Unseen(p) \/ Unlisted(p) \/ p \in cut

\* Every selected entry is planned for deletion, and gone after its turn.
DeletedSoFar ==
    /\ pc \in Deleting => Items \subseteq PlannedPaths \cup TodoPaths
    /\ pc = "delWalk" => idx = 1
    /\ pc \in Deleting => \A i \in DOMAIN plan : i < idx /\ plan[i].path \notin touched =>
           ~Exists(src, plan[i].path)

\* No entry that a listing cannot show is planned for deletion, so each of them
\* that was there is there still.
HiddenLeft ==
    pc \in Deleting =>
        /\ \A p \in PlannedPaths \cup TodoPaths : ~Unlisted(p)
        /\ \A p \in Path : Original(p) /\ Unlisted(p) => src[p] = orig[p]

\* The selected entries are the plan of a rename, and gone after their turn.
RenamedSoFar ==
    pc \in Renaming =>
        /\ PlannedPaths = Items
        /\ \A i \in DOMAIN plan : \A q \in Path :
               i < idx /\ Original(q) /\ ItemOf[q] = plan[i].path => ~Exists(src, q)

\* As long as nobody interferes and no listing is at fault, the delete walk's
\* frames are there, everything in a directory that has a name to go by comes
\* before the directory, and what is planned but not yet deleted is as it was
\* planned.
ChildrenFirst ==
    touched = {} /\ ~faulted /\ pc \in Deleting =>
        /\ \A j \in DOMAIN todo : Exists(src, todo[j].path) /\ (todo[j].post => src[todo[j].path].kind = "dir")
        /\ \A j \in DOMAIN todo : todo[j].post =>
               \A c \in Named(src, todo[j].path) :
                   c \in PlannedPaths \/ \E k \in DOMAIN todo : k < j /\ todo[k].path = c
        /\ \A i \in DOMAIN plan : i >= idx =>
               plan[i].kind = src[plan[i].path].kind /\ Exists(src, plan[i].path)
        /\ \A i \in DOMAIN plan : plan[i].kind = "dir" =>
               \A c \in Named(src, plan[i].path) : \E k \in DOMAIN plan : k < i /\ plan[k].path = c

\* Likewise what the copy walk is to visit, and what a rename is to move.
SourcesThere ==
    touched = {} =>
        /\ pc = "copyWalk" => \A j \in DOMAIN todo : Exists(src, todo[j].path)
        /\ pc \in Renaming => \A i \in DOMAIN plan : i >= idx => Exists(src, plan[i].path)

Ordered ==
    /\ WellFormed(src)
    /\ PathsOnce
    /\ ParentsFirst
    /\ CopiedSoFar
    /\ TargetKnown
    /\ AllArrived
    /\ DeletedSoFar
    /\ HiddenLeft
    /\ RenamedSoFar
    /\ ChildrenFirst
    /\ SourcesThere
    /\ missed # {} => faulted
    /\ pc # "done" => outcome = "none"
    /\ CompletedIsComplete
    /\ OnlyRealFailures

WInv == IInv /\ Ordered
=============================================================================
