# A verification project for pfnc

pfnc is a two-panel file manager for the terminal.  Its panels show local
directories, directories on SFTP hosts, and archives; it copies, moves,
deletes and synchronises between them in background jobs, and it can speed up
transfers with an agent it deploys on the remote host and talks to over QUIC.

This directory holds TLA+ models of the program's core, the TLC configurations
that check them, and theorems with TLAPS proofs.  Paths below are relative to
`src/crates/` unless they name a `.tla` or `.cfg` file.

- [The system](#the-system): its parts, their state, and how they meet
- [The modules](#the-modules): which one models what, and how
- [The runs](#the-runs): what each checks, its bounds, what it shows
- [Fairness](#fairness)
- [What is proved](#what-is-proved)
- [Where the code and its documents disagree](#where-the-code-and-its-documents-disagree)
- [What is not modelled](#what-is-not-modelled)
- [Plan](#plan)

## The system

The program has one UI thread (`app/src/main.rs`, `run`), one input thread
that reads the terminal, and one thread per background job.

| part | state | operations | meets the others through |
|---|---|---|---|
| main loop, commands (`app/main.rs`, `actions.rs`, `app.rs`) | mode, two panels, active side, config | `handle_key` by mode, `handle_job_event` | a `Select` over the input and the job channel |
| job manager (`core/job.rs`) | handles, next id, event channel | `spawn`, `cancel`, `reap` | a `CancellationToken` per job; Progress and Finished events |
| file jobs (`core/job.rs`) | plan, index, progress | `copy_job`, `delete_job`, `move_job`, `move_cross_backend` | two `Vfs` objects, a `Transport` |
| sync jobs (`core/job.rs`) | `SyncPlan` in a `SyncPlanCell` | `build_sync_plan`, `execute_sync_plan` | the cell is filled by one job, shown by the loop, executed by another |
| transports (`core/transport.rs`) | open handles, progress | `transfer`, `negotiate_transport` | `Vfs` streams, or a `RemoteFileAgent` |
| QUIC agent client (`vfs-sftp/quic_agent.rs`) | two threads, a bounded channel, one stream per call | `read_file`, `write_file` | the agent |
| QUIC agent (`agent-linux`) | one handler per stream | `handle_read_file`, `handle_write_file` | QUIC streams, the remote disk |
| agent deployment (`vfs-sftp/deploy.rs`) | `OnceLock` with the result | `deploy_and_start`, `connect_quic_agent` | SSH, the first caller of `fast_transport` |
| registry (`app/registry.rs`) | connections, opened archives | `resolve`, `connect_and_cache`, `open_archive_and_cache` | mutexes shared by the UI and job threads |
| editor (`app/editor.rs`) | `InputGate`, a temporary file | `edit_file` | the gate, looked at by the input thread |
| panel (`core/panel.rs`) | cursor, offset, height, entries | `move_cursor`, `clamp_cursor`, `sync_viewport` | the loop and the drawing code |
| dialogs, text fields (`core/mode.rs`) | text, cursor, form fields | editing keys | the loop |
| local, SFTP and archive backends (`vfs-*`) | connections, index | `Vfs` | the jobs and the panels |
| host keys (`vfs-sftp/hostkey.rs`) | `known_hosts` | check, add | connect |
| configuration (`config`) | a TOML file | load, save | start and exit |
| drawing, key map (`tui`, `app/ui.rs`, `keymap.rs`) | none | | |

What makes it hard:

- a job's calls fail or are cancelled one by one, and a move deletes;
- other programs change both trees between the walk, the copy and the second walk;
- a sync's plan is executed minutes after it was made;
- two threads and a remote task hand chunks on through a channel and a stream
  that can each be full, closed or cut;
- job events arrive in whatever mode the loop is by then, and a reconnect can
  overtake the warm-up of the connection it replaces;
- the input thread learns only by polling that the terminal is lent out;
- a connection has many holders, the first of them that asks deploys its agent
  while the others wait, and the last to let go must kill it;
- several instances, `ssh` and the user's own editor rewrite the same files, each
  of them whole and without a lock.

What would make each part correct: a move loses no file and a completed job
has done all of it; a cancelled job stops; `Ok` from the agent means the whole
file; no thread waits for ever; a completed sync is a mirror and deletes only
what was listed; a dialog is there exactly while its job is, it is about what
the panels show, and no panel is at a place nobody can resolve; the cursor is on
the screen; every agent is somebody's to kill, and none is killed in use; what
the user has saved, in an editor, as a profile or as a host key, stays saved;
every entry of an archive can be reached and opened.

## The modules

### `TransferJob` - file jobs, transports, the backends' calls

A tree is a function from `Path` to nodes (kind, content, number of chunks);
one path names a source entry and its counterpart at the destination, as
`walk_for_copy` pairs them.  `pc` follows the job's thread: the walk
(`WalkForCopy`, one visited entry per step), the loop over the plan
(`CopyNext`, `CopyDir`, `CopyLink`), the transfer of a file (`BeginTransfer`,
`OpenSource`, `CreateDest`, `ReadChunk`, `WriteChunk`, `TransferDone`,
`TransferCancelled`, `WriteAllRetries`), then for a move the second walk and the deletions
(`WalkForDelete`, `DeleteNext`, `DeleteItem`), or the renames of a move within
one backend.  `VfsFails` lets any call fail, `Cancel` is the UI setting the
token, `OtherProgram` writes or removes a source file.  `CanMkdir` and
`CanRename` know the differences between `LocalFs` and `SftpFs`.

`list_dir` returns `Ok` also when it has passed over entries.  `Named` leaves out
the names that are not UTF-8 (`NotUtf8`), which neither backend ever shows;
`Shown` lets a local listing leave out any others as well, as `LocalFs` does where
it cannot read an entry's metadata.  That counts as a failing call (`faulted`), the
names do not.  `missed` remembers what the walk of the copy was not shown: the walk
of the deletion may be shown it.  The order of a listing is arbitrary.

The token is read before a chunk is (`ReadChunk`), and not again before it is
written (`WriteChunk`).  `held` is what has been read and not written: one chunk
over the stream, up to `ReadAhead` in an upload through the agent, whose
reading goes on while earlier chunks are on their way.  `late` is the set of entries
that any step has changed since the token was set, those writes included.
`TransferCut` is the agent's `Ok` for a file that is not whole: a download that
stops short because the agent could not read on, or an upload whose last write
failed after the agent had answered.  `ChmodFails` is `LocalFs::mkdir` that
makes the directory and then fails to set its mode.

Abstractions: contents are a few names and a chunk count; `EntryKind::Other`
and a symlink without a known target behave like files and are folded into
them (`SyncJob` keeps `Other` apart); times, and what permissions allow, are left out.
The last write of an upload fails, if it does, when the agent answers; that the
agent may still write what is queued after a call has given up is left to
`QuicTransfer`.

- `MoveContract`: a file is at the source, then at both ends, then at the target,
  and none leaves before all have arrived.  It says nothing of a file that another
  program has changed, that no listing has shown, or that the agent has misreported.
- `TransferRefinement`: the mapping `WhereOf`, and `ImplementsMoveContract`.
- `TransferInvariant`, `TransferProofs`: see [What is proved](#what-is-proved).

### `QuicTransfer` - one `read_file` or `write_file` call

The caller's thread, the scoped network thread, the bounded channel, the two
directions of the stream, the agent's handler and the write a `tokio::fs::File`
has in flight.  Every failing path of the code is an action or a disjunct: local
I/O, the agent's disk, the request refused, the connection lost, a stream
dropped (which finishes it) or stopped.  `CallerHolds` is the point where the
caller's end of the channel is dropped, before the join.  After the network
thread has ended nobody drives the connection, so what was queued arrives in
any prefix (`Cuts`).  `AgentReadFails`, the writes that fail and the
`set_permissions` after the last one (`AgentReceived`, which then answers No) are the
agent's disk; `broken` remembers that a read or a write of it failed.
`StreamContract` says what the transports rely on.  `QuicProofs` holds its
theorems.

### `SyncJob` - scan, plan, approval, execution

`todo` is the recursion of `diff_dir`, `diff_entry`, `push_full_copy` and
`walk_for_delete`; `copies` and `deletes` are the `SyncPlan`.  A replacement
(`CopyNext` with an old entry) removes first and creates in a later step.
`QuickHash` is what `quick_hash` may return per side: remote hashing may be
missing, and the first failing call turns it off.  The user may start a second
round on whatever the first one left.  `OtherProgram` changes either tree, but
not the file being written.  A transfer is two steps here (`TransferJob` has its
details), and progress counters and `LocalFs::mkdir`'s mode are left out.
Listings pass over entries as in `TransferJob` (`Named`, `Shown`): an entry passed over
at the source makes its counterpart a leftover, so this counts as a disturbance
(`disturbed`).  A name that is not UTF-8 is seen on neither side, which leaves the
directory it lies in impossible to remove (`HoldsHidden`); a local recursive removal does
take it along.  `TransferCut` is the agent's `Ok` for a file that is not whole,
and `dropped` has the entries a call has said Ok for, or nobody asked about, that
were not made.  `Other` is a kind of its own: two special files are taken to be alike, one that
is there at the source only is copied as a file.  `Below` is
a path and all below it, written as the least set of its kind, without recursion.
`SyncProofs` holds its theorems.

### `AppLoop` - the main loop, job manager, registry

One action per command and per kind of job event; the UI thread takes one key
or one event at a time, and job threads run in between.  Locations are
sequences of layers (a profile, then archives), directories are two levels
deep and an archive lies in the upper one.  `misses` remembers whose changes a
panel's listing does not show; it is `"all"` once `Reload` has failed to list
anything, which empties the panel (`app.rs:229-232`; the error is only logged), so
that it offers nothing to mark, copy, delete or open (`HasEntries`).  Listings,
cursors, text and progress numbers
are left out; a job reports at most once before it ends.  `JobEnds` includes a
panic.  A lost terminal ends the program and its threads (`InputLost`).
`SessionContract` is the user's view: one command at a time, asked for,
worked on by one job, given back when it is over, and over it is in the end
unless it is an `unstoppable` one, a cancelled download through the agent.
`AppProofs` holds its theorems.

### `EditorGate` - the whole of `edit_file`

The main thread fetches a remote or archived file (`Fetch`), pauses the gate and
waits 80 ms (`grace`), runs the editor (`LaunchEditor`, `EditorWrites`,
`EditorExits`), resumes, compares, and sends back what was written (`OpenTarget`
truncates, `Send` fills).  The input thread checks the gate, polls (100 ms) or
naps (50 ms), then reads without looking again.  A poll that finds something takes all
that has been typed into the terminal library's `queue` (`PollSeesKey`); `ReadKey`
returns one key of it, and the next poll finds the queue first.  A tick is 10 ms and passes only
when neither thread can move: the threads are as prompt as they can be, so what
goes wrong here goes wrong on an idle machine.  `OthersWrite` is another program
at the target.  `written` is exact here: the code compares modification time and
length (`editor.rs:74-77`), which a save of the same length within the grain of the
clock leaves as they were; such a save would not be sent back.  `EditorProofs` holds
its theorems.

### `AgentSession` - connections and the agents they deploy

`th` says where each thread is (the UI thread, the one modal job, the warm-ups)
and with which connection; `held` is the set of `Arc`s of each connection, `cell`
the `OnceLock` in it.  `Dial`, `Insert`, `DropReplaced` are `connect_and_cache`;
`Locked` is the registry's mutex, held while a replaced connection is dropped.
`BeginDeploy` to `KillUnreached` are `deploy_and_start` and `connect_quic_agent` step
by step; `GiveUp` is a failure, which is cached as well.  `Release` is the `Drop` of
an `Arc`, `Kill` what the last one does.  `image` is the uploaded binary, which no
program can write while one runs from it and none can run while one writes
it; `other` is a second pfnc at the same file.  `IdleTimeout` and `AgentDies` are
the faults of the host, `Exit` is the end of the program at any moment, with the
threads it takes along.  What a call sends over its stream is `QuicTransfer`'s.
`AgentProofs` holds its theorems.

### `UserFiles` - `config.toml` and `known_hosts`

Several instances of pfnc.  Each reads the settings when it starts (`Start`,
`Load`; a file it cannot read or parse gives it the defaults), adds a profile when a connection has succeeded (`Connected`) and writes the
file at exit in two steps (`OpenSave` truncates, `WriteSave`); `Leave` is the exit of
one whose terminal is gone, which saves all the same (`main.rs:92-99`).  Its connect job reads
`known_hosts` (`CheckHostKey`), adds a new key and writes the file back, also in two
steps (`OpenHosts`, `WriteHosts`).  Outside them the user edits the settings
(`HandEdit`) or removes a key (`RemoveHost`), `ssh` appends one (`SshAppends`), a host
is set up anew (`NewHostKey`), and a process may be killed (`Die`).

Neither file is locked, so overlapping writers do lose each other's changes.
`harm` records that such a thing has happened, and of which kind: a writer that
had not seen the last change, one that could not parse what it overwrote,
one cut short.  The properties say that nothing *else* loses anything; the
three kinds are listed under the disagreements and the hazards.
`UserFilesProofs` holds its theorems.

### `ArchiveIndex` - the tree of an archive

`build_index`, `list_dir`, `stat` and `open_read` as operators on the sequence of raw
entries an archive decoder returns: an opened archive never changes, so there
is no state.  `SynthesizedAsWritten` compares the set of directories the index adds
with the loop that adds them, read as it stands.  `PanelProofs` holds its theorems;
`MCPanel` evaluates the same statements as assumptions before its run.

### `Panel` - cursor and viewport

The number of entries, the cursor, the offset and the height, with `Reload`,
`ChangeDirectory`, `MoveCursor` and the frame drawn before each key
(`SyncViewport`).  `PanelProofs` holds its theorems.

The `MC...` modules give TLC its trees and times.  Operators whose names end
in `_Something` and whose comments begin with "Mutant" are broken forms of the
operator they are named after; putting one in its place makes TLC report the
property that is meant to catch it.

## The runs

| run | configuration | question | bounds and why they are enough |
|---|---|---|---|
| `move_upload` | `MoveUpload.cfg` | Does a move lose, mix up or forget anything, and does it end? (`NothingLost`, `ImplementsMoveContract`, `JobEnds`, `TypeOK`) | a directory with two entries, a third whose name is not UTF-8, and an entry that is not selected: siblings, nesting, something to stay out of; two chunks, so that a file can be half there; two chunks read ahead; one change by another program |
| `local_jobs` | `LocalJobs.cfg` | What do Completed, Failed, Cancelled and the counters promise? (`CompletedIsComplete`, `OnlyRealFailures`, `PromptStop`, `ProgressSound`) | three levels, two selected items, a name that is not UTF-8 at the bottom, all local kinds of job |
| `agent_download` | `AgentDownload.cfg` | Can a destination file mix contents? (`NoMixedContent`) | two selected items, all kinds of old destination, an agent that may cut files short |
| `quic_calls` | `QuicCalls.cfg` | Is `Ok` the whole file, is the read-ahead bounded, does everybody come back? (`OkIsWhole`, `ReadAheadBounded`, `ImplementsStreamContract`, `CallEnds`) | channel of 2, stream of 2, eight chunks: one more than all places that can hold one |
| `app_session` | `AppSession.cfg` | Do dialogs, jobs, panels, glyphs and the registry stay in step, and does each progress dialog close? (`CommandMatchesPanels`, `ProgressIsLive`, `PlanReady`, `PanelsResolve`, `FreshAfterJobs`, `GlyphsSettle`, `ApprovedFirst`, `ImplementsSession`) | four jobs: a connect, its warm-up, a reconnect and its warm-up, or three commands of the user's; one profile, one archive layer; every command but copy and rename, which differ from move only in the panels they change; deletes unconfirmed, as a confirmed one takes the same dialog as a sync |
| `editor_gate` | `EditorGate.cfg` | Who gets the keys, and where does the text end up? (`EditorHasTerminal`, `KeysComeThrough`, `SavedOrTold`, `WritesOnlyWhatIsSaved`) | the code's times in ticks of 10 ms (poll 10, nap 5, grace 8), three keys typed ahead, so that a poll can take a burst, files of all three kinds of place, any number of edits |
| `agent_session` | `AgentSession.cfg` | Is every agent somebody's to kill, is none killed in use, does the UI thread come back, does a replaced agent go? (`AgentsOwned`, `KeptWhileUsed`, `UiReturns`, `ReplacedGoAway`) | two connections (one replaces the other), three agents, two warm-ups, so that one can be under way while the next connection starts its own; all faults; agents are allowed, as `EnableQuic = FALSE` stops only the warm-up and the copies from asking |
| `user_files` | `UserFiles.cfg` | Can two instances, `ssh` and the user lose a setting, a profile or a key? (`ConfigKept`, `KeysKept`) | two instances and two hosts, which are all alike (symmetry): two writers and something each may not know of; one host set up anew; all faults.  A behaviour is left when a file has come to harm (`Unharmed`): the properties promise nothing of a file that has, and no action on the other file depends on it; the theorems need no such bound |
| `panel` | `Panel.cfg` | Is the cursor on the screen? (`CursorVisible`, `NoBlankRows`, `ScrollsLeast`, `TypeOK`); is an archive's tree whole? (assumptions of `MCPanel`) | listings of 0 to 8 entries, 0 to 6 rows: empty, fitting and scrolling; every set of up to four paths of up to three components, every archive of two entries of nine raw paths and three kinds |
| `sync_mirror` | `SyncMirror.cfg` | Is a completed sync a mirror, and what can it destroy? (`CompletedMirrors`, `OnlyRealFailures`, `AtMostOneBroken`, `KeepsUnrelated`, `DeletesOnlyListed`) | a path that may be of any shape with an entry below, another below it whose name is not UTF-8, and a file whose times lie on both sides of the tolerance, or a device (where the other is absent; a plain file or none beside it otherwise); an agent that may misreport; two rounds, one change by another program; towards a remote side that may not hash |
| `agent_truncates`, `copy_onto_itself` | `AgentTruncates.cfg`, `CopyOntoItself.cfg` | what a document promises and the code does not do, see below | the smallest tree that shows it |

Each stateful module has a type invariant `TypeOK`; the runs whose properties
need the room leave it out.  It is proved for `TransferJob`, `QuicTransfer`,
`SyncJob`, `AppLoop`, `Panel`, `EditorGate`, `AgentSession` and `UserFiles`.

Deadlock is checked in all runs but the sync's: after `MaxRounds` its user does
nothing more.

What the passing runs show beyond their names:

- `NothingLost`: what has left the source is whole at the destination, whatever
  failed.  The two excuses are what the calls have said of this very file: a listing of the
  copy's walk passed over it, or the agent called it done.  A name that is not UTF-8 is no
  excuse: the move fails, and the file stays where it was.
- `OnlyRealFailures` (both modules): walking in post-order never meets a
  directory that still has entries, and no entry is created twice, so a job
  fails only for a reason outside it, or because a directory that has to go holds a name
  that no listing shows.
- `PromptStop`: after Esc at most the entry in hand changes.  Chunks of it that have
  been read are still written, one over the stream and up to the read-ahead over the agent.
- `ImplementsMoveContract`: no original is deleted before *every* file the job was
  shown has arrived, not only its own copy.
- `FreshAfterJobs`: no panel goes on showing what was there before a job.  It does not
  say that a panel shows what is there now: one that cannot be listed is empty.
- `EditorHasTerminal`: the grace period leaves at most one read of the terminal to the
  input thread, in the first ticks of the edit (100 - 80 ms); what has been typed by then
  goes to pfnc, be it one key or many.
- `CompletedMirrors`, over two rounds: what a failed round left behind is
  repaired by the next, because a torn file differs in size.  It excepts
  symlinks that could not be made and files the agent called done (`dropped`), about
  which the code is silent, names that are not UTF-8, and special files on both sides,
  and accepts what the code accepts where a side cannot hash: the same size and
  no newer source.
- `AtMostOneBroken`: replacement removes one entry at a time, so wherever a sync
  stops at most one entry is neither old nor new.
- `ReplacedGoAway` and `AgentsOwned` together: a reconnect, at whatever point of
  a warm-up or a copy it comes, ends with the old agent gone, unless the call
  that should kill it failed; then, and when the process itself has gone, the
  agent stays (`lost`).
- `UiReturns` says only that the UI thread does come back; how long it may wait
  is the subject of `ResolveNeverWaits` below.
- `SavedOrTold`: the target never keeps a part of the user's text without an
  error on the screen; `EditsSurvive` below says what it does not promise.
- `GlyphsSettle`: the warm-up of a connection that has been replaced cannot
  leave a wrong glyph behind.

## Fairness

- `TransferJob`: the operating system keeps scheduling the job's thread, and a
  `Vfs` call returns.  Nothing makes a call fail (`VfsFails` may, and is in no fair
  action), and nothing is assumed of the user or of other programs.
- `QuicTransfer`: both client threads and the agent's task are scheduled, a disk
  write ends, and once nobody drives the connection the agent's side times out
  (quinn's default idle timeout).  Nothing makes the connection fail, or the
  user cancel.  `CallEnds` excepts a cancelled download (`Stuck`), which never
  returns (below).
- `AppLoop`: the loop's `Select` serves the job channel again and again, and
  while job threads run one of them ends in the long run.  A cancelled download through
  the agent does not (`Hangs`, see below), so nothing is assumed of it, and
  `SessionContract` promises nothing while one is there.
- `EditorGate`: the threads run when they can, time passes, calls to a remote host
  return (`session.set_timeout(15_000)`, `vfs-sftp/src/lib.rs:104`), the editor is
  left.
- `AgentSession`: the UI thread, the job and each warm-up go on while they can.
  Every call over SSH returns, for the same timeout, and so does the handshake
  (`HANDSHAKE_TIMEOUT`).  Nothing makes a call fail, an agent die or the user
  exit.  `UiReturns` and `ReplacedGoAway` hold whichever of these happens.

## What is proved

`TransferProofs`, for every tree, every number of chunks, every kind of
location and any number of changes by other programs:

- `TypeCorrect`: `Spec => []TypeOK`.
- `NoFileLost`: `Spec => []NothingLost`, provided `Sound`: the panels show
  different directories (`~SameDir`), which is needed, as `copy_onto_itself` shows.
  Nothing is assumed of the agent or of the listings: the property itself names the files
  they have misled the job about, and `agent_truncates` shows what it would be without.

`NothingLost` is not inductive: it says nothing of the moment before the
deletion.  `TransferInvariant!IInv` adds, phase by phase, why a deletion is
harmless.  While the walk runs, whatever lies in a directory that has been
listed is planned, about to be visited, or was passed over (`Closed`); the file in hand
holds what has been read of it, but for what is held (`TransferExact`); every entry
whose step is over is whole at the destination or cut (`CopiedIsWhole`); so when the
second walk starts, all selected items and everything below them has been copied or
passed over, and what that walk finds is copied, `Unseen` or touched by somebody else
(`DeletesKnown`).
`SourceKnown` says that in the meantime only other programs changed the source,
and `RenamesWhole` is the separate argument for a move by renaming.  The proof
has one lemma per action and one step per conjunct the action can disturb.

- `CompletedIsCompleteTheorem` and `OnlyRealFailuresTheorem`, under `Sound` as
  well.  The order of the plan is what they need: the invariant gains `Ordered`,
  which says that a directory is planned before what lies in it, that the second
  walk lists an entry after all it contains, that no path is planned twice, and
  what the steps that are over have left at either end.  `TreeAssumption` says that
  every path lies below the root; without it, a loop of parents would be a set of
  entries that no walk reaches.
- `MoveKeepsContract`: `Spec => ImplementsMoveContract`, each step a step of the
  contract or a stutter, for a move across backends (`Kinds = {"moveCross"}`,
  `Sound`).  A move by renaming has no moment at which a file is at both ends.
- `PromptStopTheorem` and `ProgressSoundTheorem`: inductive together with the
  types alone.  The second needs `~FastPath`, since `QuicSideTransport` counts a
  file twice (see below).
- `NoMixedContentTheorem`: needs `~SameDir`, and no more of the agent than the others.

`QuicProofs`, for all capacities, lengths and faults: `TypeCorrect`,
`ReadAheadBoundedTheorem`, `OkIsWholeTheorem` and `KeepsStreamContract`
(`Spec => ImplementsStreamContract`).  The invariant gives every chunk its place.  `total`, what the
network thread has passed on, divides the pipeline: the chunks below it are in
the channel, in a hand or written, those above it still in the stream
(`ReadBelow`, `ReadAbove`), and in an upload the same with stream and channel
exchanged (`WriteBelow`, `WriteAbove`).  `Stages` says in which order the three
parties end.  Whoever says `Ok` has seen the end of the stream, which is behind
all the chunks, so there is nothing left in between.

`AppProofs`, for any profiles, nesting of archives and number of jobs:
`TypeCorrect`, `CommandMatchesTheorem`, `ProgressIsLiveTheorem`, `PlanReadyTheorem`,
`PanelsResolveTheorem`, `FreshAfterJobsTheorem`, `GlyphsSettleTheorem`,
`ApprovedFirstTheorem`, and `KeepsSession` (the safety of `SessionContract`).
The properties speak of the mode, the invariant of everything that may change
it: at most one job is the user's and the mode names it (`OneJob`); a job that has ended has one Finished event in the channel, and no other has one
(`EventsOK`), and what it has done was in place before (`ResultsOK`); a dialog asks
only what its key asks, about entries its panel shows (`AsksOK`, `SelectionOK`); what
an open archive lies in is open (`NestingOK`); a listing misses a job's changes
only while that job has the mode (`MissesOK`); and a glyph is right, or a warm-up
or a finished connect is on its way that will set it right (`GlyphsOK`).
`ProfilesAssumption` says that no profile is taken for the layer of an archive.

`SyncProofs`, for any two trees, any number of rounds and of changes by other
programs, with or without failing calls: `TypeCorrect`, `CompletedMirrorsTheorem`,
`OnlyRealFailuresTheorem`, `AtMostOneBrokenTheorem`, `KeepsUnrelatedTheorem` and
`DeletesOnlyListedTheorem`.  The last one needs the types alone.  The others are
about the end of a round, and the invariant (`IInv`) follows the two trees there:

- While the scan runs, every path lies in the span of a visit to come, or is
  settled: planned, or alike on both sides (`Covered`).  The spans of two visits do
  not overlap (`Apart`) nor reach what is planned (`Fresh`), so no path is planned
  twice; the visits that only record a deletion come after all that lies below them
  (`PushedLast`).
- The plan it leaves has parents before what lies in them, deletions the other way
  round, and no deletion at or below an entry that is copied (`PlanInv`).  This is why
  no step of it can fail by itself but a removal that meets a hidden name.
- While the plan is executed the destination is known entry by entry: as the
  source has it, gone with what it was in, or as it was (`ExecInv`).  At most
  the item in hand is neither (`OneBroken`).

All this is promised until another program interferes, or a listing passes over an entry it
could not read (`disturbed`), and of what the calls have not misreported (`dropped`), as
in the properties.  `RootedAssumption` says that every path lies below the root: it
is what makes `Below` a tree's, where an entry never lies below what lies in it.

`PanelProofs`, for every set of listing lengths and heights: `TypeCorrect`
(with the cursor on an entry), `CursorAlwaysVisible`, `NeverBlankRows` and
`FramesScrollLeast` (`ScrollsLeast`, a property of steps).

`EditorProofs`, for all times and any number of keys: `TypeCorrect`, `GateWorks`
(`EditorHasTerminal`), `NoSilentLoss` (`SavedOrTold`) and `LooksWithoutWriting`
(`WritesOnlyWhatIsSaved`).  The invariant adds that the gate is paused while the
terminal is lent, that a reader that has read the terminal then looks at the gate
before it polls again, and that a poll that began earlier runs down beside the grace
period (`GateHolds`), and where the user's text is at each stage (`TextKept`).  The
times only matter to that one poll: were the grace period as long as a poll, it
could not outlast it.

`PanelProofs` also, for every archive: `NothingOutOfReach` (`Navigable`: whatever is
listed lies in something listed, up to the root) and `ListedFilesOpen`
(`FilesOpen`).

`UserFilesProofs`, for any number of instances and hosts: `TypeCorrect`,
`SettingsKept` (`ConfigKept`) and `AcceptedKeysKept` (`KeysKept`).  Neither property
is inductive, as both are silent while a file is empty.  The invariant says why
what comes next is whole again: whoever has truncated the file is the only one
who knows what it said, and one who knows that has all of it to write
(`ConfigInv`, `HostsInv`).

`AgentProofs`, for any number of warm-ups, connections and agents, with and
without each kind of fault: `TypeCorrect`, `NoOrphans` (`AgentsOwned`) and
`NoneKilledInUse` (`KeptWhileUsed`).  The invariant follows an agent from hand to
hand: one thread at most deploys for a connection, and it holds that connection
(`Deploying`, `Holding`); an agent is in one hand only (`Distinct`), so that a kill
by one holder takes nothing from another; who holds a connection is known exactly
(`Holding`: the registry holds what it lists and nothing else, and a connection
that is being dropped is held by nobody); and a copy holds the connection whose
agent it uses (`InUse`).

Only model-checked: all liveness, that is `JobEnds`, `CallEnds`,
`KeysComeThrough`, `UiReturns`, `ReplacedGoAway`, and the part of `SessionContract`
that says a command is over in the end (its safety is `KeepsSession`).  Liveness and
`ENABLED` are out of the prover's reach, and so is induction over data.

## Where the code and its documents disagree

Shown by a run:

- `agent_truncates`: an agent that fails to read on drops its stream, which
  finishes it; the client takes that for the end of the file, and a move then
  deletes the original.
- `copy_onto_itself`: a copy into the items' own directory truncates each file
  before it is read.

Stated in the modules and broken by the code, but without a run of their own.
To see one, add the property to a configuration:

- `TransferJob!JobEnds` for a download with `FastPath = TRUE`: a cancelled QUIC
  download never ends.  `ProgressIo` reports the cancellation as
  `ErrorKind::Interrupted`, which `write_all` retries for ever
  (`transport.rs:130`), although it "honors mid-transfer cancellation"
  (`src/roadmap.md:59`).
- `SyncJob!KeepsDestOnly`: where a file replaces a directory, the sync removes
  entries that only the destination has, with `sync_delete_extraneous` off
  (`src/README.md:28` "never deletes destination-only files unless you opt into that").
- `TransferJob!LinksSurvive`: `apply_copy_item` drops the error of `symlink`, so
  a move deletes a link it has not recreated (`job.rs:233`).  Kind `moveCross`
  with `IoFaults = TRUE`.
- `TransferJob!DeletesOnlyCopied`: `delete_job` walks anew, so a file added after
  the copy's walk is deleted uncopied (`job.rs:346`).  `MaxEdits = 1`.
- `TransferJob!ProgressSound` with `FastPath = TRUE`: both `QuicSideTransport`
  and `apply_copy_item` count a file (`transport.rs:209`).
- `QuicTransfer!OkIsWhole` without its `~broken`: the handler drops its file
  unflushed, so a last write that fails is answered with success
  (`agent-linux/src/lib.rs:181`).  For a move that is `TransferJob!MovesKeepFiles` with
  `SrcWhere = "local"` and `DstWhere = "remote"`: the original goes, its copy is short.
  In a sync it is `CompletedMirrors` or `AtMostOneBroken` without `dropped`.
- `TransferJob!MovesKeepFiles` with `IoFaults = TRUE` and no agent: the copy's listing passes
  over an entry whose metadata it cannot read, the deletion's listing shows it, and it is
  deleted uncopied (`vfs-local/src/lib.rs:82`).  `SyncJob!CompletedMirrors` without
  `disturbed`: the counterpart of a source entry passed over is a leftover, and is deleted.
- `TransferJob!OnlyRealFailures` and `SyncJob!OnlyRealFailures` without their last
  disjunct: a name that is not UTF-8 is silently left out of every listing
  (`vfs-local/src/lib.rs:74`, `vfs-sftp/src/lib.rs:202`), so the directory it lies in is
  not empty when the job comes to remove it, and a move, a delete or a sync ends in
  Failed with most of its work done; a copy that leaves it out reports Completed.
- `AppLoop!ProbeOffUiThread`: `handle_job_event` asks for the glyph before it
  spawns the warm-up, so the UI thread deploys the agent (`actions.rs:715`).
- `AppLoop!OnlyJobsChangeFiles`: mkdir runs on the UI thread and reloads one
  panel (`actions.rs:424`).
- `EditorGate!NothingStolen`: a poll in flight lasts longer than the grace period
  (100 against 80 ms), so it can take from the editor all that is typed or pasted in the
  rest of it; `EditorHasTerminal` says it does so once.
- `EditorGate!EditsSurvive`: the temporary file goes when `edit_file` returns, so an
  upload that fails takes the user's text with it (`editor.rs:147`).
- `AgentSession!AgentOnlyIfEnabled` with `EnableQuic = FALSE`: the UI's probe after a
  connect deploys the agent even though `enable_quic_fast_path` is off, which is
  the default (`actions.rs:715`).
- `AgentSession!CopiesOverLiveLinks`: nothing drives the agent's connection between
  calls, so an idle one times out; the cached handle is never replaced, and the
  copies through it fail until the user reconnects (`quic_agent.rs:317`).
- `AgentSession!ResolveNeverWaits`: `resolve` "never blocks on network I/O"
  (`registry.rs:33`), but it waits for the mutex that `connect_and_cache` holds
  while it drops the replaced connection, which talks to the host (`registry.rs:72`).
- `UserFiles!BadConfigKept`: a malformed file "is an error rather than silently
  discarding the user's settings" (`config/src/lib.rs:119`); `main` falls back to
  the defaults and writes them over the file at exit (`main.rs:83`).
- `ArchiveIndex!OpensWhatIsListed`: of two entries of the same path the last is
  listed and the first opened.
- `ArchiveIndex!OnlyDirsHaveEntries`: entries below one that is a file are indexed
  and cannot be reached, as the panel enters only directories.

## What is not modelled

What permissions allow is not modelled: a call that they forbid is one that fails.  A
symlink is recreated from its text, or followed like a file where its target cannot be read.
Drawing keeps no state of its own, and the key map is a table.  The macOS and BSD
agents are placeholders.  Of the configuration, the directories the panels were
last in and the key bindings are left out; of the archives, the decoding and
`detect_format`; of the host keys, how a host is authenticated.  An archive's
symlink targets are sanitised like paths, which makes a relative target one
relative to the root: `StaysInside` relies on it, and nothing promises more.
`kill_remote_process` kills by process id; that the id may have been reused is
left out.  Text fields (`EditableText`) and the connection form are not modelled.
The bytes of the QUIC protocol, TLS and SSH are the libraries' business.

## Plan

Done: `TransferJob` first, as the part that can destroy files; then the call
below it (`QuicTransfer`), the loop above it (`AppLoop`), the second kind of job
(`SyncJob`), the panel; then the life of the agents (`AgentSession`), the files
kept for the user (`UserFiles`), the archive index and the whole of `edit_file`.

Next, in this order:

1. `EditableText` (a cursor that counts characters in a string that counts
   bytes) and `ConnectForm`.
2. The directories of the panels in `UserFiles`, restored at the next start.
