---------------------------- MODULE QuicTransfer ----------------------------
(***************************************************************************)
(* One QuicAgentHandle::read_file or write_file call and the pfnc-agent    *)
(* handler that serves it.  The caller's thread does the local I/O, a      *)
(* second, scoped thread drives the QUIC stream, and a bounded channel     *)
(* lies between them.  A chunk of the file is its number, 1..Chunks.       *)
(*                                                                         *)
(* A QUIC stream delivers in order, or not at all once the connection is   *)
(* lost.  Dropping a SendStream finishes it; dropping a RecvStream tells   *)
(* the sender to stop.                                                     *)
(***************************************************************************)
EXTENDS Naturals, Sequences

CONSTANTS
    Directions,   \* the calls to consider: "read" (download), "write" (upload)
    CancelIn,     \* in which of them the job may be cancelled
    Chunks,       \* chunks in the file
    Depth,        \* PIPELINE_DEPTH
    Window,       \* chunks a stream holds before its sender has to wait
    LocalFaults,  \* may a local read or write fail?
    PeerFaults,   \* may the agent's disk fail half-way?
    ConnFaults    \* may the connection be lost?

ASSUME DirectionsAssumption == CancelIn \subseteq Directions /\ Directions \subseteq {"read", "write"}
ASSUME SizesAssumption == Chunks \in Nat /\ Depth \in Nat \ {0} /\ Window \in Nat \ {0}
ASSUME FaultsAssumption == {LocalFaults, PeerFaults, ConnFaults} \subseteq BOOLEAN

VARIABLES
    call,       \* "read" or "write"
    caller,     \* the job thread: "pump", "hand" (a chunk in hand), "join", "done"
    inHand,     \* the chunk it has in hand
    writeErr,   \* a local write has failed
    chan,       \* the channel between the two threads
    net,        \* the scoped thread: "request", "await", "relay", "hand", "ended"
    netHand,    \* the chunk it has in hand
    netResult,  \* what it returned
    total,      \* chunks it has passed on
    up, down,   \* the two directions of the stream
    conn,       \* the connection is up
    agent,      \* the handler: "idle", "serve", "ended"
    source,     \* chunks read from the source so far
    pending,    \* the write a tokio File has in flight on the agent
    diskErr,    \* such a write has failed, and nobody has been told yet
    dest,       \* the destination file
    cancelled,  \* the CancellationToken
    answer,     \* what the call returned
    broken      \* history: the agent's disk has failed

vars == <<call, caller, inHand, writeErr, chan, net, netHand, netResult, total, up, down,
          conn, agent, source, pending, diskErr, dest, cancelled, answer, broken>>
callerVars == <<caller, inHand, writeErr, answer>>
netVars == <<net, netHand, netResult, total>>
agentVars == <<agent, pending, diskErr, broken>>

\* What travels besides chunks: the request, the status byte, an io::Error.
Request == Chunks + 1
Yes == Chunks + 2
No == Chunks + 3
Bad == Chunks + 4

Stream == [q |-> <<>>, fin |-> FALSE, stop |-> FALSE]
Put(s, item) == [s EXCEPT !.q = Append(@, item)]
Got(s) == [s EXCEPT !.q = Tail(@)]
Finish(s) == [s EXCEPT !.fin = TRUE]
Stop(s) == [s EXCEPT !.stop = TRUE]
\* What arrives of a stream nobody drives any more.
Cuts(s) == {s} \cup {[s EXCEPT !.q = SubSeq(@, 1, k), !.fin = FALSE] : k \in 0..Len(s.q)}

Init ==
    /\ call \in Directions
    /\ caller = "pump" /\ inHand = 0 /\ writeErr = FALSE /\ chan = <<>>
    /\ net = "request" /\ netHand = 0 /\ netResult = "none" /\ total = 0
    /\ up = Stream /\ down = Stream /\ conn = TRUE
    /\ agent = "idle" /\ source = 0 /\ pending = <<>> /\ diskErr = FALSE
    /\ dest = <<>> /\ cancelled = FALSE /\ answer = "pending" /\ broken = FALSE

-----------------------------------------------------------------------------
(* The job thread.  It holds its end of the channel until it joins.        *)

\* Mutant: the caller's end of the channel lives until the join is over.
CallerHolds_ToTheEnd == caller # "done"
CallerHolds == caller \in {"pump", "hand"}

\* read_file: rx.recv() gives a chunk ...
TakeChunk ==
    /\ call = "read" /\ caller = "pump" /\ chan # <<>>
    /\ inHand' = Head(chan) /\ chan' = Tail(chan) /\ caller' = "hand"
    /\ UNCHANGED <<call, writeErr, netVars, up, down, conn, agentVars, source, dest, cancelled, answer>>

\* ... which write_all writes, or not.
WriteChunk ==
    /\ call = "read" /\ caller = "hand" /\ ~cancelled
    /\ \/ dest' = Append(dest, inHand) /\ caller' = "pump" /\ UNCHANGED writeErr
       \/ LocalFaults /\ writeErr' = TRUE /\ caller' = "join" /\ UNCHANGED dest
    /\ UNCHANGED <<call, inHand, chan, netVars, up, down, conn, agentVars, source, cancelled, answer>>

\* ProgressIo answers a cancelled write with Interrupted: write_all tries again.
WriteRetries == call = "read" /\ caller = "hand" /\ cancelled /\ UNCHANGED vars

\* rx.recv() fails only when the channel is empty and its sender is gone.
ChannelClosed ==
    /\ call = "read" /\ caller = "pump" /\ chan = <<>> /\ net = "ended"
    /\ caller' = "join"
    /\ UNCHANGED <<call, inHand, writeErr, chan, netVars, up, down, conn, agentVars, source,
                   dest, cancelled, answer>>

\* write_file: reader.read gives a chunk, the end of the file, or an error,
\* which ProgressIo also returns for a cancellation.
ReadChunk ==
    /\ call = "write" /\ caller = "pump"
    /\ \/ /\ ~cancelled /\ source < Chunks
          /\ source' = source + 1 /\ inHand' = source + 1 /\ caller' = "hand"
       \/ /\ ~cancelled /\ source = Chunks
          /\ caller' = "join" /\ UNCHANGED <<source, inHand>>
       \/ /\ cancelled \/ LocalFaults
          /\ inHand' = Bad /\ caller' = "hand" /\ UNCHANGED source
    /\ UNCHANGED <<call, writeErr, chan, netVars, up, down, conn, agentVars, dest, cancelled, answer>>

\* Mutant: the channel has no bound.
SendChunk_Unbounded ==
    /\ call = "write" /\ caller = "hand"
    /\ IF net = "ended"
       THEN caller' = "join" /\ UNCHANGED chan
       ELSE /\ chan' = Append(chan, inHand)
            /\ caller' = IF inHand = Bad THEN "join" ELSE "pump"
    /\ UNCHANGED <<call, inHand, writeErr, netVars, up, down, conn, agentVars, source, dest,
                   cancelled, answer>>

\* tx.send waits for room; it fails once the other thread has gone.
SendChunk ==
    /\ call = "write" /\ caller = "hand"
    /\ IF net = "ended"
       THEN caller' = "join" /\ UNCHANGED chan
       ELSE /\ Len(chan) < Depth
            /\ chan' = Append(chan, inHand)
            /\ caller' = IF inHand = Bad THEN "join" ELSE "pump"
    /\ UNCHANGED <<call, inHand, writeErr, netVars, up, down, conn, agentVars, source, dest,
                   cancelled, answer>>

Join ==
    /\ caller = "join" /\ net = "ended"
    /\ caller' = "done"
    /\ answer' = IF netResult = "ok" /\ ~writeErr THEN "ok" ELSE "err"
    /\ UNCHANGED <<call, inHand, writeErr, chan, netVars, up, down, conn, agentVars, source,
                   dest, cancelled>>

-----------------------------------------------------------------------------
(* The scoped thread.                                                      *)

\* The thread returns and drops its ends of the channel and of the stream.
\* Once block_on is over nobody drives the connection, so what was queued,
\* the implicit finish and the stop included, may never be sent.
NetEnds(r) ==
    /\ net' = "ended" /\ netResult' = r
    /\ chan' = IF call = "write" THEN <<>> ELSE chan
    /\ up' \in IF up.fin THEN {up} ELSE Cuts(Finish(up))
    /\ down' \in {down, Stop(down)}
    /\ UNCHANGED <<netHand, total>>

NetRequest ==
    /\ net = "request"
    /\ IF conn
       THEN /\ up' = IF call = "read" THEN Finish(Put(up, Request)) ELSE Put(up, Request)
            /\ net' = IF call = "read" THEN "await" ELSE "relay"
            /\ UNCHANGED <<down, chan, netHand, netResult, total>>
       ELSE NetEnds("err")
    /\ UNCHANGED <<call, callerVars, conn, agentVars, source, dest, cancelled>>

\* The status byte: before the content of a download, after that of an upload.
NetStatus ==
    /\ net = "await"
    /\ \/ /\ down.q # <<>> /\ Head(down.q) = Yes /\ call = "read"
          /\ net' = "relay" /\ down' = Got(down)
          /\ UNCHANGED <<up, chan, netHand, netResult, total>>
       \/ down.q # <<>> /\ Head(down.q) = Yes /\ call = "write" /\ NetEnds("ok")
       \/ down.q # <<>> /\ Head(down.q) = No /\ NetEnds("err")
       \/ (~conn \/ (down.q = <<>> /\ down.fin)) /\ NetEnds("err")
    /\ UNCHANGED <<call, callerVars, conn, agentVars, source, dest, cancelled>>

\* Mutant: a lost connection reads like the end of the content.
NetReceive_LostIsEnd ==
    /\ call = "read" /\ net = "relay"
    /\ \/ /\ down.q # <<>>
          /\ netHand' = Head(down.q) /\ down' = Got(down) /\ net' = "hand"
          /\ UNCHANGED <<up, chan, netResult, total>>
       \/ down.q = <<>> /\ (down.fin \/ ~conn) /\ NetEnds("ok")
    /\ UNCHANGED <<call, callerVars, conn, agentVars, source, dest, cancelled>>

NetReceive ==
    /\ call = "read" /\ net = "relay"
    /\ \/ /\ down.q # <<>>
          /\ netHand' = Head(down.q) /\ down' = Got(down) /\ net' = "hand"
          /\ UNCHANGED <<up, chan, netResult, total>>
       \/ down.q = <<>> /\ down.fin /\ NetEnds("ok")
       \/ ~conn /\ NetEnds("err")
    /\ UNCHANGED <<call, callerVars, conn, agentVars, source, dest, cancelled>>

\* on_chunk: tx.send waits for room, and fails once the caller has let go.
NetForward ==
    /\ call = "read" /\ net = "hand"
    /\ IF ~CallerHolds
       THEN NetEnds("err")
       ELSE /\ Len(chan) < Depth
            /\ chan' = Append(chan, netHand) /\ total' = total + 1 /\ net' = "relay"
            /\ UNCHANGED <<up, down, netHand, netResult>>
    /\ UNCHANGED <<call, callerVars, conn, agentVars, source, dest, cancelled>>

\* Mutant: the stream is finished once the caller is, whatever is queued.
NetTake_Undrained ==
    /\ call = "write" /\ net = "relay"
    /\ \/ /\ chan # <<>> /\ Head(chan) # Bad
          /\ netHand' = Head(chan) /\ chan' = Tail(chan) /\ net' = "hand"
          /\ UNCHANGED <<up, down, netResult, total>>
       \/ chan # <<>> /\ Head(chan) = Bad /\ NetEnds("err")
       \/ /\ ~CallerHolds
          /\ up' = Finish(up) /\ net' = "await"
          /\ UNCHANGED <<down, chan, netHand, netResult, total>>
    /\ UNCHANGED <<call, callerVars, conn, agentVars, source, dest, cancelled>>

\* next_chunk: rx.recv() gives a chunk, an error, or the end of the file.
NetTake ==
    /\ call = "write" /\ net = "relay"
    /\ \/ /\ chan # <<>> /\ Head(chan) # Bad
          /\ netHand' = Head(chan) /\ chan' = Tail(chan) /\ net' = "hand"
          /\ UNCHANGED <<up, down, netResult, total>>
       \/ chan # <<>> /\ Head(chan) = Bad /\ NetEnds("err")
       \/ /\ chan = <<>> /\ ~CallerHolds
          /\ up' = Finish(up) /\ net' = "await"
          /\ UNCHANGED <<down, chan, netHand, netResult, total>>
    /\ UNCHANGED <<call, callerVars, conn, agentVars, source, dest, cancelled>>

NetSend ==
    /\ call = "write" /\ net = "hand"
    /\ \/ (~conn \/ up.stop) /\ NetEnds("err")
       \/ /\ conn /\ ~up.stop /\ Len(up.q) < Window
          /\ up' = Put(up, netHand) /\ total' = total + 1 /\ net' = "relay"
          /\ UNCHANGED <<down, chan, netHand, netResult>>
    /\ UNCHANGED <<call, callerVars, conn, agentVars, source, dest, cancelled>>

-----------------------------------------------------------------------------
(* pfnc-agent's handle_stream.                                             *)

\* The handler sends its last bytes, if it can, and drops both streams.
AgentEnds(d) ==
    /\ agent' = "ended"
    /\ down' = IF conn THEN Finish(d) ELSE down
    /\ up' = Stop(up)

\* The request has arrived; the file can be opened or created, or it cannot.
AgentAccept ==
    /\ agent = "idle" /\ up.q # <<>>
    /\ \/ /\ agent' = "serve" /\ up' = Got(up)
          /\ down' = IF call = "read" THEN Put(down, Yes) ELSE down
       \/ AgentEnds(Put(down, No))
    /\ UNCHANGED <<call, callerVars, chan, netVars, conn, source, pending, diskErr, broken, dest, cancelled>>

\* handle_read_file's loop.  An error ends it like the end of the file does:
\* the stream is finished when it is dropped.
AgentSend ==
    /\ call = "read" /\ agent = "serve" /\ conn /\ ~down.stop
    /\ source < Chunks /\ Len(down.q) < Window
    /\ source' = source + 1 /\ down' = Put(down, source + 1)
    /\ UNCHANGED <<call, callerVars, chan, netVars, up, conn, agentVars, dest, cancelled>>

AgentSent ==
    /\ call = "read" /\ agent = "serve"
    /\ source = Chunks
    /\ AgentEnds(down)
    /\ UNCHANGED <<call, callerVars, chan, netVars, conn, source, pending, diskErr, broken, dest, cancelled>>

AgentReadFails ==
    /\ call = "read" /\ agent = "serve"
    /\ PeerFaults /\ source < Chunks /\ broken' = TRUE
    /\ AgentEnds(down)
    /\ UNCHANGED <<call, callerVars, chan, netVars, conn, source, pending, diskErr, dest, cancelled>>

\* Reading or writing the stream fails.
AgentCutOff ==
    /\ agent = "serve" /\ (~conn \/ (call = "read" /\ down.stop))
    /\ AgentEnds(down)
    /\ UNCHANGED <<call, callerVars, chan, netVars, conn, source, pending, diskErr, broken, dest, cancelled>>

\* write_local_file_streaming: write_all on a tokio File waits for the write
\* in flight, reports its error, or starts the next one.
AgentWrite ==
    /\ call = "write" /\ agent = "serve" /\ up.q # <<>> /\ pending = <<>>
    /\ IF diskErr
       THEN AgentEnds(Put(down, No)) /\ UNCHANGED pending
       ELSE pending' = <<Head(up.q)>> /\ up' = Got(up) /\ UNCHANGED <<agent, down>>
    /\ UNCHANGED <<call, callerVars, chan, netVars, conn, source, diskErr, broken, dest, cancelled>>

\* The write in flight ends, whether or not the handler still runs.
AgentDisk ==
    /\ pending # <<>> /\ pending' = <<>>
    /\ \/ dest' = dest \o pending /\ UNCHANGED <<diskErr, broken>>
       \/ PeerFaults /\ diskErr' = TRUE /\ broken' = TRUE /\ UNCHANGED dest
    /\ UNCHANGED <<call, callerVars, chan, netVars, up, down, conn, agent, source, cancelled>>

\* recv.read returns None: the mode is set, or cannot be; the status is sent, and
\* the file dropped unflushed.
AgentReceived ==
    /\ call = "write" /\ agent = "serve" /\ up.q = <<>> /\ up.fin
    /\ \/ AgentEnds(Put(down, Yes))
       \/ PeerFaults /\ AgentEnds(Put(down, No))
    /\ UNCHANGED <<call, callerVars, chan, netVars, conn, source, pending, diskErr, broken, dest, cancelled>>

-----------------------------------------------------------------------------
ConnLost ==
    /\ ConnFaults /\ conn
    /\ conn' = FALSE
    /\ up' \in Cuts(up) /\ down' \in Cuts(down)
    /\ UNCHANGED <<call, callerVars, chan, netVars, agentVars, source, dest, cancelled>>

\* quinn's idle timeout, once the client has stopped driving the connection.
IdleTimeout ==
    /\ net = "ended" /\ agent = "serve" /\ conn
    /\ conn' = FALSE
    /\ UNCHANGED <<call, callerVars, chan, netVars, up, down, agentVars, source, dest, cancelled>>

Cancel ==
    /\ call \in CancelIn /\ caller # "done" /\ ~cancelled
    /\ cancelled' = TRUE
    /\ UNCHANGED <<call, callerVars, chan, netVars, up, down, conn, agentVars, source, dest>>

CallerStep == TakeChunk \/ WriteChunk \/ ChannelClosed \/ ReadChunk \/ SendChunk \/ Join
NetStep == NetRequest \/ NetStatus \/ NetReceive \/ NetForward \/ NetTake \/ NetSend
AgentStep ==
    AgentAccept \/ AgentSend \/ AgentSent \/ AgentCutOff \/ AgentWrite \/ AgentReceived

Over == caller = "done" /\ agent # "serve" /\ pending = <<>> /\ UNCHANGED vars

Next ==
    \/ CallerStep \/ NetStep \/ AgentStep \/ AgentReadFails \/ AgentDisk
    \/ WriteRetries \/ ConnLost \/ IdleTimeout \/ Cancel \/ Over

Spec == Init /\ [][Next]_vars

\* Threads are scheduled, the agent's runtime polls its tasks, disk writes end,
\* and a silent connection times out.  Nothing has to fail.
FairSpec ==
    /\ Spec
    /\ WF_vars(CallerStep) /\ WF_vars(NetStep) /\ WF_vars(AgentStep)
    /\ WF_vars(AgentDisk) /\ WF_vars(IdleTimeout)

-----------------------------------------------------------------------------
(* Properties.                                                             *)

\* Every variable holds a value of its kind.
Items == 1..Chunks
Streams == [q : Seq(Items \cup {Request, Yes, No}), fin : BOOLEAN, stop : BOOLEAN]
TypeOK ==
    /\ call \in Directions
    /\ caller \in {"pump", "hand", "join", "done"} /\ inHand \in Items \cup {0, Bad}
    /\ chan \in Seq(Items \cup {Bad})
    /\ net \in {"request", "await", "relay", "hand", "ended"} /\ netHand \in Items \cup {0}
    /\ netResult \in {"none", "ok", "err"} /\ total \in Nat
    /\ up \in Streams /\ down \in Streams
    /\ agent \in {"idle", "serve", "ended"} /\ source \in 0..Chunks
    /\ pending \in Seq(Items) /\ dest \in Seq(Items)
    /\ writeErr \in BOOLEAN /\ conn \in BOOLEAN /\ diskErr \in BOOLEAN
    /\ cancelled \in BOOLEAN /\ broken \in BOOLEAN
    /\ answer \in {"pending", "ok", "err"}

\* A call that returns Ok has brought all of the file to the destination (the
\* last write of an upload may still be in flight), unless the agent's disk
\* failed: neither a read nor a last write that fails there is reported.  And
\* read_file's debug_assert holds: what the network thread has read is what the
\* caller has written, when neither reports an error.
OkIsWhole ==
    /\ answer = "ok" /\ ~broken => dest \o pending = [i \in 1..Chunks |-> i]
    /\ call = "read" /\ caller = "join" /\ netResult = "ok" /\ ~writeErr => total = Len(dest)

\* The pipeline reads ahead of the slower side by a bounded number of chunks:
\* those in the channel, those in the stream, one in the hand of each thread
\* and the one the agent is writing.
ReadAheadBounded == ~broken => source - Len(dest) <= Depth + Window + 3

\* A cancelled download whose write_all retries for ever.
Stuck == call = "read" /\ cancelled

\* The call always returns, whatever fails on either side: neither thread waits
\* for the other for ever.  Nor does the agent's handler outlive it for ever.
CallEnds == <>[](Stuck \/ (caller = "done" /\ agent # "serve"))

\* The call implements the contract the transports rely on.
Contract == INSTANCE StreamContract WITH
    Size <- Chunks, delivered <- dest \o pending, answer <- answer, sound <- ~broken
ImplementsStreamContract == Contract!ContractSpec
=============================================================================
