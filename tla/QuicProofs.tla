----------------------------- MODULE QuicProofs -----------------------------
(***************************************************************************)
(* Proofs about one call to the agent, for a file of any length, a channel *)
(* and a stream of any depth, and with or without each kind of fault.      *)
(*                                                                         *)
(* The invariant gives every chunk its place.  In a download total counts  *)
(* the chunks the network thread has passed on: those below it are in the  *)
(* channel, in the caller's hand or written, those above it are still in   *)
(* the stream.  In an upload it divides the pipeline the same way, with    *)
(* the stream below it and the channel above.                              *)
(***************************************************************************)
EXTENDS QuicTransfer, TLAPS

\* s holds the chunks that follow chunk n.
Follows(s, n) == \A i \in 1..Len(s) : s[i] = n + i

\* The chunk in hand, where it counts.
Handed(b) == IF b THEN 1 ELSE 0

-----------------------------------------------------------------------------
(* The inductive invariant.                                                *)

\* In which order the three parties come to an end.
Stages ==
    /\ caller = "done" <=> answer # "pending"
    /\ caller = "done" => net = "ended"
    /\ answer = "ok" => netResult = "ok" /\ ~writeErr
    /\ netResult # "none" => net = "ended"
    /\ net = "request" => up.q = <<>> /\ ~up.fin /\ agent = "idle" /\ total = 0
    /\ agent = "idle" => down.q = <<>> /\ dest = <<>> /\ pending = <<>> /\ ~broken
    /\ down.fin => agent = "ended"
    /\ agent = "ended" => up.stop
    /\ down.stop => net = "ended"
    /\ Len(chan) <= Depth
    /\ Follows(dest, 0)

\* A download's lower half: from the network thread to the file.
ReadBelow ==
    /\ pending = <<>> /\ ~diskErr
    /\ caller = "hand" => inHand = Len(dest) + 1 /\ ~writeErr
    /\ writeErr => caller \in {"join", "done"}
    /\ caller \in {"join", "done"} /\ ~writeErr => chan = <<>> /\ net = "ended"
    /\ total = Len(dest) + Handed(caller = "hand" \/ writeErr) + Len(chan)
    /\ Follows(chan, total - Len(chan))
    /\ total <= Chunks
    /\ netResult = "ok" /\ ~broken => total = Chunks

\* Its upper half: from the agent to the network thread.
Passed == total + Handed(net = "hand")
ReadAbove ==
    /\ broken => agent = "ended"
    /\ net \in {"relay", "hand"} => agent # "idle"
    /\ net = "hand" => netHand = total + 1
    /\ net = "await" => total = 0
    /\ net = "await" /\ down.q # <<>> =>
        \/ Len(down.q) = 1 /\ down.q[1] = No
        \/ /\ down.q[1] = Yes
           /\ \A i \in 2..Len(down.q) : down.q[i] = i - 1
           /\ Len(down.q) <= Chunks + 1
           /\ conn => source = Len(down.q) - 1
           /\ down.fin /\ ~broken => Len(down.q) = Chunks + 1
    /\ net = "await" /\ down.q = <<>> /\ conn => agent = "idle"
    /\ net = "await" /\ agent = "serve" /\ down.q # <<>> => down.q[1] = Yes
    /\ net \in {"relay", "hand"} =>
        /\ Follows(down.q, Passed) /\ Passed + Len(down.q) <= Chunks
        /\ conn => source = Passed + Len(down.q)
        /\ down.fin /\ ~broken => Passed + Len(down.q) = Chunks
    /\ net = "ended" /\ conn /\ agent = "serve" => source <= total + 1 + Len(down.q)
    /\ agent = "idle" => source = 0 /\ total = 0
    /\ agent = "serve" => Len(down.q) <= Window
    /\ source <= total + 1 + Window

\* An upload's lower half: from the network thread to the agent's file.
Held == Len(dest) + Len(pending)
WriteBelow ==
    /\ ~writeErr
    /\ broken = diskErr
    /\ Len(pending) <= 1 /\ Follows(pending, Len(dest))
    /\ diskErr => pending = <<>>
    /\ agent # "ended" => down.q = <<>>
    /\ Len(down.q) <= 1
    /\ up.fin /\ net # "ended" => net = "await"
    /\ ~diskErr =>
        /\ agent = "idle" /\ up.q # <<>> =>
            /\ up.q[1] = Request /\ \A i \in 2..Len(up.q) : up.q[i] = i - 1
            /\ Len(up.q) <= total + 1
        /\ agent = "serve" => Follows(up.q, Held) /\ Held + Len(up.q) <= total
        /\ conn /\ net \notin {"request", "ended"} /\ agent # "ended" =>
            Held + Len(up.q) = total + Handed(agent = "idle")
        /\ conn /\ up.fin /\ net = "await" /\ agent = "serve" => Held + Len(up.q) = Chunks
        /\ conn /\ up.fin /\ net = "await" /\ agent = "idle" => Len(up.q) = Chunks + 1
        /\ net # "ended" /\ down.q # <<>> /\ Head(down.q) = Yes => Held = Chunks /\ net = "await"
        /\ netResult = "ok" => Held = Chunks
        /\ total <= Len(dest) + 1 + Window

\* Its upper half: from the source to the network thread.
WriteAbove ==
    /\ total <= Chunks
    /\ source <= total + Depth + 1 + Handed(caller # "pump")
    /\ net # "ended" =>
        /\ net = "hand" => netHand = total + 1
        /\ \A i \in 1..Len(chan) :
            \/ chan[i] = Passed + i /\ Passed + i <= source
            \/ chan[i] = Bad /\ i = Len(chan) /\ caller = "join"
        /\ (\A i \in 1..Len(chan) : chan[i] # Bad) /\ inHand # Bad =>
            source = Passed + Len(chan) + Handed(caller = "hand")
        /\ caller = "hand" /\ inHand # Bad => inHand = source
        /\ inHand = Bad /\ caller # "hand" => chan # <<>> /\ chan[Len(chan)] = Bad
        /\ Passed <= source
        /\ caller = "join" /\ inHand # Bad => source = Chunks
        /\ net = "await" => total = Chunks /\ chan = <<>> /\ caller = "join"

Places ==
    /\ Stages
    /\ call = "read" => ReadBelow /\ ReadAbove
    /\ call = "write" => WriteBelow /\ WriteAbove

IInv == TypeOK /\ Places

-----------------------------------------------------------------------------
(* Sequences and streams.                                                  *)

\* What Append, Head and Tail do, item by item.
LEMMA SeqFacts ==
    ASSUME NEW S, NEW s \in Seq(S)
    PROVE  /\ Len(s) \in Nat
           /\ \A i \in 1..Len(s) : s[i] \in S
           /\ s = <<>> <=> Len(s) = 0
           /\ \A x \in S : /\ Append(s, x) \in Seq(S) /\ Len(Append(s, x)) = Len(s) + 1
                           /\ Append(s, x)[Len(s) + 1] = x
                           /\ \A i \in 1..Len(s) : Append(s, x)[i] = s[i]
           /\ s # <<>> =>
                /\ Head(s) \in S /\ Head(s) = s[1] /\ Len(s) >= 1
                /\ Tail(s) \in Seq(S) /\ Len(Tail(s)) = Len(s) - 1
                /\ \A i \in 1..Len(Tail(s)) : Tail(s)[i] = s[i + 1]
OBVIOUS

Item == Items \cup {Request, Yes, No}

\* What the sender of a stream, its receiver, and a loss do to it.
LEMMA StreamFacts ==
    ASSUME NEW s \in Streams
    PROVE  /\ s.q \in Seq(Item) /\ s.fin \in BOOLEAN /\ s.stop \in BOOLEAN
           /\ \A x \in Item : /\ Put(s, x) \in Streams /\ Put(s, x).q = Append(s.q, x)
                              /\ Put(s, x).fin = s.fin /\ Put(s, x).stop = s.stop
           /\ s.q # <<>> => /\ Got(s) \in Streams /\ Got(s).q = Tail(s.q)
                            /\ Got(s).fin = s.fin /\ Got(s).stop = s.stop
           /\ /\ Finish(s) \in Streams /\ Finish(s).q = s.q
              /\ Finish(s).fin /\ Finish(s).stop = s.stop
           /\ /\ Stop(s) \in Streams /\ Stop(s).q = s.q
              /\ Stop(s).fin = s.fin /\ Stop(s).stop
<1>1. s.q \in Seq(Item) /\ s.fin \in BOOLEAN /\ s.stop \in BOOLEAN
  BY DEF Streams, Item
<1>2. ASSUME NEW x \in Item
      PROVE  /\ Put(s, x) \in Streams /\ Put(s, x).q = Append(s.q, x)
             /\ Put(s, x).fin = s.fin /\ Put(s, x).stop = s.stop
  BY DEF Streams, Put, Item
<1>3. ASSUME s.q # <<>>
      PROVE  /\ Got(s) \in Streams /\ Got(s).q = Tail(s.q)
             /\ Got(s).fin = s.fin /\ Got(s).stop = s.stop
  BY <1>3 DEF Streams, Got, Item
<1>4. /\ Finish(s) \in Streams /\ Finish(s).q = s.q
      /\ Finish(s).fin /\ Finish(s).stop = s.stop
  BY DEF Streams, Finish
<1>5. /\ Stop(s) \in Streams /\ Stop(s).q = s.q
      /\ Stop(s).fin = s.fin /\ Stop(s).stop
  BY DEF Streams, Stop
<1> QED
  BY <1>1, <1>2, <1>3, <1>4, <1>5

\* What is left of a stream once its first item has been received.
LEMMA GotFacts ==
    ASSUME NEW s \in Streams, s.q # <<>>
    PROVE  /\ Got(s) \in Streams /\ Len(s.q) \in Nat /\ Len(s.q) >= 1 /\ Head(s.q) = s.q[1]
           /\ Len(Got(s).q) = Len(s.q) - 1
           /\ \A i \in 1..Len(Got(s).q) : Got(s).q[i] = s.q[i + 1]
           /\ Got(s).fin = s.fin /\ Got(s).stop = s.stop
<1>1. /\ s.q \in Seq(Item) /\ Got(s) \in Streams /\ Got(s).q = Tail(s.q)
      /\ Got(s).fin = s.fin /\ Got(s).stop = s.stop
  BY StreamFacts
<1>2. /\ Len(s.q) \in Nat /\ Len(s.q) >= 1 /\ Head(s.q) = s.q[1] /\ Len(Tail(s.q)) = Len(s.q) - 1
      /\ \A i \in 1..Len(Tail(s.q)) : Tail(s.q)[i] = s.q[i + 1]
  BY <1>1, SeqFacts
<1> QED
  BY <1>1, <1>2

\* What one more item makes of a stream.
LEMMA PutFacts ==
    ASSUME NEW s \in Streams, NEW x \in Item
    PROVE  /\ Put(s, x) \in Streams /\ Len(s.q) \in Nat
           /\ Len(Put(s, x).q) = Len(s.q) + 1 /\ Put(s, x).q[Len(s.q) + 1] = x
           /\ \A i \in 1..Len(s.q) : Put(s, x).q[i] = s.q[i]
           /\ Put(s, x).fin = s.fin /\ Put(s, x).stop = s.stop
<1>1. /\ s.q \in Seq(Item) /\ Put(s, x) \in Streams /\ Put(s, x).q = Append(s.q, x)
      /\ Put(s, x).fin = s.fin /\ Put(s, x).stop = s.stop
  BY StreamFacts
<1>2. /\ Len(s.q) \in Nat /\ Len(Append(s.q, x)) = Len(s.q) + 1
      /\ Append(s.q, x)[Len(s.q) + 1] = x
      /\ \A i \in 1..Len(s.q) : Append(s.q, x)[i] = s.q[i]
  BY <1>1, SeqFacts
<1> QED
  BY <1>1, <1>2

LEMMA PutFirst ==
    ASSUME NEW s \in Streams, s.q = <<>>, NEW x \in Item
    PROVE  /\ Put(s, x) \in Streams /\ Len(Put(s, x).q) = 1 /\ Put(s, x).q[1] = x
           /\ Head(Put(s, x).q) = x /\ Put(s, x).q # <<>>
           /\ Put(s, x).fin = s.fin /\ Put(s, x).stop = s.stop
<1>1. Put(s, x) \in Streams /\ Put(s, x).q = Append(<<>>, x)
  BY StreamFacts
<1>2. Put(s, x).fin = s.fin /\ Put(s, x).stop = s.stop
  BY StreamFacts
<1>3. Append(<<>>, x) = <<x>>
  OBVIOUS
<1> QED
  BY <1>1, <1>2, <1>3

LEMMA CutFacts ==
    ASSUME NEW s \in Streams, NEW c \in Cuts(s)
    PROVE  /\ c \in Streams /\ c.q \in Seq(Item) /\ c.stop = s.stop
           /\ Len(c.q) <= Len(s.q)
           /\ \A i \in 1..Len(c.q) : c.q[i] = s.q[i]
           /\ c = s \/ ~c.fin
<1>1. CASE c = s
  BY <1>1, StreamFacts, SeqFacts DEF Item
<1>2. ASSUME NEW k \in 0..Len(s.q), c = [s EXCEPT !.q = SubSeq(@, 1, k), !.fin = FALSE]
      PROVE  /\ c \in Streams /\ c.q \in Seq(Item) /\ c.stop = s.stop
             /\ Len(c.q) <= Len(s.q)
             /\ \A i \in 1..Len(c.q) : c.q[i] = s.q[i]
             /\ ~c.fin
  <2>1. s.q \in Seq(Item) /\ Len(s.q) \in Nat
    BY DEF Streams, Item
  <2>2. /\ SubSeq(s.q, 1, k) \in Seq(Item) /\ Len(SubSeq(s.q, 1, k)) = k
        /\ \A i \in 1..k : SubSeq(s.q, 1, k)[i] = s.q[i]
    BY <2>1
  <2>3. c.q = SubSeq(s.q, 1, k) /\ c.fin = FALSE /\ c.stop = s.stop /\ c \in Streams
    BY <1>2, <2>2 DEF Streams, Item
  <2> QED
    BY <2>1, <2>2, <2>3
<1> QED
  BY <1>1, <1>2 DEF Cuts

-----------------------------------------------------------------------------
(* Types.                                                                  *)

LEMMA InitTyped == Init => TypeOK
<1> SUFFICES ASSUME Init PROVE TypeOK
  OBVIOUS
<1>1. Stream \in Streams
  BY DEF Stream, Streams
<1>2. <<>> \in Seq(Items) /\ <<>> \in Seq(Items \cup {Bad}) /\ 0 \in 0..Chunks
  BY SizesAssumption
<1> QED
  BY <1>1, <1>2, DirectionsAssumption DEF Init, TypeOK

LEMMA ItemsApart ==
    /\ Items \subseteq Item /\ {Request, Yes, No} \subseteq Item
    /\ Bad \notin Item /\ 0 \notin Item
    /\ Request \notin Items /\ Yes \notin Items /\ No \notin Items
    /\ Request # Yes /\ Yes # No /\ Request # No
BY SizesAssumption DEF Item, Items, Request, Yes, No, Bad

\* The network thread's end leaves well-formed streams behind.
LEMMA NetEndsTyped ==
    ASSUME TypeOK, NEW r \in {"ok", "err"}, NetEnds(r)
    PROVE  /\ chan' \in Seq(Items \cup {Bad}) /\ net' = "ended" /\ netResult' = r
           /\ netHand' = netHand /\ total' = total
           /\ up' \in Streams /\ down' \in Streams
<1>1. up \in Streams /\ down \in Streams /\ chan \in Seq(Items \cup {Bad})
  BY DEF TypeOK
<1>2. up' \in Streams
  BY <1>1, StreamFacts, CutFacts DEF NetEnds
<1>3. down' \in Streams
  BY <1>1, StreamFacts DEF NetEnds
<1>4. <<>> \in Seq(Items \cup {Bad})
  OBVIOUS
<1> QED
  BY <1>1, <1>2, <1>3, <1>4 DEF NetEnds

LEMMA AgentEndsTyped ==
    ASSUME TypeOK, NEW d \in Streams, AgentEnds(d)
    PROVE  agent' = "ended" /\ up' \in Streams /\ down' \in Streams
<1>1. up \in Streams /\ down \in Streams
  BY DEF TypeOK
<1> QED
  BY <1>1, StreamFacts DEF AgentEnds

\* TypeOK in two parts, as no one prover deals with both: the Booleans ...
Flags ==
    /\ writeErr \in BOOLEAN /\ conn \in BOOLEAN /\ diskErr \in BOOLEAN
    /\ cancelled \in BOOLEAN /\ broken \in BOOLEAN

\* ... and the rest.
Shapes ==
    /\ call \in Directions
    /\ caller \in {"pump", "hand", "join", "done"} /\ inHand \in Items \cup {0, Bad}
    /\ chan \in Seq(Items \cup {Bad})
    /\ net \in {"request", "await", "relay", "hand", "ended"} /\ netHand \in Items \cup {0}
    /\ netResult \in {"none", "ok", "err"} /\ total \in Nat
    /\ up \in Streams /\ down \in Streams
    /\ agent \in {"idle", "serve", "ended"} /\ source \in 0..Chunks
    /\ pending \in Seq(Items) /\ dest \in Seq(Items)
    /\ answer \in {"pending", "ok", "err"}

LEMMA TypeParts == (TypeOK <=> Flags /\ Shapes) /\ (TypeOK' <=> Flags' /\ Shapes')
BY Zenon DEF TypeOK, Flags, Shapes

LEMMA NextFlags == TypeOK /\ [Next]_vars => Flags'
<1> SUFFICES ASSUME Flags, [Next]_vars PROVE Flags'
  BY TypeParts
<1> USE DEF Flags
<1>1. CASE TakeChunk
  BY <1>1, Zenon DEF TakeChunk, callerVars, netVars, agentVars
<1>2. CASE WriteChunk
  BY <1>2, Zenon DEF WriteChunk, callerVars, netVars, agentVars
<1>3. CASE ChannelClosed
  BY <1>3, Zenon DEF ChannelClosed, callerVars, netVars, agentVars
<1>4. CASE ReadChunk
  BY <1>4, Zenon DEF ReadChunk, callerVars, netVars, agentVars
<1>5. CASE SendChunk
  BY <1>5, Zenon DEF SendChunk, callerVars, netVars, agentVars
<1>6. CASE Join
  BY <1>6, Zenon DEF Join, callerVars, netVars, agentVars
<1>7. CASE NetRequest
  BY <1>7, Zenon DEF NetRequest, callerVars, netVars, agentVars
<1>8. CASE NetStatus
  BY <1>8, Zenon DEF NetStatus, callerVars, netVars, agentVars
<1>9. CASE NetReceive
  BY <1>9, Zenon DEF NetReceive, callerVars, netVars, agentVars
<1>10. CASE NetForward
  BY <1>10, Zenon DEF NetForward, callerVars, netVars, agentVars
<1>11. CASE NetTake
  BY <1>11, Zenon DEF NetTake, callerVars, netVars, agentVars
<1>12. CASE NetSend
  BY <1>12, Zenon DEF NetSend, callerVars, netVars, agentVars
<1>13. CASE AgentAccept
  BY <1>13, Zenon DEF AgentAccept, callerVars, netVars, agentVars
<1>14. CASE AgentSend
  BY <1>14, Zenon DEF AgentSend, callerVars, netVars, agentVars
<1>15. CASE AgentSent
  BY <1>15, Zenon DEF AgentSent, callerVars, netVars, agentVars
<1>16. CASE AgentReadFails
  BY <1>16, Zenon DEF AgentReadFails, callerVars, netVars, agentVars
<1>17. CASE AgentCutOff
  BY <1>17, Zenon DEF AgentCutOff, callerVars, netVars, agentVars
<1>18. CASE AgentWrite
  BY <1>18, Zenon DEF AgentWrite, callerVars, netVars, agentVars
<1>19. CASE AgentDisk
  BY <1>19, Zenon DEF AgentDisk, callerVars, netVars, agentVars
<1>20. CASE AgentReceived
  BY <1>20, Zenon DEF AgentReceived, callerVars, netVars, agentVars
<1>21. CASE ConnLost
  BY <1>21, Zenon DEF ConnLost, callerVars, netVars, agentVars
<1>22. CASE IdleTimeout
  BY <1>22, Zenon DEF IdleTimeout, callerVars, netVars, agentVars
<1>23. CASE Cancel
  BY <1>23, Zenon DEF Cancel, callerVars, netVars, agentVars
<1>24. CASE UNCHANGED vars
  BY <1>24, Zenon DEF vars
<1> QED
  BY <1>1, <1>2, <1>3, <1>4, <1>5, <1>6, <1>7, <1>8, <1>9, <1>10, <1>11, <1>12, <1>13, <1>14, <1>15, <1>16, <1>17, <1>18, <1>19, <1>20, <1>21, <1>22, <1>23, <1>24
  DEF Next, CallerStep, NetStep, AgentStep, WriteRetries, Over

\* Every step keeps every variable in its type.
LEMMA NextTyped == IInv /\ [Next]_vars => TypeOK'
<1> SUFFICES ASSUME TypeOK, Shapes, Places, [Next]_vars PROVE Shapes'
  BY TypeParts, NextFlags DEF IInv
<1>t. up \in Streams /\ down \in Streams /\ chan \in Seq(Items \cup {Bad})
  BY DEF Shapes
<1>s. /\ up.q \in Seq(Item) /\ down.q \in Seq(Item)
  BY <1>t, StreamFacts, ItemsApart
<1>1. CASE TakeChunk
  BY <1>1, <1>t, <1>s, SeqFacts, StreamFacts, ItemsApart, CutFacts DEF TakeChunk, Shapes, callerVars, netVars, agentVars, Item
<1>2. CASE WriteChunk
  <2>1. inHand \in Items
    BY <1>2, SizesAssumption DEF WriteChunk, Shapes, Places, ReadBelow, Handed, Items, Bad
  <2>0. Append(dest, inHand) \in Seq(Items) /\ dest \in Seq(Items)
    BY <2>1 DEF Shapes
  <2>2. dest' \in Seq(Items) /\ caller' \in {"pump", "hand", "join", "done"}
    BY <1>2, <2>0, Zenon DEF WriteChunk
  <2>3. UNCHANGED <<call, inHand, chan, net, netHand, netResult, total, up, down, agent, source, pending, answer>>
    BY <1>2, Zenon DEF WriteChunk, callerVars, netVars, agentVars
  <2> QED
    BY <2>2, <2>3 DEF Shapes
<1>3. CASE ChannelClosed
  BY <1>3, <1>t, <1>s, SeqFacts, StreamFacts, ItemsApart, CutFacts DEF ChannelClosed, Shapes, callerVars, netVars, agentVars, Item
<1>4. CASE ReadChunk
  <2>1. source \in Nat /\ (source < Chunks => source + 1 \in Items /\ source + 1 \in 0..Chunks)
    BY SizesAssumption DEF Shapes, Items
  <2> QED
    BY <1>4, <2>1 DEF ReadChunk, Shapes, callerVars, netVars, agentVars
<1>5. CASE SendChunk
  <2>1. CASE net = "ended"
    BY <1>5, <2>1, Zenon DEF SendChunk, Shapes, callerVars, netVars, agentVars
  <2>2. CASE net # "ended"
    <3>1. inHand = Bad \/ inHand = source
      BY <1>5, <2>2 DEF SendChunk, Places, WriteAbove
    <3>2. inHand # Bad => source >= Passed
      BY <1>5, <2>2 DEF SendChunk, Places, WriteAbove
    <3>3. inHand # Bad => inHand # 0
      BY <1>t, SeqFacts, SizesAssumption, <1>5, <2>2, <3>1
      DEF SendChunk, Places, WriteAbove, Passed, Handed, Shapes, Bad
    <3>4. inHand \in Items \cup {Bad}
      BY <3>3 DEF Shapes
    <3>5. chan' \in Seq(Items \cup {Bad}) /\ caller' \in {"join", "pump"}
      BY <1>t, <2>2, <3>4, <1>5 DEF SendChunk
    <3>6. UNCHANGED <<call, inHand, net, netHand, netResult, total, up, down, agent, source, pending, dest, answer>>
      BY <1>5, Zenon DEF SendChunk, callerVars, netVars, agentVars
    <3> QED
      BY <3>5, <3>6 DEF Shapes
  <2> QED
    BY <2>1, <2>2
<1>6. CASE Join
  BY <1>6, <1>t, <1>s, SeqFacts, StreamFacts, ItemsApart, CutFacts DEF Join, Shapes, callerVars, netVars, agentVars, Item
<1>7. CASE NetRequest
  BY <1>7, <1>t, <1>s, SeqFacts, StreamFacts, ItemsApart, CutFacts, NetEndsTyped DEF NetRequest, Shapes, callerVars, netVars, agentVars, Item
<1>8. CASE NetStatus
  BY <1>8, <1>t, <1>s, SeqFacts, StreamFacts, ItemsApart, CutFacts, NetEndsTyped DEF NetStatus, Shapes, callerVars, netVars, agentVars, Item
<1>9. CASE NetReceive
  <2>1. ASSUME down.q # <<>>
        PROVE  Head(down.q) \in Items
    <3>1. Head(down.q) = down.q[1] /\ Len(down.q) \in Nat /\ Len(down.q) >= 1
      BY <1>s, <2>1, SeqFacts
    <3>2. Head(down.q) = Passed + 1 /\ Passed + Len(down.q) <= Chunks /\ Passed \in Nat
      BY <3>1, <1>9 DEF NetReceive, Places, ReadAbove, Follows, Passed, Handed, Shapes
    <3> QED
      BY <3>1, <3>2, SizesAssumption DEF Items
  <2>2. ASSUME NEW r \in {"ok", "err"}, NetEnds(r)
        PROVE  Shapes'
    BY <2>2, <1>9, NetEndsTyped DEF NetReceive, Shapes, callerVars, netVars, agentVars
  <2>3. CASE down.q # <<>> /\ netHand' = Head(down.q) /\ down' = Got(down)
             /\ net' = "hand" /\ UNCHANGED <<up, chan, netResult, total>>
    BY <1>9, <1>t, <1>s, <2>1, <2>3, StreamFacts, ItemsApart DEF NetReceive, Shapes, callerVars, netVars, agentVars
  <2> QED
    BY <1>9, <2>2, <2>3 DEF NetReceive
<1>10. CASE NetForward
  <2>1. CASE NetEnds("err")
    BY <2>1, <1>10, NetEndsTyped DEF NetForward, Shapes, callerVars, netVars, agentVars
  <2>2. CASE ~NetEnds("err")
    <3>1. netHand \in Items
      BY <1>10 DEF NetForward, Places, ReadAbove, Shapes, Items
    <3>0. Append(chan, netHand) \in Seq(Items \cup {Bad}) /\ total + 1 \in Nat
      BY <1>t, <3>1 DEF Shapes
    <3>2. chan' \in Seq(Items \cup {Bad}) /\ total' \in Nat /\ net' = "relay"
      BY <1>10, <2>2, <3>0, Zenon DEF NetForward
    <3>3. UNCHANGED <<call, caller, inHand, netHand, netResult, up, down, agent, source, pending, dest, answer>>
      BY <1>10, <2>2, Zenon DEF NetForward, callerVars, netVars, agentVars
    <3> QED
      BY <3>2, <3>3 DEF Shapes
  <2> QED
    BY <2>1, <2>2
<1>11. CASE NetTake
  <2>1. CASE NetEnds("err")
    BY <2>1, <1>11, NetEndsTyped DEF NetTake, Shapes, callerVars, netVars, agentVars
  <2>2. CASE ~NetEnds("err") /\ chan # <<>> /\ Head(chan) # Bad /\ net' = "hand"
             /\ netHand' = Head(chan) /\ chan' = Tail(chan) /\ UNCHANGED <<up, down, netResult, total>>
    <3>1. netHand' \in Items /\ chan' \in Seq(Items \cup {Bad})
      BY <1>t, <2>2
    <3>2. UNCHANGED <<call, caller, inHand, netResult, total, up, down, agent, source, pending, dest, answer>>
      BY <1>11, <2>2, Zenon DEF NetTake, callerVars, netVars, agentVars
    <3> QED
      BY <2>2, <3>1, <3>2 DEF Shapes
  <2>3. CASE up' = Finish(up) /\ net' = "await" /\ UNCHANGED <<down, chan, netHand, netResult, total>>
    BY <2>3, <1>11, <1>t, StreamFacts, ItemsApart DEF NetTake, Shapes, callerVars, netVars, agentVars
  <2> QED
    BY <2>1, <2>2, <2>3, <1>11 DEF NetTake
<1>12. CASE NetSend
  <2>1. netHand \in Items
    BY <1>12 DEF NetSend, Places, WriteAbove, Shapes, Items
  <2>2. CASE NetEnds("err")
    BY <2>2, <1>12, NetEndsTyped DEF NetSend, Shapes, callerVars, netVars, agentVars
  <2>3. CASE ~NetEnds("err")
    BY <2>1, <2>3, <1>12, <1>t, StreamFacts, ItemsApart DEF NetSend, Shapes, callerVars, netVars, agentVars
  <2> QED
    BY <2>2, <2>3
<1>13. CASE AgentAccept
  BY <1>13, <1>t, <1>s, SeqFacts, StreamFacts, ItemsApart, CutFacts, AgentEndsTyped DEF AgentAccept, Shapes, callerVars, netVars, agentVars, Item
<1>14. CASE AgentSend
  <2>1. source + 1 \in Items /\ source + 1 \in 0..Chunks
    BY <1>14, SizesAssumption DEF AgentSend, Shapes, Items
  <2> QED
    BY <1>14, <1>t, <2>1, StreamFacts, ItemsApart DEF AgentSend, Shapes, callerVars, netVars, agentVars
<1>15. CASE AgentSent
  BY <1>15, <1>t, <1>s, SeqFacts, StreamFacts, ItemsApart, CutFacts, AgentEndsTyped DEF AgentSent, Shapes, callerVars, netVars, agentVars, Item
<1>16. CASE AgentReadFails
  BY <1>16, <1>t, <1>s, SeqFacts, StreamFacts, ItemsApart, CutFacts, AgentEndsTyped DEF AgentReadFails, Shapes, callerVars, netVars, agentVars, Item
<1>17. CASE AgentCutOff
  BY <1>17, <1>t, <1>s, SeqFacts, StreamFacts, ItemsApart, CutFacts, AgentEndsTyped DEF AgentCutOff, Shapes, callerVars, netVars, agentVars, Item
<1>18. CASE AgentWrite
  <2>1. CASE diskErr
    <3>1. Put(down, No) \in Streams /\ AgentEnds(Put(down, No)) /\ pending' = pending
      BY <2>1, <1>18, <1>t, StreamFacts, ItemsApart DEF AgentWrite
    <3>2. agent' = "ended" /\ up' \in Streams /\ down' \in Streams
      BY <3>1, AgentEndsTyped
    <3>3. UNCHANGED <<call, caller, inHand, chan, net, netHand, netResult, total, source, dest, answer>>
      BY <1>18, Zenon DEF AgentWrite, callerVars, netVars, agentVars
    <3> QED
      BY <3>1, <3>2, <3>3 DEF Shapes
  <2>2. CASE ~diskErr
    <3>1. Head(up.q) = up.q[1] /\ Len(up.q) \in Nat /\ Len(up.q) >= 1
      BY <1>18, <1>s, SeqFacts DEF AgentWrite
    <3>2. Head(up.q) = Held + 1 /\ Held + Len(up.q) <= Chunks /\ Held \in Nat
      BY <2>2, <3>1, <1>18, SizesAssumption DEF AgentWrite, Places, WriteBelow, WriteAbove, Follows, Held, Shapes
    <3>3. Head(up.q) \in Items
      BY <3>1, <3>2, SizesAssumption DEF Items
    <3>0. <<Head(up.q)>> \in Seq(Items) /\ (up.q # <<>> => Got(up) \in Streams)
      BY <1>t, <3>3, StreamFacts
    <3>4. pending' \in Seq(Items) /\ up' \in Streams
      BY <2>2, <1>18, <3>0, Zenon DEF AgentWrite
    <3>5. UNCHANGED <<call, caller, inHand, chan, net, netHand, netResult, total, down, agent, source, dest, answer>>
      BY <1>18, <2>2, Zenon DEF AgentWrite, callerVars, netVars, agentVars
    <3> QED
      BY <3>4, <3>5 DEF Shapes
  <2> QED
    BY <2>1, <2>2
<1>19. CASE AgentDisk
  <2>0. dest \o pending \in Seq(Items) /\ <<>> \in Seq(Items) /\ dest \in Seq(Items)
    BY DEF Shapes
  <2>1. dest' \in Seq(Items) /\ pending' \in Seq(Items)
    BY <1>19, <2>0, Zenon DEF AgentDisk
  <2>2. UNCHANGED <<call, caller, inHand, chan, net, netHand, netResult, total, up, down, agent, source, answer>>
    BY <1>19, Zenon DEF AgentDisk, callerVars, netVars, agentVars
  <2> QED
    BY <2>1, <2>2 DEF Shapes
<1>20. CASE AgentReceived
  BY <1>20, <1>t, <1>s, SeqFacts, StreamFacts, ItemsApart, CutFacts, AgentEndsTyped DEF AgentReceived, Shapes, callerVars, netVars, agentVars, Item
<1>21. CASE ConnLost
  <2>1. up' \in Streams /\ down' \in Streams
    BY <1>21, <1>t, CutFacts DEF ConnLost
  <2> QED
    BY <1>21, <2>1 DEF ConnLost, Shapes, callerVars, netVars, agentVars
<1>22. CASE IdleTimeout
  BY <1>22, <1>t, <1>s, SeqFacts, StreamFacts, ItemsApart, CutFacts DEF IdleTimeout, Shapes, callerVars, netVars, agentVars, Item
<1>23. CASE Cancel
  BY <1>23, <1>t, <1>s, SeqFacts, StreamFacts, ItemsApart, CutFacts DEF Cancel, Shapes, callerVars, netVars, agentVars, Item
<1>24. CASE UNCHANGED vars
  BY <1>24 DEF vars, Shapes
<1> QED
  BY <1>1, <1>2, <1>3, <1>4, <1>5, <1>6, <1>7, <1>8, <1>9, <1>10, <1>11, <1>12, <1>13, <1>14, <1>15, <1>16, <1>17, <1>18, <1>19, <1>20, <1>21, <1>22, <1>23, <1>24
  DEF Next, CallerStep, NetStep, AgentStep, WriteRetries, Over

-----------------------------------------------------------------------------
(* Every chunk keeps its place.                                            *)

\* The lengths and the counters are natural numbers.
LEMMA Sizes ==
    ASSUME TypeOK
    PROVE  /\ up \in Streams /\ down \in Streams /\ up.q \in Seq(Item) /\ down.q \in Seq(Item)
           /\ chan \in Seq(Items \cup {Bad}) /\ dest \in Seq(Items) /\ pending \in Seq(Items)
           /\ Len(up.q) \in Nat /\ Len(down.q) \in Nat
           /\ Len(chan) \in Nat /\ Len(dest) \in Nat /\ Len(pending) \in Nat
           /\ total \in Nat /\ source \in Nat /\ source <= Chunks
           /\ Chunks \in Nat /\ Depth \in Nat /\ Window \in Nat /\ Depth >= 1 /\ Window >= 1
<1>1. /\ up \in Streams /\ down \in Streams /\ chan \in Seq(Items \cup {Bad})
      /\ dest \in Seq(Items) /\ pending \in Seq(Items)
  BY DEF TypeOK
<1>2. up.q \in Seq(Item) /\ down.q \in Seq(Item)
  BY <1>1, StreamFacts
<1>3. total \in Nat /\ source \in Nat /\ source <= Chunks
  BY SizesAssumption DEF TypeOK
<1> QED
  BY <1>1, <1>2, <1>3, SizesAssumption

LEMMA SizesAfter ==
    ASSUME TypeOK'
    PROVE  /\ up'.q \in Seq(Item) /\ down'.q \in Seq(Item)
           /\ Len(up'.q) \in Nat /\ Len(down'.q) \in Nat /\ Len(chan') \in Nat
           /\ Len(dest') \in Nat /\ Len(pending') \in Nat /\ total' \in Nat /\ source' \in Nat
<1>1. /\ up' \in Streams /\ down' \in Streams /\ chan' \in Seq(Items \cup {Bad})
      /\ dest' \in Seq(Items) /\ pending' \in Seq(Items) /\ total' \in Nat /\ source' \in 0..Chunks
  BY DEF TypeOK
<1>2. up'.q \in Seq(Item) /\ down'.q \in Seq(Item)
  BY <1>1, StreamFacts
<1>3. Len(up'.q) \in Nat /\ Len(down'.q) \in Nat
  BY <1>2, SeqFacts
<1> QED
  BY <1>1, <1>2, <1>3, SizesAssumption

LEMMA InitPlaces == Init => Places
<1> SUFFICES ASSUME Init PROVE Places
  OBVIOUS
<1>1. /\ caller = "pump" /\ inHand = 0 /\ ~writeErr /\ chan = <<>> /\ net = "request"
      /\ netResult = "none" /\ total = 0 /\ agent = "idle" /\ source = 0 /\ pending = <<>>
      /\ ~diskErr /\ dest = <<>> /\ answer = "pending" /\ ~broken
  BY Zenon DEF Init
<1>2. /\ up.q = <<>> /\ ~up.fin /\ ~up.stop /\ down.q = <<>> /\ ~down.fin /\ ~down.stop
  BY DEF Init, Stream
<1>3. Len(<<>>) = 0 /\ Chunks \in Nat /\ Depth \in Nat /\ Window \in Nat
  BY SizesAssumption
<1>4. Stages
  BY <1>1, <1>2, <1>3 DEF Stages, Follows
<1>5. ReadBelow /\ ReadAbove
  BY <1>1, <1>2, <1>3 DEF ReadBelow, ReadAbove, Follows, Passed, Handed
<1>6. WriteBelow
  <2>1. broken = diskErr
    BY Zenon DEF Init
  <2> QED
    BY <1>1, <1>2, <1>3, <2>1 DEF WriteBelow, Follows, Held, Handed
<1>7. WriteAbove
  BY <1>1, <1>2, <1>3 DEF WriteAbove, Passed, Handed, Bad
<1> QED
  BY <1>4, <1>5, <1>6, <1>7 DEF Places

LEMMA TakeChunkKeeps ==
    ASSUME TypeOK, Places, TypeOK', TakeChunk
    PROVE  Places'
<1>1. UNCHANGED <<call, writeErr, net, netHand, netResult, total, up, down, conn, agent, source, pending, diskErr, dest, answer, broken>>
  BY Zenon DEF TakeChunk, callerVars, netVars, agentVars
<1>2. Places /\ Stages
  BY DEF Places
<1>3. chan # <<>> => /\ Head(chan) = chan[1] /\ Len(Tail(chan)) = Len(chan) - 1 /\ Len(chan) >= 1
                     /\ \A i \in 1..Len(Tail(chan)) : Tail(chan)[i] = chan[i + 1]
  BY Sizes, SeqFacts
<1>s. Stages'
  BY <1>1, <1>2, Sizes, <1>3 DEF TakeChunk, Stages, Follows
<1>rb. call = "read" => ReadBelow'
  BY <1>1, <1>2, Sizes, <1>3 DEF TakeChunk, Places, ReadBelow, Follows, Handed
<1>ra. call = "read" => ReadAbove'
  BY <1>1, <1>2 DEF Places, ReadAbove, Follows, Passed, Handed
<1>wb. call = "write" => WriteBelow'
  BY DEF TakeChunk
<1>wa. call = "write" => WriteAbove'
  BY DEF TakeChunk
<1> QED
  BY <1>1, <1>s, <1>rb, <1>ra, <1>wb, <1>wa DEF Places

LEMMA WriteChunkKeeps ==
    ASSUME TypeOK, Places, TypeOK', WriteChunk
    PROVE  Places'
<1>1. UNCHANGED <<call, inHand, chan, net, netHand, netResult, total, up, down, conn, agent, source, pending, diskErr, answer, broken>>
  BY Zenon DEF WriteChunk, callerVars, netVars, agentVars
<1>2. Places /\ Stages
  BY DEF Places
<1>3. /\ Len(Append(dest, inHand)) = Len(dest) + 1 /\ Append(dest, inHand)[Len(dest) + 1] = inHand
      /\ \A i \in 1..Len(dest) : Append(dest, inHand)[i] = dest[i]
  BY Sizes
<1>4. \/ dest' = Append(dest, inHand) /\ caller' = "pump" /\ (writeErr' <=> writeErr)
      \/ dest' = dest /\ caller' = "join" /\ writeErr'
  BY Zenon DEF WriteChunk
<1>5. call = "read" /\ caller = "hand" /\ inHand = Len(dest) + 1 /\ ~writeErr
  BY DEF WriteChunk, Places, ReadBelow
<1>s. Stages'
  <2>1. Follows(dest', 0)
    BY <1>2, <1>3, <1>4, <1>5, Sizes DEF Stages, Follows
  <2>2. answer = "pending" /\ answer' # "ok" /\ caller' # "done" /\ caller # "done" /\ answer' = answer
    BY <1>1, <1>2, <1>4, <1>5 DEF Stages
  <2>3. agent # "idle"
    <3>1. total = Len(dest) + 1 + Len(chan)
      BY <1>2, <1>5 DEF Places, ReadBelow, Handed
    <3> QED
      BY <1>2, <1>5, <3>1, Sizes DEF Places, ReadAbove
  <2> QED
    BY <1>1, <1>2, <1>5, <2>1, <2>2, <2>3, Sizes DEF Stages
<1>rb. call = "read" => ReadBelow'
  <2>1. ReadBelow
    BY <1>2, <1>5 DEF Places
  <2>2. CASE dest' = Append(dest, inHand) /\ caller' = "pump" /\ (writeErr' <=> writeErr)
    BY <1>1, <1>3, <1>5, <2>1, <2>2, Sizes DEF ReadBelow, Follows, Handed
  <2>3. CASE dest' = dest /\ caller' = "join" /\ writeErr'
    BY <1>1, <1>5, <2>1, <2>3, Sizes DEF ReadBelow, Follows, Handed
  <2> QED
    BY <1>4, <2>2, <2>3
<1>ra. call = "read" => ReadAbove'
  BY <1>1, <1>2 DEF Places, ReadAbove, Follows, Passed, Handed
<1>wb. call = "write" => WriteBelow'
  BY DEF WriteChunk
<1>wa. call = "write" => WriteAbove'
  BY DEF WriteChunk
<1> QED
  BY <1>1, <1>s, <1>rb, <1>ra, <1>wb, <1>wa DEF Places

LEMMA ChannelClosedKeeps ==
    ASSUME TypeOK, Places, TypeOK', ChannelClosed
    PROVE  Places'
<1>1. UNCHANGED <<call, inHand, writeErr, chan, net, netHand, netResult, total, up, down, conn, agent, source, pending, diskErr, dest, answer, broken>>
  BY Zenon DEF ChannelClosed, callerVars, netVars, agentVars
<1>2. Places /\ Stages
  BY DEF Places
<1>s. Stages'
  BY <1>1, <1>2, Sizes DEF ChannelClosed, Stages, Follows
<1>rb. call = "read" => ReadBelow'
  BY <1>1, <1>2, Sizes DEF ChannelClosed, Places, ReadBelow, Follows, Handed
<1>ra. call = "read" => ReadAbove'
  BY <1>1, <1>2 DEF Places, ReadAbove, Follows, Passed, Handed
<1>wb. call = "write" => WriteBelow'
  BY DEF ChannelClosed
<1>wa. call = "write" => WriteAbove'
  BY DEF ChannelClosed
<1> QED
  BY <1>1, <1>s, <1>rb, <1>ra, <1>wb, <1>wa DEF Places

LEMMA ReadChunkKeeps ==
    ASSUME TypeOK, Places, TypeOK', ReadChunk
    PROVE  Places'
<1>1. UNCHANGED <<call, writeErr, chan, net, netHand, netResult, total, up, down, conn, agent, pending, diskErr, dest, answer, broken>>
  BY Zenon DEF ReadChunk, callerVars, netVars, agentVars
<1>2. Places /\ Stages
  BY DEF Places
<1>s. Stages'
  BY <1>1, <1>2, Sizes DEF ReadChunk, Stages, Follows
<1>rb. call = "read" => ReadBelow'
  BY DEF ReadChunk
<1>ra. call = "read" => ReadAbove'
  BY DEF ReadChunk
<1>wb. call = "write" => WriteBelow'
  BY <1>1, <1>2 DEF Places, WriteBelow, Follows, Held, Handed
<1>wa. call = "write" => WriteAbove'
  <2>1. WriteAbove /\ caller = "pump" /\ caller # "done"
    BY <1>2 DEF ReadChunk, Places
  <2>2. CASE source < Chunks /\ source' = source + 1 /\ inHand' = source + 1 /\ caller' = "hand"
    <3>1. source' <= total + Depth + 2 /\ total' <= Chunks /\ Passed' = Passed /\ inHand' # Bad
      BY <1>1, <2>1, <2>2, Sizes DEF WriteAbove, Handed, Passed, Bad
    <3>2. ASSUME net # "ended"
          PROVE  /\ net # "await" /\ (net = "hand" => netHand = total + 1) /\ Passed <= source
                 /\ \A i \in 1..Len(chan) : chan[i] = Passed + i /\ Passed + i <= source
                 /\ source = Passed + Len(chan)
      <4>1. \A i \in 1..Len(chan) : chan[i] = Passed + i /\ Passed + i <= source
        BY <2>1, <3>2 DEF WriteAbove
      <4>2. \A i \in 1..Len(chan) : chan[i] # Bad
        BY <4>1, Sizes DEF Bad, Passed, Handed
      <4>3. inHand # Bad
        BY <2>1, <3>2, <4>2, Sizes, SeqFacts DEF WriteAbove
      <4> QED
        BY <2>1, <3>2, <4>1, <4>2, <4>3, Sizes DEF WriteAbove, Passed, Handed
    <3>3. Passed \in Nat
      BY Sizes DEF Passed, Handed
    <3> QED
      BY <1>1, <2>2, <3>1, <3>2, <3>3, Sizes DEF WriteAbove, Handed
  <2>3. CASE source = Chunks /\ caller' = "join" /\ source' = source /\ inHand' = inHand
    BY <1>1, <2>1, <2>3, Sizes DEF WriteAbove, Passed, Handed, Bad
  <2>4. CASE inHand' = Bad /\ caller' = "hand" /\ source' = source
    BY <1>1, <2>1, <2>4, Sizes DEF WriteAbove, Passed, Handed
  <2> QED
    BY <2>2, <2>3, <2>4 DEF ReadChunk
<1> QED
  BY <1>1, <1>s, <1>rb, <1>ra, <1>wb, <1>wa DEF Places

LEMMA JoinKeeps ==
    ASSUME TypeOK, Places, TypeOK', Join
    PROVE  Places'
<1>1. UNCHANGED <<call, inHand, writeErr, chan, net, netHand, netResult, total, up, down, conn, agent, source, pending, diskErr, dest, broken>>
  BY Zenon DEF Join, callerVars, netVars, agentVars
<1>2. Places /\ Stages
  BY DEF Places
<1>s. Stages'
  BY <1>1, <1>2, Sizes DEF Join, Stages, Follows
<1>rb. call = "read" => ReadBelow'
  BY <1>1, <1>2, Sizes DEF Join, Places, ReadBelow, Follows, Handed
<1>ra. call = "read" => ReadAbove'
  BY <1>1, <1>2 DEF Places, ReadAbove, Follows, Passed, Handed
<1>wb. call = "write" => WriteBelow'
  BY <1>1, <1>2 DEF Places, WriteBelow, Follows, Held, Handed
<1>wa. call = "write" => WriteAbove'
  BY <1>1, <1>2, Sizes DEF Join, Places, WriteAbove, Passed, Handed
<1> QED
  BY <1>1, <1>s, <1>rb, <1>ra, <1>wb, <1>wa DEF Places

LEMMA SendChunkKeeps ==
    ASSUME TypeOK, Places, TypeOK', SendChunk
    PROVE  Places'
<1>1. UNCHANGED <<call, inHand, writeErr, net, netHand, netResult, total, up, down, conn, agent, source, pending, diskErr, dest, answer, broken>>
  BY Zenon DEF SendChunk, callerVars, netVars, agentVars
<1>2. Places /\ Stages
  BY DEF Places
<1>3. /\ Len(Append(chan, inHand)) = Len(chan) + 1 /\ Append(chan, inHand)[Len(chan) + 1] = inHand
      /\ \A i \in 1..Len(chan) : Append(chan, inHand)[i] = chan[i]
  BY Sizes
<1>s. Stages'
  BY <1>1, <1>2, Sizes, <1>3 DEF SendChunk, Stages, Follows
<1>rb. call = "read" => ReadBelow'
  BY DEF SendChunk
<1>ra. call = "read" => ReadAbove'
  BY DEF SendChunk
<1>wb. call = "write" => WriteBelow'
  BY <1>1, <1>2 DEF Places, WriteBelow, Follows, Held, Handed
<1>wa. call = "write" => WriteAbove'
  <2>1. WriteAbove /\ caller = "hand"
    BY DEF SendChunk, Places
  <2>2. CASE net = "ended"
    BY <1>1, <2>1, <2>2, Sizes DEF SendChunk, WriteAbove, Handed
  <2>3. CASE net # "ended"
    <3>1. /\ chan' = Append(chan, inHand) /\ caller' = IF inHand = Bad THEN "join" ELSE "pump"
          /\ inHand' = inHand /\ Passed' = Passed /\ source' = source /\ total' = total
      BY <1>1, <2>3 DEF SendChunk, Passed
    <3>2. \A i \in 1..Len(chan) : chan[i] = Passed + i /\ Passed + i <= source
      BY <2>1, <2>3 DEF WriteAbove
    <3>3. Passed \in Nat /\ net # "await"
      BY <2>1, <2>3, Sizes DEF WriteAbove, Passed, Handed
    <3>4. \A i \in 1..Len(chan) : chan[i] # Bad
      BY <3>2, <3>3, Sizes DEF Bad
    <3>5. inHand # Bad => inHand = source /\ source = Passed + Len(chan) + 1
      BY <2>1, <2>3, <3>4 DEF WriteAbove, Handed
    <3>6. /\ total <= Chunks /\ source <= total + Depth + 2 /\ Passed <= source
          /\ (net = "hand" => netHand = total + 1) /\ Passed = total + Handed(net = "hand")
      BY <2>1, <2>3, Sizes DEF WriteAbove, Handed, Passed
    <3>7. Len(chan) < Depth
      BY <2>3 DEF SendChunk
    <3>8. source <= total + Depth + 1 \/ inHand = Bad
      BY <3>5, <3>6, <3>7, Sizes DEF Handed
    <3>9. /\ Len(chan') = Len(chan) + 1 /\ chan'[Len(chan) + 1] = inHand /\ chan' # <<>>
          /\ \A i \in 1..Len(chan) : chan'[i] = chan[i]
      <4>1. /\ Len(chan') = Len(chan) + 1 /\ chan'[Len(chan) + 1] = inHand
            /\ \A i \in 1..Len(chan) : chan'[i] = chan[i]
        BY <1>3, <3>1
      <4> QED
        BY <4>1, Sizes
    <3>10. Passed' \in Nat /\ Passed' = Passed
      BY <3>1, <3>3
    <3>11. net' = net /\ netHand' = netHand /\ total' = total /\ source' = source /\ inHand' = inHand
      BY <1>1
    <3>12. ASSUME inHand = Bad
           PROVE  WriteAbove'
      <4>1. caller' = "join"
        BY <3>1, <3>12
      <4>2. \A i \in 1..Len(chan') :
              \/ chan'[i] = Passed' + i /\ Passed' + i <= source'
              \/ chan'[i] = Bad /\ i = Len(chan') /\ caller' = "join"
        <5> TAKE i \in 1..Len(chan')
        <5>1. CASE i = Len(chan) + 1
          BY <3>9, <3>12, <4>1, <5>1
        <5>2. CASE i \in 1..Len(chan)
          BY <3>2, <3>9, <3>10, <3>11, <5>2
        <5> QED
          BY <3>9, <5>1, <5>2, Sizes
      <4>3. chan'[Len(chan')] = Bad /\ Len(chan') \in 1..Len(chan')
        BY <3>9, <3>12, Sizes
      <4> QED
        BY <2>3, <3>3, <3>6, <3>9, <3>10, <3>11, <3>12, <4>1, <4>2, <4>3, Sizes DEF WriteAbove, Handed
    <3>13. ASSUME inHand # Bad
           PROVE  WriteAbove'
      <4>1. caller' = "pump"
        BY <3>1, <3>13
      <4>2. \A i \in 1..Len(chan') : chan'[i] = Passed' + i /\ Passed' + i <= source'
        <5> TAKE i \in 1..Len(chan')
        <5>1. CASE i = Len(chan) + 1
          BY <3>5, <3>9, <3>10, <3>11, <3>13, <5>1, Sizes
        <5>2. CASE i \in 1..Len(chan)
          BY <3>2, <3>9, <3>10, <3>11, <5>2
        <5> QED
          BY <3>9, <5>1, <5>2, Sizes
      <4>3. source' = Passed' + Len(chan') /\ source <= total + Depth + 1
        BY <3>5, <3>8, <3>9, <3>10, <3>11, <3>13, Sizes
      <4>4. source' <= total' + Depth + 1 + Handed(caller' # "pump") /\ total' <= Chunks
        BY <3>6, <3>11, <4>1, <4>3, Sizes DEF Handed
      <4>5. source' = Passed' + Len(chan') + Handed(caller' = "hand")
        BY <3>10, <3>9, <4>1, <4>3, Sizes DEF Handed
      <4>6. Passed' <= source' /\ net' # "await" /\ (net' = "hand" => netHand' = total' + 1) /\ inHand' # Bad
        BY <3>3, <3>6, <3>10, <3>11, <3>13
      <4> QED
        BY <4>1, <4>2, <4>4, <4>5, <4>6 DEF WriteAbove
    <3> QED
      BY <3>12, <3>13
  <2> QED
    BY <2>2, <2>3
<1> QED
  BY <1>1, <1>s, <1>rb, <1>ra, <1>wb, <1>wa DEF Places

\* The network thread ends: with success only once everything has passed it.
LEMMA NetEndsKeeps ==
    ASSUME TypeOK, Places, TypeOK', NEW r \in {"ok", "err"}, NetEnds(r),
           UNCHANGED <<call, caller, inHand, writeErr, conn, agent, source, pending, diskErr,
                       dest, answer, broken>>,
           net # "ended",
           r = "ok" => /\ call = "read" /\ ~broken => total = Chunks
                       /\ call = "write" /\ ~diskErr => Held = Chunks
    PROVE  Places'
<1>1. /\ net' = "ended" /\ netResult' = r /\ netHand' = netHand /\ total' = total
      /\ chan' = IF call = "write" THEN <<>> ELSE chan
  BY DEF NetEnds
<1>2. /\ Len(up'.q) \in Nat /\ Len(up'.q) <= Len(up.q) /\ up'.stop = up.stop
      /\ \A i \in 1..Len(up'.q) : up'.q[i] = up.q[i]
  <2>1. up' = up \/ up' \in Cuts(Finish(up))
    BY DEF NetEnds
  <2>2. /\ Finish(up) \in Streams /\ Finish(up).q = up.q /\ Finish(up).stop = up.stop
    BY Sizes, StreamFacts
  <2>3. CASE up' = up
    BY <2>3, Sizes
  <2>4. CASE up' \in Cuts(Finish(up))
    BY <2>2, <2>4, CutFacts, SeqFacts
  <2> QED
    BY <2>1, <2>3, <2>4
<1>3. down'.q = down.q /\ down'.fin = down.fin
  BY Sizes, StreamFacts DEF NetEnds
<1>4. Places /\ Stages
  BY DEF Places
<1>s. Stages'
  <2>1. Len(chan') <= Depth
    BY <1>1, <1>4, Sizes DEF Stages
  <2> QED
    BY <1>1, <1>2, <1>3, <1>4, <2>1 DEF Stages, Follows
<1>rb. call = "read" => ReadBelow'
  BY <1>1, <1>4 DEF Places, ReadBelow, Follows, Handed
<1>ra. call = "read" => ReadAbove'
  <2> SUFFICES ASSUME call = "read" PROVE ReadAbove'
    OBVIOUS
  <2>1. ReadAbove
    BY DEF Places
  <2>2. ASSUME conn, agent = "serve"
        PROVE  source <= total + 1 + Len(down.q)
    <3>1. CASE net = "await" /\ down.q # <<>>
      BY <2>1, <2>2, <3>1, Sizes, ItemsApart DEF ReadAbove
    <3>2. CASE net = "await" /\ down.q = <<>>
      BY <2>1, <2>2, <3>2 DEF ReadAbove
    <3>3. CASE net \in {"relay", "hand"}
      BY <2>1, <2>2, <3>3, Sizes DEF ReadAbove, Passed, Handed
    <3>4. CASE net = "request"
      BY <1>4, <2>2, <3>4 DEF Stages
    <3> QED
      BY <3>1, <3>2, <3>3, <3>4 DEF TypeOK
  <2> QED
    BY <1>1, <1>3, <2>1, <2>2 DEF ReadAbove
<1>wb. call = "write" => WriteBelow'
  <2> SUFFICES ASSUME call = "write" PROVE WriteBelow'
    OBVIOUS
  <2>1. WriteBelow
    BY DEF Places
  <2>2. Held' = Held
    BY DEF Held
  <2>3. Held \in Nat
    BY Sizes DEF Held
  <2>4. ASSUME ~diskErr, agent = "idle", up'.q # <<>>
        PROVE  /\ up'.q[1] = Request /\ \A i \in 2..Len(up'.q) : up'.q[i] = i - 1
               /\ Len(up'.q) <= total + 1
    <3>1. Len(up'.q) >= 1 /\ up.q # <<>>
      BY <1>2, <2>4, Sizes, SeqFacts DEF TypeOK, Streams
    <3>2. /\ up.q[1] = Request /\ \A i \in 2..Len(up.q) : up.q[i] = i - 1
          /\ Len(up.q) <= total + 1
      BY <2>1, <2>4, <3>1 DEF WriteBelow
    <3>3. Len(up.q) \in Nat /\ Len(up'.q) \in Nat /\ total \in Nat
      BY <1>2, Sizes
    <3>4. 1 \in 1..Len(up'.q) /\ \A i \in 2..Len(up'.q) : i \in 1..Len(up'.q) /\ i \in 2..Len(up.q)
      BY <1>2, <3>1, <3>3
    <3>5. Len(up'.q) <= total + 1
      BY <1>2, <3>2, <3>3
    <3> QED
      BY <1>2, <3>2, <3>4, <3>5
  <2>5. ASSUME ~diskErr, agent = "serve"
        PROVE  Follows(up'.q, Held) /\ Held + Len(up'.q) <= total
    <3>1. Follows(up.q, Held) /\ Held + Len(up.q) <= total
      BY <2>1, <2>5 DEF WriteBelow
    <3>2. Len(up.q) \in Nat /\ Len(up'.q) \in Nat /\ total \in Nat
      BY <1>2, Sizes
    <3>3. Held + Len(up'.q) <= total /\ \A i \in 1..Len(up'.q) : i \in 1..Len(up.q)
      BY <1>2, <2>3, <3>1, <3>2
    <3> QED
      BY <1>2, <3>1, <3>3 DEF Follows
  <2> QED
    BY <1>1, <1>3, <2>1, <2>2, <2>4, <2>5 DEF WriteBelow, Follows
<1>wa. call = "write" => WriteAbove'
  BY <1>1, <1>4 DEF Places, WriteAbove
<1> QED
  BY <1>s, <1>rb, <1>ra, <1>wb, <1>wa DEF Places

\* A step of the network thread that ends it, or not.
LEMMA NetRequestKeeps ==
    ASSUME TypeOK, Places, TypeOK', NetRequest
    PROVE  Places'
<1>1. /\ UNCHANGED <<call, caller, inHand, writeErr, answer, conn, agent, pending, diskErr, broken,
                     source, dest>>
      /\ net = "request"
  BY Zenon DEF NetRequest, callerVars, agentVars
<1>2. Places /\ Stages
  BY DEF Places
<1>3. /\ up.q = <<>> /\ ~up.fin /\ agent = "idle" /\ total = 0 /\ dest = <<>> /\ pending = <<>>
      /\ ~broken /\ down.q = <<>> /\ netResult = "none" /\ caller # "done" /\ ~down.fin /\ ~down.stop
  BY <1>1, <1>2 DEF Stages, TypeOK
<1>4. CASE ~conn
  BY <1>1, <1>4, NetEndsKeeps DEF NetRequest
<1>5. CASE conn
  <2>1. /\ UNCHANGED <<down, chan, netHand, netResult, total>>
        /\ net' = IF call = "read" THEN "await" ELSE "relay"
        /\ up' = IF call = "read" THEN Finish(Put(up, Request)) ELSE Put(up, Request)
    BY <1>5 DEF NetRequest
  <2>2. /\ Len(up'.q) = 1 /\ up'.q[1] = Request
        /\ call = "write" => up'.fin = up.fin
    <3>1. Request \in Item
      BY ItemsApart
    <3>2. /\ Put(up, Request) \in Streams /\ Put(up, Request).q = Append(up.q, Request)
          /\ Put(up, Request).fin = up.fin
      BY <3>1, Sizes, StreamFacts
    <3>3. Finish(Put(up, Request)).q = Append(up.q, Request)
      BY <3>2, StreamFacts
    <3>4. Len(Append(up.q, Request)) = 1 /\ Append(up.q, Request)[1] = Request
      BY <1>3
    <3> QED
      BY <2>1, <3>2, <3>3, <3>4
  <2>3. Len(dest) = 0 /\ Len(pending) = 0
    BY <1>3
  <2>s. Stages'
    BY <1>1, <1>2, <1>3, <2>1 DEF Stages
  <2>rb. call = "read" => ReadBelow'
    BY <1>1, <1>2, <1>3, <2>1 DEF Places, ReadBelow
  <2>ra. call = "read" => ReadAbove'
    BY <1>1, <1>2, <1>3, <2>1, Sizes DEF Places, ReadAbove
  <2>wb. call = "write" => WriteBelow'
    <3> SUFFICES ASSUME call = "write" PROVE WriteBelow'
      OBVIOUS
    <3>1. WriteBelow /\ ~diskErr
      BY <1>2, <1>3 DEF Places, WriteBelow
    <3>2. Held' = 0 /\ total' = 0 /\ Len(up'.q) = 1 /\ up'.q[1] = Request /\ up'.fin = FALSE
      BY <1>1, <1>3, <2>1, <2>2, <2>3 DEF Held, TypeOK, Streams
    <3>3. net' = "relay" /\ agent' = "idle" /\ netResult' = "none" /\ ~diskErr' /\ ~writeErr'
      BY <1>1, <1>3, <2>1, <3>1 DEF WriteBelow
    <3>4. broken' = diskErr'
      BY <1>1, <3>1 DEF WriteBelow
    <3>5. Held' + Len(up'.q) = total' + Handed(agent' = "idle") /\ Len(up'.q) <= total' + 1
      BY <3>2, <3>3 DEF Handed
    <3>6. total' <= Len(dest') + 1 + Window /\ Len(pending') <= 1 /\ Follows(pending', Len(dest'))
          /\ Len(down'.q) <= 1 /\ down'.q = <<>>
      BY <1>1, <1>3, <2>1, <2>3, <3>2, Sizes DEF Follows
    <3> QED
      BY <3>2, <3>3, <3>4, <3>5, <3>6 DEF WriteBelow
  <2>wa. call = "write" => WriteAbove'
    BY <1>1, <1>2, <1>3, <2>1, Sizes DEF Places, WriteAbove, Passed, Handed
  <2> QED
    BY <1>1, <2>s, <2>rb, <2>ra, <2>wb, <2>wa DEF Places
<1> QED
  BY <1>4, <1>5

LEMMA NetStatusKeeps ==
    ASSUME TypeOK, Places, TypeOK', NetStatus
    PROVE  Places'
<1>1. /\ UNCHANGED <<call, caller, inHand, writeErr, answer, conn, agent, pending, diskErr, broken,
                     source, dest>>
      /\ net = "await"
  BY Zenon DEF NetStatus, callerVars, agentVars
<1>2. Places /\ Stages
  BY DEF Places
<1>3. CASE NetEnds("err")
  BY <1>1, <1>3, NetEndsKeeps
<1>4. CASE call = "write" /\ down.q # <<>> /\ Head(down.q) = Yes /\ NetEnds("ok")
  <2>1. ~diskErr => Held = Chunks
    BY <1>1, <1>2, <1>4 DEF Places, WriteBelow
  <2> QED
    BY <1>1, <1>4, <2>1, NetEndsKeeps
<1>5. CASE /\ call = "read" /\ down.q # <<>> /\ Head(down.q) = Yes
           /\ net' = "relay" /\ down' = Got(down)
           /\ UNCHANGED <<up, chan, netHand, netResult, total>>
  <2>1. /\ down'.fin = down.fin /\ down'.stop = down.stop /\ Len(down'.q) = Len(down.q) - 1 /\ Len(down.q) >= 1 /\ down.q[1] = Yes
        /\ \A i \in 1..Len(down'.q) : down'.q[i] = down.q[i + 1]
    BY <1>5, Sizes, GotFacts
  <2>2. /\ total = 0 /\ agent # "idle" /\ (broken => agent = "ended")
        /\ \A i \in 2..Len(down.q) : down.q[i] = i - 1
        /\ Len(down.q) <= Chunks + 1
        /\ conn => source = Len(down.q) - 1
        /\ down.fin /\ ~broken => Len(down.q) = Chunks + 1
        /\ agent = "serve" => Len(down.q) <= Window
        /\ source <= total + 1 + Window
    <3>1. ReadAbove /\ Yes # No
      BY <1>5, ItemsApart DEF Places
    <3>2. down.q[1] # No
      BY <2>1, <3>1
    <3>3. agent # "idle"
      BY <1>2, <1>5 DEF Stages
    <3> QED
      BY <1>1, <1>5, <3>1, <3>2, <3>3 DEF ReadAbove
  <2>3. Follows(down'.q, 0)
    <3>1. Len(down.q) \in Nat
      BY Sizes
    <3>2. \A i \in 1..Len(down'.q) : down'.q[i] = i
      <4> SUFFICES ASSUME NEW i \in 1..Len(down'.q) PROVE down'.q[i] = i
        OBVIOUS
      <4>1. i + 1 \in 2..Len(down.q) /\ (i + 1) - 1 = i
        BY <2>1, <3>1
      <4> QED BY <2>1, <2>2, <4>1
    <3> QED BY <3>2, <2>1, <3>1 DEF Follows
  <2>s. Stages'
    BY <1>1, <1>2, <1>5, <2>1, <2>2 DEF Stages
  <2>rb. ReadBelow'
    BY <1>1, <1>2, <1>5 DEF Places, ReadBelow
  <2>ra. ReadAbove'
    <3>1. Passed' = 0 /\ total' = 0 /\ net' = "relay" /\ Len(down'.q) \in Nat
      BY <1>5, <2>1, <2>2, Sizes DEF Passed, Handed
    <3>2. UNCHANGED <<conn, broken, agent, source>> /\ down'.fin = down.fin
      BY <1>1, <2>1
    <3>3. /\ Follows(down'.q, Passed') /\ Passed' + Len(down'.q) <= Chunks
          /\ conn => source = Passed' + Len(down'.q)
          /\ down.fin /\ ~broken => Passed' + Len(down'.q) = Chunks
          /\ agent = "serve" => Len(down'.q) <= Window
      <4>1. Len(down.q) \in Nat /\ Chunks \in Nat /\ Window \in Nat
        BY Sizes
      <4>2. Follows(down'.q, Passed')
        BY <2>3, <3>1
      <4> QED
        BY <2>1, <2>2, <3>1, <4>1, <4>2
    <3> QED
      BY <2>2, <3>1, <3>2, <3>3 DEF ReadAbove
  <2> QED
    BY <1>1, <1>5, <2>s, <2>rb, <2>ra DEF Places
<1> QED
  BY <1>3, <1>4, <1>5 DEF NetStatus

LEMMA NetReceiveKeeps ==
    ASSUME TypeOK, Places, TypeOK', NetReceive
    PROVE  Places'
<1>1. /\ UNCHANGED <<call, caller, inHand, writeErr, answer, conn, agent, pending, diskErr, broken,
                     source, dest>>
      /\ net = "relay" /\ call = "read"
  BY Zenon DEF NetReceive, callerVars, agentVars
<1>2. Places /\ Stages /\ ReadAbove
  BY <1>1 DEF Places
<1>3. CASE NetEnds("err")
  BY <1>1, <1>3, NetEndsKeeps
<1>4. CASE down.q = <<>> /\ down.fin /\ NetEnds("ok")
  <2>1. ~broken => total = Chunks
    BY <1>1, <1>2, <1>4, Sizes DEF ReadAbove, Passed, Handed
  <2> QED
    BY <1>1, <1>4, <2>1, NetEndsKeeps
<1>5. CASE /\ down.q # <<>> /\ netHand' = Head(down.q) /\ down' = Got(down) /\ net' = "hand"
           /\ UNCHANGED <<up, chan, netResult, total>>
  <2>1. /\ down'.fin = down.fin /\ down'.stop = down.stop /\ Len(down'.q) = Len(down.q) - 1 /\ Len(down.q) >= 1 /\ netHand' = down.q[1]
        /\ \A i \in 1..Len(down'.q) : down'.q[i] = down.q[i + 1]
    BY <1>5, Sizes, GotFacts
  <2>2. Passed = total /\ Passed' = total + 1 /\ total' = total
    BY <1>1, <1>5, Sizes DEF Passed, Handed
  <2>3. /\ Follows(down.q, total) /\ total + Len(down.q) <= Chunks
        /\ conn => source = total + Len(down.q)
        /\ down.fin /\ ~broken => total + Len(down.q) = Chunks
        /\ agent # "idle" /\ (broken => agent = "ended")
        /\ agent = "serve" => Len(down.q) <= Window
        /\ source <= total + 1 + Window
    BY <1>1, <1>2, <2>2 DEF ReadAbove
  <2>4. Follows(down'.q, total + 1) /\ netHand' = total + 1
    <3>1. total \in Nat /\ Len(down.q) \in Nat
      BY Sizes
    <3>2. \A i \in 1..Len(down'.q) : i + 1 \in 1..Len(down.q) /\ total + (i + 1) = (total + 1) + i
      BY <2>1, <3>1
    <3> QED
      BY <2>1, <2>3, <3>1, <3>2 DEF Follows
  <2>s. Stages'
    BY <1>1, <1>2, <1>5, <2>1, <2>3 DEF Stages
  <2>rb. ReadBelow'
    BY <1>1, <1>2, <1>5 DEF Places, ReadBelow
  <2>ra. ReadAbove'
    <3>1. UNCHANGED <<conn, broken, agent, source>> /\ down'.fin = down.fin /\ net' = "hand"
      BY <1>1, <1>5, <2>1
    <3>2. /\ Follows(down'.q, Passed') /\ Passed' + Len(down'.q) <= Chunks
          /\ conn => source = Passed' + Len(down'.q)
          /\ down.fin /\ ~broken => Passed' + Len(down'.q) = Chunks
          /\ agent = "serve" => Len(down'.q) <= Window
      BY <2>1, <2>2, <2>3, <2>4, Sizes
    <3> QED
      BY <2>2, <2>3, <2>4, <3>1, <3>2 DEF ReadAbove
  <2> QED
    BY <1>1, <1>5, <2>s, <2>rb, <2>ra DEF Places
<1> QED
  BY <1>3, <1>4, <1>5 DEF NetReceive

LEMMA NetForwardKeeps ==
    ASSUME TypeOK, Places, TypeOK', NetForward
    PROVE  Places'
<1>1. /\ UNCHANGED <<call, caller, inHand, writeErr, answer, conn, agent, pending, diskErr, broken,
                     source, dest>>
      /\ net = "hand" /\ call = "read"
  BY Zenon DEF NetForward, callerVars, agentVars
<1>2. Places /\ Stages /\ ReadAbove /\ ReadBelow
  BY <1>1 DEF Places
<1>3. CASE ~CallerHolds
  BY <1>1, <1>3, NetEndsKeeps DEF NetForward
<1>4. CASE CallerHolds
  <2>1. /\ Len(chan) < Depth /\ chan' = Append(chan, netHand) /\ total' = total + 1 /\ net' = "relay"
        /\ UNCHANGED <<up, down, netHand, netResult>>
    BY <1>4 DEF NetForward
  <2>2. Passed = total + 1 /\ Passed' = total + 1 /\ netHand = total + 1
    BY <1>1, <1>2, <2>1, Sizes DEF Passed, Handed, ReadAbove
  <2>3. /\ Len(chan') = Len(chan) + 1 /\ chan'[Len(chan) + 1] = total + 1
        /\ \A i \in 1..Len(chan) : chan'[i] = chan[i]
    BY <2>1, <2>2, Sizes
  <2>4. caller \in {"pump", "hand"} /\ ~writeErr
    BY <1>2, <1>4 DEF CallerHolds, ReadBelow
  <2>5. Follows(chan, total - Len(chan))
    BY <1>2 DEF ReadBelow
  <2>6. Follows(chan', total' - Len(chan'))
    <3>1. total \in Nat /\ Len(chan) \in Nat
      BY Sizes
    <3>2. total' - Len(chan') = total - Len(chan)
      BY <2>1, <2>3, <3>1
    <3>3. (total - Len(chan)) + (Len(chan) + 1) = total + 1
      BY <3>1
    <3> QED
      BY <2>3, <2>5, <3>1, <3>2, <3>3 DEF Follows
  <2>7. total + 1 <= Chunks
    <3>1. Passed + Len(down.q) <= Chunks
      BY <1>1, <1>2 DEF ReadAbove
    <3> QED
      BY <2>2, <3>1, Sizes
  <2>s. Stages'
    <3>1. Len(chan') <= Depth
      BY <2>1, <2>3, Sizes
    <3>2. agent # "idle"
      BY <1>1, <1>2 DEF ReadAbove
    <3> QED
      BY <1>1, <1>2, <2>1, <2>4, <3>1, <3>2 DEF Stages
  <2>rb. ReadBelow'
    <3>1. total' = Len(dest) + Handed(caller = "hand" \/ writeErr) + Len(chan')
      <4>1. Handed(caller = "hand" \/ writeErr) \in Nat
        BY DEF Handed
      <4>2. total = Len(dest) + Handed(caller = "hand" \/ writeErr) + Len(chan)
        BY <1>2 DEF ReadBelow
      <4> QED
        BY <2>1, <2>3, <4>1, <4>2, Sizes
    <3>2. netResult' = "none"
      BY <1>1, <1>2, <2>1 DEF Stages, TypeOK
    <3> QED
      BY <1>1, <1>2, <2>1, <2>4, <2>6, <2>7, <3>1, <3>2 DEF ReadBelow, Handed
  <2>ra. ReadAbove'
    <3>1. source <= total' + 1 + Window
      BY <1>2, <2>1, Sizes DEF ReadAbove
    <3> QED
      BY <1>1, <1>2, <2>1, <2>2, <3>1 DEF ReadAbove
  <2> QED
    BY <1>1, <2>s, <2>rb, <2>ra DEF Places
<1> QED
  BY <1>3, <1>4

LEMMA NetTakeKeeps ==
    ASSUME TypeOK, Places, TypeOK', NetTake
    PROVE  Places'
<1>1. /\ UNCHANGED <<call, caller, inHand, writeErr, answer, conn, agent, pending, diskErr, broken,
                     source, dest>>
      /\ net = "relay" /\ call = "write"
  BY Zenon DEF NetTake, callerVars, agentVars
<1>2. Places /\ Stages /\ WriteAbove /\ WriteBelow
  BY <1>1 DEF Places
<1>3. CASE NetEnds("err")
  BY <1>1, <1>3, NetEndsKeeps
<1>0. Passed = total /\ total \in Nat /\ Len(chan) \in Nat /\ netResult = "none" /\ caller # "done"
  BY <1>1, <1>2, Sizes DEF Passed, Handed, Stages, TypeOK
<1>4. CASE /\ chan # <<>> /\ Head(chan) # Bad
           /\ netHand' = Head(chan) /\ chan' = Tail(chan) /\ net' = "hand"
           /\ UNCHANGED <<up, down, netResult, total>>
  <2>1. /\ Len(chan) >= 1 /\ netHand' = chan[1] /\ Len(chan') = Len(chan) - 1
        /\ \A i \in 1..Len(chan') : chan'[i] = chan[i + 1]
        /\ chan[1] # Bad
    BY <1>4, Sizes, SeqFacts
  <2>2. netHand' = total + 1 /\ total + 1 <= source /\ Passed' = total + 1
    <3>1. 1 \in 1..Len(chan)
      BY <1>0, <2>1
    <3>2. chan[1] = Passed + 1 /\ Passed + 1 <= source
      BY <1>1, <1>2, <2>1, <3>1 DEF WriteAbove
    <3>3. Passed' = total + 1
      BY <1>0, <1>4 DEF Passed, Handed
    <3> QED
      BY <1>0, <2>1, <3>2, <3>3
  <2>s. Stages'
    BY <1>0, <1>1, <1>2, <1>4, <2>1, Sizes DEF Stages
  <2>wb. WriteBelow'
    <3>1. Held' = Held
      BY <1>1 DEF Held
    <3> QED
      BY <1>1, <1>2, <1>4, <3>1 DEF WriteBelow
  <2>wa. WriteAbove'
    <3>1. \A i \in 1..Len(chan') :
            \/ chan'[i] = Passed' + i /\ Passed' + i <= source'
            \/ chan'[i] = Bad /\ i = Len(chan') /\ caller' = "join"
      <4> TAKE i \in 1..Len(chan')
      <4>1. i + 1 \in 1..Len(chan) /\ Passed + (i + 1) = Passed' + i /\ source' = source
            /\ caller' = caller /\ (i + 1 = Len(chan) => i = Len(chan'))
        BY <1>0, <1>1, <2>1, <2>2
      <4>2. \/ chan[i + 1] = Passed + (i + 1) /\ Passed + (i + 1) <= source
            \/ chan[i + 1] = Bad /\ i + 1 = Len(chan) /\ caller = "join"
        BY <1>1, <1>2, <4>1 DEF WriteAbove
      <4> QED
        BY <2>1, <4>1, <4>2
    <3>2. (\A i \in 1..Len(chan') : chan'[i] # Bad) /\ inHand' # Bad =>
            source' = Passed' + Len(chan') + Handed(caller' = "hand")
      <4> SUFFICES ASSUME \A i \in 1..Len(chan') : chan'[i] # Bad, inHand' # Bad
                   PROVE  source' = Passed' + Len(chan') + Handed(caller' = "hand")
        OBVIOUS
      <4>1. \A i \in 1..Len(chan) : chan[i] # Bad
        <5> TAKE i \in 1..Len(chan)
        <5>1. CASE i = 1
          BY <2>1, <5>1
        <5>2. CASE i # 1
          <6>1. i - 1 \in 1..Len(chan') /\ (i - 1) + 1 = i
            BY <1>0, <2>1, <5>2
          <6> QED
            BY <2>1, <6>1
        <5> QED
          BY <5>1, <5>2
      <4>2. source = Passed + Len(chan) + Handed(caller = "hand")
        BY <1>1, <1>2, <4>1 DEF WriteAbove
      <4> QED
        BY <1>0, <1>1, <2>1, <2>2, <4>2 DEF Handed
    <3>3. inHand = Bad /\ caller # "hand" => chan' # <<>> /\ chan'[Len(chan')] = Bad
      <4> SUFFICES ASSUME inHand = Bad, caller # "hand"
                   PROVE  chan' # <<>> /\ chan'[Len(chan')] = Bad
        OBVIOUS
      <4>1. chan[Len(chan)] = Bad
        BY <1>1, <1>2 DEF WriteAbove
      <4>2. Len(chan) # 1
        BY <2>1, <4>1
      <4>3. Len(chan') \in 1..Len(chan') /\ Len(chan') + 1 = Len(chan) /\ chan' # <<>>
        BY <1>0, <2>1, <4>2
      <4> QED
        BY <2>1, <4>1, <4>3
    <3> QED
      BY <1>0, <1>1, <1>2, <1>4, <2>2, <3>1, <3>2, <3>3 DEF WriteAbove
  <2> QED
    BY <1>1, <2>s, <2>wb, <2>wa DEF Places
<1>5. CASE /\ chan = <<>> /\ ~CallerHolds /\ up' = Finish(up) /\ net' = "await"
           /\ UNCHANGED <<down, chan, netHand, netResult, total>>
  <2>1. caller = "join" /\ inHand # Bad /\ source = Chunks /\ total = Chunks
    <3>1. caller = "join"
      BY <1>0, <1>5 DEF CallerHolds, TypeOK
    <3>2. inHand # Bad
      BY <1>1, <1>2, <1>5, <3>1 DEF WriteAbove
    <3>3. source = Chunks /\ source = Passed + Len(chan) + 0
      BY <1>1, <1>2, <1>5, <3>1, <3>2 DEF WriteAbove, Handed
    <3> QED
      BY <1>0, <1>5, <3>1, <3>2, <3>3
  <2>2. up'.q = up.q /\ up'.stop = up.stop /\ up'.fin
    BY <1>5, Sizes, StreamFacts
  <2>s. Stages'
    BY <1>0, <1>1, <1>2, <1>5, <2>2 DEF Stages
  <2>wa. WriteAbove'
    BY <1>0, <1>1, <1>2, <1>5, <2>1, Sizes DEF WriteAbove, Passed, Handed
  <2>wb. WriteBelow'
    <3>1. Held' = Held /\ total' = total /\ Held \in Nat /\ Len(up.q) \in Nat
      BY <1>1, <1>5, Sizes DEF Held
    <3>2. ASSUME ~diskErr, conn, agent # "ended"
          PROVE  Held + Len(up.q) = Chunks + Handed(agent = "idle")
      BY <1>1, <1>2, <2>1, <3>2 DEF WriteBelow
    <3>3. agent = "idle" => Held = 0
      BY <1>2 DEF Stages, Held
    <3>4. ~diskErr /\ down.q # <<>> => Head(down.q) # Yes
      BY <1>1, <1>2 DEF WriteBelow
    <3>5. /\ UNCHANGED <<conn, agent, down, diskErr, broken, writeErr, dest, pending, netResult>>
          /\ net' = "await" /\ up'.q = up.q
      BY <1>1, <1>5, <2>2
    <3>6. ASSUME ~diskErr, conn, agent = "serve"
          PROVE  Held + Len(up.q) = Chunks
      BY <3>1, <3>2, <3>6, Sizes DEF Handed
    <3>7. ASSUME ~diskErr, conn, agent = "idle"
          PROVE  Len(up.q) = Chunks + 1
      BY <3>1, <3>2, <3>3, <3>7, Sizes DEF Handed
    <3> QED
      BY <1>0, <1>2, <2>1, <3>1, <3>2, <3>4, <3>5, <3>6, <3>7 DEF WriteBelow
  <2> QED
    BY <1>1, <2>s, <2>wb, <2>wa DEF Places
<1> QED
  BY <1>3, <1>4, <1>5 DEF NetTake

LEMMA NetSendKeeps ==
    ASSUME TypeOK, Places, TypeOK', NetSend
    PROVE  Places'
<1>1. /\ UNCHANGED <<call, caller, inHand, writeErr, answer, conn, agent, pending, diskErr, broken,
                     source, dest>>
      /\ net = "hand" /\ call = "write"
  BY Zenon DEF NetSend, callerVars, agentVars
<1>2. Places /\ Stages /\ WriteAbove /\ WriteBelow
  BY <1>1 DEF Places
<1>3. CASE NetEnds("err")
  BY <1>1, <1>3, NetEndsKeeps
<1>4. CASE /\ conn /\ ~up.stop /\ Len(up.q) < Window
           /\ up' = Put(up, netHand) /\ total' = total + 1 /\ net' = "relay"
           /\ UNCHANGED <<down, chan, netHand, netResult>>
  <2>0. /\ total \in Nat /\ Len(up.q) \in Nat /\ Held \in Nat /\ Len(dest) \in Nat
        /\ Len(pending) \in Nat /\ Len(chan) \in Nat /\ source \in Nat /\ source <= Chunks
        /\ Chunks \in Nat /\ Window \in Nat /\ Depth \in Nat
    BY Sizes DEF Held
  <2>t. total' = total + 1 /\ Len(up.q) < Window
    BY <1>4
  <2>1. netHand = total + 1 /\ Passed = total + 1 /\ Passed' = total + 1 /\ Passed <= source
    BY <1>1, <1>2, <1>4, <2>0 DEF WriteAbove, Passed, Handed
  <2>2. netHand \in Item
    BY <2>0, <2>1 DEF Item, Items
  <2>3. /\ Len(up'.q) = Len(up.q) + 1 /\ up'.q[Len(up.q) + 1] = total + 1
        /\ \A i \in 1..Len(up.q) : up'.q[i] = up.q[i]
        /\ up'.fin = up.fin /\ up'.stop = up.stop
    BY <1>4, <2>1, <2>2, Sizes, PutFacts
  <2>4. agent # "ended" /\ ~up.fin /\ netResult = "none" /\ caller # "done"
    BY <1>1, <1>2, <1>4 DEF Stages, WriteBelow, TypeOK
  <2>s. Stages'
    BY <1>1, <1>2, <1>4, <2>3, <2>4 DEF Stages
  <2>wa. WriteAbove'
    <3>1. source <= total' + Depth + 1 + Handed(caller # "pump")
      BY <1>2, <1>4, <2>0 DEF WriteAbove, Handed
    <3> QED
      BY <1>1, <1>2, <1>4, <2>0, <2>1, <3>1 DEF WriteAbove
  <2>wb. WriteBelow'
    <3>1. Held' = Held /\ (agent = "idle" => Held = 0 /\ Len(dest) = 0)
      BY <1>1, <1>2 DEF Held, Stages
    <3>2. ASSUME ~diskErr
          PROVE  Held + Len(up.q) = total + Handed(agent = "idle")
      BY <1>1, <1>2, <1>4, <2>4, <3>2 DEF WriteBelow
    <3>3. ASSUME ~diskErr, agent = "idle"
          PROVE  /\ up'.q[1] = Request /\ \A i \in 2..Len(up'.q) : up'.q[i] = i - 1
                 /\ Len(up'.q) = total' + 1 /\ total' <= Window
      <4>1. Len(up.q) = total + 1 /\ up.q # <<>>
        BY <2>0, <3>1, <3>2, <3>3 DEF Handed
      <4>2. up.q[1] = Request /\ \A i \in 2..Len(up.q) : up.q[i] = i - 1
        BY <1>2, <3>3, <4>1 DEF WriteBelow
      <4>3. up'.q[1] = Request /\ Len(up'.q) = total' + 1 /\ total' <= Window
        BY <1>4, <2>0, <2>3, <4>1, <4>2
      <4>4. \A i \in 2..Len(up'.q) : up'.q[i] = i - 1
        <5> TAKE i \in 2..Len(up'.q)
        <5>1. CASE i = Len(up.q) + 1
          BY <2>0, <2>3, <4>1, <5>1
        <5>2. CASE i # Len(up.q) + 1
          <6>1. i \in 2..Len(up.q) /\ i \in 1..Len(up.q)
            BY <2>0, <2>3, <5>2
          <6> QED
            BY <2>3, <4>2, <6>1
        <5> QED
          BY <5>1, <5>2
      <4> QED
        BY <4>3, <4>4
    <3>4. ASSUME ~diskErr, agent = "serve"
          PROVE  Follows(up'.q, Held) /\ Held + Len(up'.q) = total' /\ total' <= Len(dest) + 1 + Window
      <4>1. Follows(up.q, Held) /\ Held + Len(up.q) = total
        BY <1>2, <2>0, <3>2, <3>4 DEF WriteBelow, Handed
      <4>2. Len(pending) <= 1
        BY <1>2 DEF WriteBelow
      <4>3. Held + (Len(up.q) + 1) = total + 1 /\ Held + Len(up'.q) = total'
        BY <2>t, <2>0, <2>3, <4>1
      <4>4. Follows(up'.q, Held)
        <5> SUFFICES ASSUME NEW i \in 1..Len(up'.q) PROVE up'.q[i] = Held + i
          BY DEF Follows
        <5>1. CASE i = Len(up.q) + 1
          BY <2>3, <4>3, <5>1
        <5>2. CASE i # Len(up.q) + 1
          <6>1. i \in 1..Len(up.q)
            BY <2>0, <2>3, <5>2
          <6> QED
            BY <2>3, <4>1, <6>1 DEF Follows
        <5> QED
          BY <5>1, <5>2
      <4>5. total' <= Len(dest) + 1 + Window
        <5>1. Held <= Len(dest) + 1
          BY <2>0, <4>2 DEF Held
        <5>2. Held + Len(up.q) = total
          BY <4>1
        <5> QED
          BY <2>t, <2>0, <5>1, <5>2
      <4> QED
        BY <4>3, <4>4, <4>5
    <3>5. /\ UNCHANGED <<conn, agent, down, diskErr, broken, writeErr, dest, pending, netResult>>
          /\ net' = "relay" /\ up'.fin = up.fin
      BY <1>1, <1>4, <2>3
    <3>6. agent \in {"idle", "serve"}
      BY <2>4 DEF TypeOK
    <3>7. ~diskErr => total' <= Len(dest) + 1 + Window
      BY <2>0, <2>t, <3>1, <3>3, <3>4, <3>6
    <3>8. ~diskErr => Held + Len(up'.q) = total' + Handed(agent = "idle")
      BY <2>0, <3>1, <3>3, <3>4, <3>6, <1>4 DEF Handed
    <3>9. ~diskErr /\ agent = "idle" => Len(up'.q) <= total' + 1
      BY <2>0, <1>4, <3>3
    <3>10. ~diskErr /\ agent = "serve" => Held + Len(up'.q) <= total'
      BY <2>0, <1>4, <3>4
    <3>11. ~diskErr /\ down.q # <<>> => Head(down.q) # Yes
      BY <1>1, <1>2 DEF WriteBelow
    <3> QED
      BY <1>2, <2>4, <3>1, <3>3, <3>4, <3>5, <3>7, <3>8, <3>9, <3>10, <3>11 DEF WriteBelow
  <2> QED
    BY <1>1, <2>s, <2>wa, <2>wb DEF Places
<1> QED
  BY <1>3, <1>4 DEF NetSend

\* The agent's handler ends a download: it has read everything, or it says so
\* in another way.
LEMMA AgentEndsReadKeeps ==
    ASSUME TypeOK, Places, TypeOK', call = "read", NEW d \in {down, Put(down, No)}, AgentEnds(d),
           agent # "ended", net # "request", broken => broken',
           UNCHANGED <<call, caller, inHand, writeErr, chan, net, netHand, netResult, total, conn,
                       source, pending, diskErr, dest, answer>>,
           d = Put(down, No) => agent = "idle",
           d = down => agent = "serve" /\ (conn /\ net # "ended" /\ ~broken' => source = Chunks)
    PROVE  Places'
<1>1. agent' = "ended" /\ up'.q = up.q /\ up'.fin = up.fin /\ up'.stop
  BY Sizes, StreamFacts DEF AgentEnds
<1>2. Stages /\ ReadBelow /\ ReadAbove /\ ~down.fin
  BY DEF Places, Stages
<1>3. Passed' = Passed /\ Passed \in Nat
  BY Sizes DEF Passed, Handed
<1>4. No \in Item
  BY ItemsApart
<1>s. Stages'
  <2>1. down'.stop = down.stop
    <3>1. d \in Streams /\ d.stop = down.stop
      BY <1>4, Sizes, PutFacts
    <3> QED
      BY <3>1, StreamFacts DEF AgentEnds
  <2> QED
    BY <1>1, <1>2, <2>1 DEF Stages
<1>rb. ReadBelow'
  BY <1>2 DEF ReadBelow
<1>ra. ReadAbove'
  <2>1. CASE ~conn
    <3>1. down' = down
      BY <2>1 DEF AgentEnds
    <3> QED
      BY <1>1, <1>2, <1>3, <2>1, <3>1 DEF ReadAbove
  <2>2. CASE conn /\ d = down
    <3>1. down'.q = down.q /\ down'.fin /\ agent = "serve"
          /\ (net # "ended" /\ ~broken' => source = Chunks)
      BY <2>2, Sizes, StreamFacts DEF AgentEnds
    <3>2. ASSUME net = "await"
          PROVE  down.q # <<>> /\ down.q[1] = Yes /\ Len(down.q) <= Chunks + 1
                 /\ (\A i \in 2..Len(down.q) : down.q[i] = i - 1)
                 /\ source = Len(down.q) - 1
      <4>1. Yes # No
        BY ItemsApart
      <4> QED
        BY <1>2, <2>2, <3>1, <3>2, <4>1 DEF ReadAbove
    <3>3. net = "await" /\ ~broken' => Len(down.q) = Chunks + 1
      BY <3>1, <3>2, Sizes
    <3>4. net \in {"relay", "hand"} => source = Passed + Len(down.q)
      BY <1>2, <2>2 DEF ReadAbove
    <3> QED
      BY <1>1, <1>2, <1>3, <2>2, <3>1, <3>2, <3>3, <3>4 DEF ReadAbove
  <2>3. CASE conn /\ d = Put(down, No)
    <3>1. down.q = <<>> /\ agent = "idle" /\ net \notin {"relay", "hand"}
      BY <1>2, <2>3 DEF Stages, ReadAbove
    <3>2. Len(down'.q) = 1 /\ down'.q[1] = No
      <4>1. Put(down, No) \in Streams /\ Len(Put(down, No).q) = 1 /\ Put(down, No).q[1] = No
        BY <1>4, <3>1, Sizes, PutFirst
      <4> QED
        BY <2>3, <4>1, StreamFacts DEF AgentEnds
    <3> QED
      BY <1>1, <1>2, <1>3, <2>3, <3>1, <3>2 DEF ReadAbove
  <2> QED
    BY <2>1, <2>2, <2>3, Zenon DEF TypeOK
<1> QED
  BY <1>s, <1>rb, <1>ra DEF Places

\* It ends an upload: with Yes once it has received everything.
LEMMA AgentEndsWriteKeeps ==
    ASSUME TypeOK, Places, TypeOK', call = "write",
           NEW d \in {down, Put(down, No), Put(down, Yes)}, AgentEnds(d),
           agent # "ended", net # "request",
           UNCHANGED <<call, caller, inHand, writeErr, chan, net, netHand, netResult, total, conn,
                       source, pending, diskErr, dest, answer, broken>>,
           d = down => ~conn,
           d = Put(down, Yes) => agent = "serve" /\ up.q = <<>> /\ up.fin
    PROVE  Places'
<1>1. agent' = "ended" /\ up'.q = up.q /\ up'.fin = up.fin /\ up'.stop
  BY Sizes, StreamFacts DEF AgentEnds
<1>2. Stages /\ WriteBelow /\ WriteAbove
  BY DEF Places
<1>3. {Yes, No} \subseteq Item /\ Yes # No
  BY ItemsApart
<1>4. down.q = <<>> /\ ~down.fin /\ Len(down.q) = 0
  BY <1>2 DEF WriteBelow, Stages
<1>5. \/ down'.q = <<>>
      \/ Len(down'.q) = 1 /\ Head(down'.q) = No
      \/ /\ Len(down'.q) = 1 /\ Head(down'.q) = Yes
         /\ conn /\ agent = "serve" /\ up.q = <<>> /\ up.fin
  <2>1. CASE ~conn
    BY <1>4, <2>1 DEF AgentEnds
  <2>2. ASSUME conn, NEW x \in {Yes, No}, d = Put(down, x)
        PROVE  Len(down'.q) = 1 /\ Head(down'.q) = x
    <3>1. d \in Streams /\ Len(d.q) = 1
      BY <1>3, <1>4, <2>2, Sizes, PutFirst
    <3>2. Head(d.q) = x
      BY <1>3, <1>4, <2>2, Sizes, PutFirst
    <3>3. down'.q = d.q
      BY <2>2, <3>1, StreamFacts DEF AgentEnds
    <3> QED
      BY <3>1, <3>2, <3>3
  <2> QED
    BY <2>1, <2>2
<1>6. down'.stop = down.stop /\ Len(down'.q) <= 1
  <2>1. d \in Streams /\ d.stop = down.stop
    <3>1. CASE d = down
      BY <3>1, Sizes
    <3>2. CASE d = Put(down, No)
      BY <1>3, <3>2, Sizes, PutFacts
    <3>3. CASE d = Put(down, Yes)
      BY <1>3, <3>3, Sizes, PutFacts
    <3> QED
      BY <3>1, <3>2, <3>3
  <2>2. down'.stop = down.stop
    BY <2>1, StreamFacts DEF AgentEnds
  <2>3. Len(down'.q) <= 1
    <3>1. down'.q = <<>> => Len(down'.q) = 0
      OBVIOUS
    <3>2. down'.q = <<>> \/ Len(down'.q) = 1
      BY <1>5
    <3>3. Len(down'.q) \in Nat
      BY SizesAfter
    <3>4. Len(down'.q) = 0 \/ Len(down'.q) = 1
      BY <3>1, <3>2
    <3> QED
      BY <3>3, <3>4
  <2> QED
    BY <2>2, <2>3
<1>s. Stages'
  BY <1>1, <1>2, <1>6 DEF Stages
<1>wa. WriteAbove'
  BY <1>2 DEF WriteAbove, Passed
<1>wb. WriteBelow'
  <2>1. Held' = Held /\ Held \in Nat
    BY Sizes DEF Held
  <2>2. ASSUME ~diskErr, net # "ended", down'.q # <<>>, Head(down'.q) = Yes
        PROVE  Held = Chunks /\ net = "await"
    <3>1. conn /\ agent = "serve" /\ up.q = <<>> /\ up.fin
      BY <1>3, <1>5, <2>2
    <3>2. net = "await" /\ Held + Len(up.q) = Chunks
      BY <1>2, <2>2, <3>1 DEF WriteBelow
    <3> QED
      BY <2>1, <3>1, <3>2
  <2> QED
    BY <1>1, <1>2, <1>6, <2>1, <2>2 DEF WriteBelow
<1> QED
  BY <1>s, <1>wa, <1>wb DEF Places

LEMMA AgentAcceptKeeps ==
    ASSUME TypeOK, Places, TypeOK', AgentAccept
    PROVE  Places'
<1>1. /\ UNCHANGED <<call, caller, inHand, writeErr, answer, chan, net, netHand, netResult, total,
                     conn, source, pending, diskErr, broken, dest>>
      /\ agent = "idle" /\ up.q # <<>>
  BY Zenon DEF AgentAccept, callerVars, netVars
<1>2. /\ Stages /\ net # "request" /\ down.q = <<>> /\ ~down.fin /\ dest = <<>> /\ pending = <<>>
      /\ ~broken /\ Len(dest) = 0 /\ Len(pending) = 0 /\ Len(down.q) = 0
  BY <1>1 DEF Places, Stages
<1>3. call \in {"read", "write"}
  BY DirectionsAssumption DEF TypeOK
<1>4. CASE AgentEnds(Put(down, No))
  <2>1. broken => broken'
    BY <1>2
  <2>2. Put(down, No) # down /\ Put(down, No) # Put(down, Yes)
    <3>1. /\ Len(Put(down, No).q) = 1 /\ Put(down, No).q[1] = No
          /\ Put(down, Yes).q[1] = Yes /\ Yes # No
      BY <1>2, Sizes, PutFirst, ItemsApart
    <3> QED
      BY <1>2, <3>1
  <2>3. CASE call = "read"
    BY <1>1, <1>2, <1>4, <2>1, <2>2, <2>3, AgentEndsReadKeeps
  <2>4. CASE call = "write"
    BY <1>1, <1>2, <1>4, <2>2, <2>4, AgentEndsWriteKeeps
  <2> QED
    BY <1>3, <2>3, <2>4
<1>5. CASE /\ agent' = "serve" /\ up' = Got(up)
           /\ down' = IF call = "read" THEN Put(down, Yes) ELSE down
  <2>1. /\ Len(up.q) \in Nat /\ Len(up.q) >= 1 /\ Len(up'.q) = Len(up.q) - 1
        /\ \A i \in 1..Len(up'.q) : up'.q[i] = up.q[i + 1]
        /\ up'.fin = up.fin /\ up'.stop = up.stop
    BY <1>1, <1>5, Sizes, GotFacts
  <2>2. call = "read" => Len(down'.q) = 1 /\ down'.q[1] = Yes /\ down'.q # <<>>
    <3>1. Yes \in Item
      BY ItemsApart
    <3>2. Len(Put(down, Yes).q) = 1 /\ Put(down, Yes).q[1] = Yes
      BY <1>2, <3>1, Sizes, PutFirst
    <3> QED
      BY <1>5, <3>1, <3>2, <1>2, Sizes, PutFirst
  <2>3. down'.fin = down.fin /\ down'.stop = down.stop
    <3>1. Put(down, Yes).fin = down.fin /\ Put(down, Yes).stop = down.stop
      BY Sizes, PutFacts, ItemsApart
    <3> QED
      BY <1>5, <3>1
  <2>s. Stages'
    BY <1>1, <1>2, <1>5, <2>1, <2>3 DEF Stages
  <2>rb. call = "read" => ReadBelow'
    BY <1>1 DEF Places, ReadBelow
  <2>ra. call = "read" => ReadAbove'
    <3> SUFFICES ASSUME call = "read" PROVE ReadAbove'
      OBVIOUS
    <3>1. ReadAbove
      BY DEF Places
    <3>2. source = 0 /\ total = 0 /\ net \in {"await", "ended"}
      BY <1>1, <1>2, <3>1 DEF ReadAbove, TypeOK
    <3>3. Len(down'.q) = 1 /\ down'.q[1] = Yes /\ down'.q # <<>> /\ ~down'.fin
      BY <1>2, <2>2, <2>3
    <3>4. /\ Chunks \in Nat /\ Window >= 1 /\ Window \in Nat
          /\ \A i \in 2..Len(down'.q) : down'.q[i] = i - 1
      BY <3>3, Sizes
    <3> QED
      BY <1>1, <1>2, <1>5, <3>1, <3>2, <3>3, <3>4 DEF ReadAbove
  <2>wb. call = "write" => WriteBelow'
    <3> SUFFICES ASSUME call = "write" PROVE WriteBelow'
      OBVIOUS
    <3>1. WriteBelow /\ Held = 0 /\ Held' = 0
      BY <1>1, <1>2 DEF Places, Held
    <3>2. ~diskErr /\ total \in Nat
      BY <1>2, <3>1, Sizes DEF WriteBelow
    <3>3. /\ up.q[1] = Request /\ \A i \in 2..Len(up.q) : up.q[i] = i - 1
          /\ Len(up.q) <= total + 1
      BY <1>1, <3>1, <3>2 DEF WriteBelow
    <3>4. Follows(up'.q, 0) /\ Len(up'.q) <= total
      <4>1. \A i \in 1..Len(up'.q) : i + 1 \in 2..Len(up.q) /\ (i + 1) - 1 = 0 + i
        BY <2>1
      <4> QED
        BY <2>1, <3>2, <3>3, <4>1 DEF Follows
    <3>5. conn /\ net # "ended" => Len(up.q) = total + 1
      BY <1>1, <1>2, <3>1, <3>2, <2>1 DEF WriteBelow, Handed
    <3>6. conn /\ net = "await" /\ up.fin => Len(up.q) = Chunks + 1
      BY <1>1, <3>1, <3>2 DEF WriteBelow
    <3>7. /\ conn /\ net # "ended" => 0 + Len(up'.q) = total + 0
          /\ conn /\ net = "await" /\ up.fin => 0 + Len(up'.q) = Chunks
      BY <2>1, <3>2, <3>5, <3>6, Sizes
    <3>8. down' = down
      BY <1>5
    <3> QED
      BY <1>1, <1>2, <1>5, <2>1, <3>1, <3>2, <3>4, <3>7, <3>8 DEF WriteBelow, Handed
  <2>wa. call = "write" => WriteAbove'
    BY <1>1 DEF Places, WriteAbove, Passed
  <2> QED
    BY <1>1, <2>s, <2>rb, <2>ra, <2>wb, <2>wa DEF Places
<1> QED
  BY <1>4, <1>5 DEF AgentAccept

\* A stream with one more item is another stream.
LEMMA PutDiffers ==
    ASSUME NEW s \in Streams
    PROVE  Put(s, No) # s /\ Put(s, Yes) # s /\ Put(s, No) # Put(s, Yes)
<1>1. No \in Item /\ Yes \in Item /\ No # Yes
  BY ItemsApart
<1>2. Len(Put(s, No).q) = Len(s.q) + 1 /\ Len(Put(s, Yes).q) = Len(s.q) + 1 /\ Len(s.q) \in Nat
  BY <1>1, PutFacts
<1>3. Put(s, No).q[Len(s.q) + 1] = No /\ Put(s, Yes).q[Len(s.q) + 1] = Yes
  BY <1>1, PutFacts
<1>4. Len(Put(s, No).q) # Len(s.q) /\ Len(Put(s, Yes).q) # Len(s.q)
  BY <1>2
<1> QED
  BY <1>1, <1>3, <1>4

LEMMA AgentSendKeeps ==
    ASSUME TypeOK, Places, TypeOK', AgentSend
    PROVE  Places'
<1>1. /\ UNCHANGED <<call, caller, inHand, writeErr, answer, chan, net, netHand, netResult, total, up,
                     conn, agent, pending, diskErr, broken, dest>>
      /\ call = "read" /\ agent = "serve" /\ conn
  BY Zenon DEF AgentSend, callerVars, netVars, agentVars
<1>2. source < Chunks /\ Len(down.q) < Window /\ source' = source + 1 /\ down' = Put(down, source + 1)
  BY DEF AgentSend
<1>3. Places /\ Stages /\ ReadBelow /\ ReadAbove
  BY <1>1 DEF Places
<1>4. source + 1 \in Item
  BY <1>2, Sizes DEF Item, Items
<1>5. /\ Len(down.q) \in Nat /\ Len(down'.q) = Len(down.q) + 1 /\ down'.q[Len(down.q) + 1] = source + 1
      /\ \A i \in 1..Len(down.q) : down'.q[i] = down.q[i]
      /\ down'.fin = down.fin /\ down'.stop = down.stop
  BY <1>2, <1>4, Sizes, PutFacts
<1>6. /\ ~down.fin /\ net # "request" /\ source \in Nat /\ total \in Nat /\ Chunks \in Nat
      /\ Window \in Nat /\ Passed' = Passed /\ Passed \in Nat /\ Passed <= total + 1 /\ Len(down'.q) # 0
  <2>1. ~down.fin /\ net # "request"
    BY <1>1, <1>3 DEF Stages
  <2>2. /\ source \in Nat /\ total \in Nat /\ Chunks \in Nat /\ Window \in Nat
    BY Sizes
  <2>3. Passed' = Passed /\ Passed \in Nat /\ Passed <= total + 1
    BY <1>1, <2>2 DEF Passed, Handed
  <2>4. Len(down'.q) # 0
    BY <1>5
  <2> QED
    BY <2>1, <2>2, <2>3, <2>4
<1>s. Stages'
  BY <1>1, <1>3, <1>5 DEF Stages
<1>rb. ReadBelow'
  BY <1>1, <1>3 DEF ReadBelow
<1>ra. ReadAbove'
  <2>1. CASE net = "await"
    <3>1. /\ down.q # <<>> /\ down.q[1] = Yes /\ total = 0
          /\ \A i \in 2..Len(down.q) : down.q[i] = i - 1
          /\ source = Len(down.q) - 1
      <4>1. Yes # No
        BY ItemsApart
      <4> QED
        BY <1>1, <1>3, <2>1, <4>1 DEF ReadAbove
    <3>2. Len(down.q) >= 1
      BY <3>1, Sizes, SeqFacts
    <3>3. down'.q[1] = Yes /\ Len(down'.q) <= Chunks + 1 /\ source' = Len(down'.q) - 1
      BY <1>2, <1>5, <1>6, <3>1, <3>2
    <3>4. \A i \in 2..Len(down'.q) : down'.q[i] = i - 1
      <4> TAKE i \in 2..Len(down'.q)
      <4>1. CASE i = Len(down.q) + 1
        BY <1>5, <1>6, <3>1, <4>1
      <4>2. CASE i # Len(down.q) + 1
        <5>1. i \in 2..Len(down.q) /\ i \in 1..Len(down.q)
          BY <1>5, <4>2
        <5> QED
          BY <1>5, <3>1, <5>1
      <4> QED
        BY <4>1, <4>2
    <3>5. Len(down'.q) <= Window /\ source' <= total + 1 + Window
      BY <1>2, <1>5, <1>6, <3>1
    <3>6. down'.q # <<>>
      BY <1>6
    <3> QED
      BY <1>1, <1>3, <1>5, <1>6, <2>1, <3>1, <3>3, <3>4, <3>5, <3>6 DEF ReadAbove
  <2>2. CASE net \in {"relay", "hand"}
    <3>1. Follows(down.q, Passed) /\ Passed + Len(down.q) <= Chunks /\ source = Passed + Len(down.q)
      BY <1>1, <1>3, <2>2 DEF ReadAbove
    <3>2. Follows(down'.q, Passed)
      <4> SUFFICES ASSUME NEW i \in 1..Len(down'.q) PROVE down'.q[i] = Passed + i
        BY DEF Follows
      <4>1. CASE i = Len(down.q) + 1
        BY <1>5, <1>6, <3>1, <4>1
      <4>2. CASE i # Len(down.q) + 1
        <5>1. i \in 1..Len(down.q)
          BY <1>5, <4>2
        <5> QED
          BY <1>5, <3>1, <5>1 DEF Follows
      <4> QED
        BY <4>1, <4>2
    <3>3. /\ Passed + Len(down'.q) <= Chunks /\ source' = Passed + Len(down'.q)
          /\ Len(down'.q) <= Window /\ source' <= total + 1 + Window
      <4> DEFINE m == Len(down.q)
                 n == Len(down'.q)
                 p == Passed
      <4>1. /\ m \in Nat /\ n = m + 1 /\ source' = source + 1 /\ m < Window /\ source < Chunks
            /\ source = p + m /\ p \in Nat /\ p <= total + 1
        BY <1>2, <1>5, <1>6, <3>1
      <4>2. source \in Nat /\ total \in Nat /\ Window \in Nat /\ Chunks \in Nat
        BY <1>6
      <4> HIDE DEF m, n, p
      <4>3. p + n <= Chunks /\ source' = p + n /\ n <= Window /\ source' <= total + 1 + Window
        BY <4>1, <4>2
      <4> QED
        BY <4>3 DEF m, n, p
    <3> QED
      BY <1>1, <1>3, <1>5, <1>6, <2>2, <3>2, <3>3 DEF ReadAbove
  <2>3. CASE net = "ended"
    <3>1. source <= total + 1 + Len(down.q)
      BY <1>1, <1>3, <2>3 DEF ReadAbove
    <3>2. source' <= total + 1 + Len(down'.q) /\ Len(down'.q) <= Window /\ source' <= total + 1 + Window
      <4> DEFINE m == Len(down.q)
                 n == Len(down'.q)
      <4>1. m \in Nat /\ n = m + 1 /\ source' = source + 1 /\ m < Window /\ source <= total + 1 + m
        BY <1>2, <1>5, <3>1
      <4>2. source \in Nat /\ total \in Nat /\ Window \in Nat
        BY <1>6
      <4> HIDE DEF m, n
      <4>3. source' <= total + 1 + n /\ n <= Window /\ source' <= total + 1 + Window
        BY <4>1, <4>2
      <4> QED
        BY <4>3 DEF m, n
    <3> QED
      BY <1>1, <1>3, <1>5, <1>6, <2>3, <3>2 DEF ReadAbove
  <2> QED
    BY <1>6, <2>1, <2>2, <2>3 DEF TypeOK
<1> QED
  BY <1>1, <1>s, <1>rb, <1>ra DEF Places

LEMMA AgentSentKeeps ==
    ASSUME TypeOK, Places, TypeOK', AgentSent
    PROVE  Places'
<1>1. /\ UNCHANGED <<call, caller, inHand, writeErr, answer, chan, net, netHand, netResult, total,
                     conn, source, pending, diskErr, broken, dest>>
      /\ call = "read" /\ agent = "serve" /\ source = Chunks /\ AgentEnds(down)
  BY Zenon DEF AgentSent, callerVars, netVars
<1>2. net # "request" /\ Put(down, No) # down
  BY <1>1, Sizes, PutDiffers DEF Places, Stages
<1> QED
  BY <1>1, <1>2, AgentEndsReadKeeps

LEMMA AgentReadFailsKeeps ==
    ASSUME TypeOK, Places, TypeOK', AgentReadFails
    PROVE  Places'
<1>1. /\ UNCHANGED <<call, caller, inHand, writeErr, answer, chan, net, netHand, netResult, total,
                     conn, source, pending, diskErr, dest>>
      /\ call = "read" /\ agent = "serve" /\ broken' /\ AgentEnds(down)
  BY Zenon DEF AgentReadFails, callerVars, netVars
<1>2. net # "request" /\ Put(down, No) # down
  BY <1>1, Sizes, PutDiffers DEF Places, Stages
<1> QED
  BY <1>1, <1>2, AgentEndsReadKeeps

LEMMA AgentCutOffKeeps ==
    ASSUME TypeOK, Places, TypeOK', AgentCutOff
    PROVE  Places'
<1>1. /\ UNCHANGED <<call, caller, inHand, writeErr, answer, chan, net, netHand, netResult, total,
                     conn, source, pending, diskErr, broken, dest>>
      /\ agent = "serve" /\ AgentEnds(down)
  BY Zenon DEF AgentCutOff, callerVars, netVars
<1>2. net # "request" /\ Put(down, No) # down /\ Put(down, Yes) # down
  BY <1>1, Sizes, PutDiffers DEF Places, Stages
<1>3. call \in {"read", "write"}
  BY DirectionsAssumption DEF TypeOK
<1>4. CASE call = "read"
  <2>1. conn => net = "ended"
    BY DEF AgentCutOff, Places, Stages
  <2> QED
    BY <1>1, <1>2, <1>4, <2>1, AgentEndsReadKeeps
<1>5. CASE call = "write"
  <2>1. ~conn
    BY <1>5 DEF AgentCutOff
  <2> QED
    BY <1>1, <1>2, <1>5, <2>1, AgentEndsWriteKeeps
<1> QED
  BY <1>3, <1>4, <1>5

LEMMA AgentReceivedKeeps ==
    ASSUME TypeOK, Places, TypeOK', AgentReceived
    PROVE  Places'
<1>1. /\ UNCHANGED <<call, caller, inHand, writeErr, answer, chan, net, netHand, netResult, total,
                     conn, source, pending, diskErr, broken, dest>>
      /\ agent = "serve" /\ call = "write" /\ up.q = <<>> /\ up.fin
      /\ AgentEnds(Put(down, Yes)) \/ AgentEnds(Put(down, No))
  BY Zenon DEF AgentReceived, callerVars, netVars
<1>2. net # "request" /\ Put(down, Yes) # down
  BY <1>1, Sizes, PutDiffers DEF Places, Stages
<1>3. CASE AgentEnds(Put(down, Yes))
  BY <1>1, <1>2, <1>3, AgentEndsWriteKeeps
<1>4. CASE AgentEnds(Put(down, No))
  <2>1. Put(down, No) # down /\ Put(down, No) # Put(down, Yes)
    BY Sizes, PutDiffers
  <2> QED
    BY <1>1, <1>2, <1>4, <2>1, AgentEndsWriteKeeps
<1> QED
  BY <1>1, <1>3, <1>4

LEMMA AgentWriteKeeps ==
    ASSUME TypeOK, Places, TypeOK', AgentWrite
    PROVE  Places'
<1>1. /\ UNCHANGED <<call, caller, inHand, writeErr, answer, chan, net, netHand, netResult, total,
                     conn, source, diskErr, broken, dest>>
      /\ agent = "serve" /\ call = "write" /\ up.q # <<>> /\ pending = <<>>
  BY Zenon DEF AgentWrite, callerVars, netVars
<1>2. Stages /\ WriteBelow /\ WriteAbove /\ net # "request"
  BY <1>1 DEF Places, Stages
<1>3. CASE diskErr
  <2>1. AgentEnds(Put(down, No)) /\ pending' = pending
    BY <1>3 DEF AgentWrite
  <2>2. Put(down, No) # down /\ Put(down, No) # Put(down, Yes)
    BY Sizes, PutDiffers
  <2> QED
    BY <1>1, <1>2, <2>1, <2>2, AgentEndsWriteKeeps
<1>4. CASE ~diskErr
  <2>1. pending' = <<Head(up.q)>> /\ up' = Got(up) /\ agent' = agent /\ down' = down
    BY <1>4 DEF AgentWrite
  <2>2. /\ Len(up.q) \in Nat /\ Len(up.q) >= 1 /\ Head(up.q) = up.q[1] /\ Len(up'.q) = Len(up.q) - 1
        /\ \A i \in 1..Len(up'.q) : up'.q[i] = up.q[i + 1]
        /\ up'.fin = up.fin /\ up'.stop = up.stop
    BY <1>1, <2>1, Sizes, GotFacts
  <2>3. /\ Len(dest) \in Nat /\ Len(pending) = 0 /\ Held = Len(dest) /\ Held' = Len(dest) + 1
        /\ Len(pending') = 1 /\ pending'[1] = up.q[1]
    BY <1>1, <2>1, <2>2, Sizes DEF Held
  <2>4. Follows(up.q, Held) /\ Held + Len(up.q) <= total
    BY <1>1, <1>2, <1>4 DEF WriteBelow
  <2>5. Follows(pending', Len(dest)) /\ Follows(up'.q, Held')
    <3>1. up.q[1] = Len(dest) + 1
      BY <2>2, <2>3, <2>4 DEF Follows
    <3>2. \A i \in 1..Len(up'.q) : i + 1 \in 1..Len(up.q) /\ Held + (i + 1) = Held' + i
      BY <2>2, <2>3
    <3>3. \A i \in 1..Len(up'.q) : up'.q[i] = Held' + i
      BY <2>2, <2>4, <3>2 DEF Follows
    <3>4. \A i \in 1..Len(pending') : i = 1
      BY <2>3
    <3> QED
      BY <2>3, <3>1, <3>3, <3>4 DEF Follows
  <2>6. Held' + Len(up'.q) = Held + Len(up.q)
    <3> DEFINE m == Len(up.q)
               n == Len(up'.q)
               l == Len(dest)
    <3>1. Held = l /\ Held' = l + 1 /\ l \in Nat /\ n = m - 1 /\ m \in Nat
      BY <2>2, <2>3
    <3> HIDE DEF m, n, l
    <3>2. Held' + n = Held + m
      BY <3>1
    <3> QED
      BY <3>2 DEF m, n
  <2>7. down.q = <<>>
    BY <1>1, <1>2 DEF WriteBelow
  <2>8. netResult = "ok" => Held' = Chunks
    <3>1. netResult = "ok" => Held = Chunks /\ total <= Chunks
      BY <1>2, <1>4 DEF WriteBelow, WriteAbove
    <3> QED
      BY <2>2, <2>3, <2>4, <3>1, Sizes
  <2>s. Stages'
    BY <1>1, <1>2, <2>1, <2>2 DEF Stages
  <2>wa. WriteAbove'
    BY <1>1, <1>2 DEF WriteAbove, Passed
  <2>wb. WriteBelow'
    <3>1. Held' + Len(up'.q) <= total /\ Len(pending') <= 1 /\ Follows(pending', Len(dest'))
      <4>1. Held' + Len(up'.q) <= total
        BY <2>4, <2>6
      <4>2. Len(pending') <= 1
        BY <2>3, SizesAfter
      <4>3. Follows(pending', Len(dest'))
        BY <1>1, <2>5
      <4> QED
        BY <4>1, <4>2, <4>3
    <3>2. /\ WriteBelow /\ agent' = "serve" /\ ~diskErr' /\ down'.q = <<>> /\ Len(down'.q) <= 1
          /\ up'.fin = up.fin
      BY <1>1, <1>2, <1>4, <2>1, <2>2, <2>7 DEF WriteBelow
    <3>3. /\ conn /\ net # "ended" => Held' + Len(up'.q) = total + Handed(agent = "idle")
          /\ conn /\ up.fin /\ net = "await" => Held' + Len(up'.q) = Chunks
      BY <1>1, <1>2, <1>4, <2>6 DEF WriteBelow
    <3> QED
      BY <1>1, <2>5, <2>8, <3>1, <3>2, <3>3 DEF WriteBelow
  <2> QED
    BY <1>1, <2>s, <2>wa, <2>wb DEF Places
<1> QED
  BY <1>3, <1>4

LEMMA AgentDiskKeeps ==
    ASSUME TypeOK, Places, TypeOK', AgentDisk
    PROVE  Places'
<1>1. /\ UNCHANGED <<call, caller, inHand, writeErr, answer, chan, net, netHand, netResult, total, up,
                     down, conn, agent, source>>
      /\ pending # <<>> /\ pending' = <<>>
  BY Zenon DEF AgentDisk, callerVars, netVars
<1>2. call = "write" /\ Stages /\ WriteBelow /\ WriteAbove
  <2>1. call \in {"read", "write"}
    BY DirectionsAssumption DEF TypeOK
  <2> QED
    BY <1>1, <2>1 DEF Places, ReadBelow
<1>3. /\ ~diskErr /\ Len(pending) = 1 /\ pending[1] = Len(dest) + 1 /\ agent # "idle"
      /\ Len(dest) \in Nat /\ Follows(dest, 0)
  <2>1. Len(pending) <= 1 /\ Follows(pending, Len(dest)) /\ ~diskErr /\ agent # "idle" /\ Follows(dest, 0)
    BY <1>1, <1>2 DEF WriteBelow, Stages
  <2>2. Len(pending) = 1
    <3>1. Len(pending) \in Nat /\ (pending = <<>> <=> Len(pending) = 0)
      BY Sizes, SeqFacts
    <3>2. Len(pending) <= 1 /\ Len(pending) # 0
      BY <1>1, <2>1, <3>1
    <3> QED
      BY <3>1, <3>2
  <2> QED
    BY <2>1, <2>2, Sizes DEF Follows
<1>wa. WriteAbove'
  BY <1>1, <1>2 DEF WriteAbove, Passed
<1>4. CASE dest' = dest \o pending /\ (diskErr' <=> diskErr) /\ (broken' <=> broken)
  <2>1. Len(dest') = Len(dest) + 1 /\ Follows(dest', 0)
    <3>1. dest' = Append(dest, pending[1])
      <4>1. pending \in Seq(Items) /\ dest \in Seq(Items)
        BY Sizes
      <4>2. PICK x : x = pending[1]
        OBVIOUS
      <4>3. x \in Items /\ pending = <<x>>
        <5>1. 1 \in 1..Len(pending)
          BY <1>3
        <5>2. x \in Items
          BY <4>1, <4>2, <5>1, SeqFacts
        <5> QED
          BY <1>3, <4>1, <4>2, <5>2
      <4>4. dest \o <<x>> = Append(dest, x)
        BY <4>1, <4>3
      <4> QED
        BY <1>4, <4>2, <4>3, <4>4
    <3>2. /\ Len(dest') = Len(dest) + 1 /\ dest'[Len(dest) + 1] = Len(dest) + 1
          /\ \A i \in 1..Len(dest) : dest'[i] = dest[i]
      BY <1>3, <3>1, Sizes
    <3> QED
      BY <1>3, <3>2 DEF Follows
  <2>2. Held' = Held /\ Len(pending') = 0 /\ Follows(pending', Len(dest'))
    BY <1>1, <1>3, <2>1 DEF Held, Follows
  <2>3. diskErr' = diskErr /\ broken' = broken
    BY <1>4 DEF TypeOK
  <2>s. Stages'
    BY <1>1, <1>2, <1>3, <2>1, <2>3 DEF Stages
  <2>4. ~diskErr => total <= Len(dest') + 1 + Window
    BY <1>2, <1>3, <2>1, Sizes DEF WriteBelow
  <2>wb. WriteBelow'
    BY <1>1, <1>2, <1>3, <2>2, <2>3, <2>4 DEF WriteBelow
  <2> QED
    BY <1>1, <1>2, <1>wa, <2>s, <2>wb DEF Places
<1>5. CASE diskErr' /\ broken' /\ dest' = dest
  <2>1. diskErr' = TRUE /\ broken' = diskErr'
    BY <1>5 DEF TypeOK
  <2>2. Len(pending') = 0 /\ Follows(pending', Len(dest'))
    BY <1>1 DEF Follows
  <2>s. Stages'
    BY <1>1, <1>2, <1>3, <1>5 DEF Stages
  <2>wb. WriteBelow'
    BY <1>1, <1>2, <1>5, <2>1, <2>2 DEF WriteBelow
  <2> QED
    BY <1>1, <1>2, <1>wa, <2>s, <2>wb DEF Places
<1> QED
  BY <1>4, <1>5 DEF AgentDisk

LEMMA ConnLostKeeps ==
    ASSUME TypeOK, Places, TypeOK', ConnLost
    PROVE  Places'
<1>1. /\ UNCHANGED <<call, caller, inHand, writeErr, answer, chan, net, netHand, netResult, total,
                     agent, pending, diskErr, broken, source, dest>>
      /\ ~conn'
  BY Zenon DEF ConnLost, callerVars, netVars, agentVars
<1>2. /\ Len(up'.q) \in Nat /\ Len(up'.q) <= Len(up.q) /\ up'.stop = up.stop
      /\ \A i \in 1..Len(up'.q) : up'.q[i] = up.q[i]
      /\ up'.fin => up.fin
  BY Sizes, CutFacts, SeqFacts DEF ConnLost
<1>3. /\ Len(down'.q) \in Nat /\ Len(down'.q) <= Len(down.q) /\ down'.stop = down.stop
      /\ \A i \in 1..Len(down'.q) : down'.q[i] = down.q[i]
      /\ down'.fin => down' = down
  BY Sizes, CutFacts, SeqFacts DEF ConnLost
<1>4. /\ Len(up.q) \in Nat /\ Len(down.q) \in Nat /\ total \in Nat /\ Held \in Nat /\ Chunks \in Nat
      /\ Window \in Nat
  BY Sizes DEF Held
<1>5. /\ up'.q # <<>> <=> Len(up'.q) # 0
      /\ down'.q # <<>> <=> Len(down'.q) # 0
      /\ up.q # <<>> <=> Len(up.q) # 0
      /\ down.q # <<>> <=> Len(down.q) # 0
  <2>1. up' \in Streams /\ down' \in Streams
    BY DEF TypeOK
  <2>2. up'.q \in Seq(Item) /\ down'.q \in Seq(Item)
    BY <2>1, StreamFacts
  <2> QED
    BY <2>2, Sizes
<1>6. Places /\ Stages /\ Held' = Held /\ Passed' = Passed /\ Passed \in Nat
  BY <1>1, Sizes DEF Places, Held, Passed, Handed
<1>s. Stages'
  <2>1. net = "request" => up'.q = <<>> /\ ~up'.fin
    BY <1>2, <1>4, <1>5, <1>6 DEF Stages
  <2>2. agent = "idle" => down'.q = <<>>
    BY <1>3, <1>4, <1>5, <1>6 DEF Stages
  <2> QED
    BY <1>1, <1>2, <1>3, <1>6, <2>1, <2>2 DEF Stages
<1>rb. call = "read" => ReadBelow'
  BY <1>1, <1>6 DEF Places, ReadBelow
<1>ra. call = "read" => ReadAbove'
  <2> SUFFICES ASSUME call = "read" PROVE ReadAbove'
    OBVIOUS
  <2>1. ReadAbove
    BY DEF Places
  <2>2. ASSUME net = "await", down'.q # <<>>
        PROVE  /\ \/ Len(down'.q) = 1 /\ down'.q[1] = No
                  \/ /\ down'.q[1] = Yes
                     /\ \A i \in 2..Len(down'.q) : down'.q[i] = i - 1
                     /\ Len(down'.q) <= Chunks + 1
                     /\ down'.fin /\ ~broken => Len(down'.q) = Chunks + 1
               /\ agent = "serve" => down'.q[1] = Yes
    <3>1. Len(down'.q) >= 1 /\ down.q # <<>> /\ down'.q[1] = down.q[1]
      BY <1>3, <1>4, <1>5, <2>2
    <3>2. \A i \in 2..Len(down'.q) : i \in 2..Len(down.q) /\ i \in 1..Len(down'.q)
      BY <1>3, <1>4
    <3>3. CASE Len(down.q) = 1 /\ down.q[1] = No
      <4>1. Len(down'.q) = 1 /\ down'.q[1] = No
        <5> DEFINE m == Len(down'.q)
        <5>1. m \in Nat /\ m <= 1 /\ m >= 1
          BY <1>3, <3>1, <3>3
        <5> HIDE DEF m
        <5>2. m = 1
          BY <5>1
        <5> QED
          BY <3>1, <3>3, <5>2 DEF m
      <4>2. agent = "serve" => down.q[1] = Yes
        BY <2>1, <2>2, <3>1 DEF ReadAbove
      <4> QED
        BY <3>1, <4>1, <4>2
    <3>4. CASE /\ down.q[1] = Yes
               /\ \A i \in 2..Len(down.q) : down.q[i] = i - 1
               /\ Len(down.q) <= Chunks + 1
               /\ down.fin /\ ~broken => Len(down.q) = Chunks + 1
      <4>1. /\ down'.q[1] = Yes
            /\ \A i \in 2..Len(down'.q) : down'.q[i] = i - 1
        BY <1>3, <3>1, <3>2, <3>4
      <4>2. Len(down'.q) <= Chunks + 1
        BY <1>3, <1>4, <3>4
      <4>3. down'.fin /\ ~broken => Len(down'.q) = Chunks + 1
        BY <1>3, <3>4
      <4>4. agent = "serve" => down'.q[1] = Yes
        BY <4>1
      <4> QED
        BY <4>1, <4>2, <4>3, <4>4
    <3> QED
      BY <2>1, <2>2, <3>1, <3>3, <3>4 DEF ReadAbove
  <2>3. ASSUME net \in {"relay", "hand"}
        PROVE  /\ Follows(down'.q, Passed) /\ Passed + Len(down'.q) <= Chunks
               /\ down'.fin /\ ~broken => Passed + Len(down'.q) = Chunks
    <3>1. /\ Follows(down.q, Passed) /\ Passed + Len(down.q) <= Chunks
          /\ down.fin /\ ~broken => Passed + Len(down.q) = Chunks
      BY <2>1, <2>3 DEF ReadAbove
    <3>2. \A i \in 1..Len(down'.q) : i \in 1..Len(down.q)
      BY <1>3, <1>4
    <3>3. Follows(down'.q, Passed) /\ Passed + Len(down'.q) <= Chunks
      BY <1>3, <1>4, <1>6, <3>1, <3>2 DEF Follows
    <3> QED
      BY <1>3, <3>1, <3>3
  <2>4. agent = "serve" => Len(down'.q) <= Window
    BY <1>3, <1>4, <2>1 DEF ReadAbove
  <2> QED
    BY <1>1, <1>6, <2>1, <2>2, <2>3, <2>4 DEF ReadAbove
<1>wb. call = "write" => WriteBelow'
  <2> SUFFICES ASSUME call = "write" PROVE WriteBelow'
    OBVIOUS
  <2>1. WriteBelow
    BY DEF Places
  <2>2. ASSUME ~diskErr, agent = "idle", up'.q # <<>>
        PROVE  /\ up'.q[1] = Request /\ \A i \in 2..Len(up'.q) : up'.q[i] = i - 1
               /\ Len(up'.q) <= total + 1
    <3>1. Len(up'.q) >= 1 /\ up.q # <<>> /\ up'.q[1] = up.q[1]
      BY <1>2, <1>4, <1>5, <2>2
    <3>2. /\ up.q[1] = Request /\ \A i \in 2..Len(up.q) : up.q[i] = i - 1
          /\ Len(up.q) <= total + 1
      BY <2>1, <2>2, <3>1 DEF WriteBelow
    <3>3. \A i \in 2..Len(up'.q) : i \in 2..Len(up.q) /\ i \in 1..Len(up'.q)
      BY <1>2, <1>4
    <3> QED
      BY <1>2, <1>4, <3>1, <3>2, <3>3
  <2>3. ASSUME ~diskErr, agent = "serve"
        PROVE  Follows(up'.q, Held) /\ Held + Len(up'.q) <= total
    <3>1. Follows(up.q, Held) /\ Held + Len(up.q) <= total
      BY <2>1, <2>3 DEF WriteBelow
    <3>2. \A i \in 1..Len(up'.q) : i \in 1..Len(up.q)
      BY <1>2, <1>4
    <3>3. Held + Len(up'.q) <= total
      BY <1>2, <1>4, <3>1
    <3> QED
      BY <1>2, <3>1, <3>2, <3>3 DEF Follows
  <2>4. Len(down'.q) <= 1 /\ (agent # "ended" => down'.q = <<>>)
    BY <1>3, <1>4, <1>5, <2>1 DEF WriteBelow
  <2>5. down'.q # <<>> => down.q # <<>> /\ Head(down'.q) = Head(down.q)
    BY <1>3, <1>4, <1>5
  <2> QED
    BY <1>1, <1>2, <1>6, <2>1, <2>2, <2>3, <2>4, <2>5 DEF WriteBelow
<1>wa. call = "write" => WriteAbove'
  BY <1>1, <1>6 DEF Places, WriteAbove
<1> QED
  BY <1>1, <1>s, <1>rb, <1>ra, <1>wb, <1>wa DEF Places

LEMMA IdleTimeoutKeeps ==
    ASSUME TypeOK, Places, TypeOK', IdleTimeout
    PROVE  Places'
<1>1. UNCHANGED <<call, caller, inHand, writeErr, chan, net, netHand, netResult, total, up, down, agent, source, pending, diskErr, dest, answer, broken>>
  BY Zenon DEF IdleTimeout, callerVars, netVars, agentVars
<1>2. Places /\ Stages
  BY DEF Places
<1>s. Stages'
  BY <1>1, <1>2 DEF Places, Stages, Follows
<1>rb. call = "read" => ReadBelow'
  BY <1>1, <1>2 DEF Places, ReadBelow, Follows, Handed
<1>ra. call = "read" => ReadAbove'
  BY <1>1, <1>2, Sizes DEF IdleTimeout, Places, ReadAbove, Follows, Passed, Handed
<1>wb. call = "write" => WriteBelow'
  BY <1>1, <1>2, Sizes DEF IdleTimeout, Places, WriteBelow, Follows, Held, Handed
<1>wa. call = "write" => WriteAbove'
  BY <1>1, <1>2 DEF Places, WriteAbove, Passed, Handed
<1> QED
  BY <1>1, <1>s, <1>rb, <1>ra, <1>wb, <1>wa DEF Places

LEMMA CancelKeeps ==
    ASSUME TypeOK, Places, TypeOK', Cancel
    PROVE  Places'
<1>1. UNCHANGED <<call, caller, inHand, writeErr, chan, net, netHand, netResult, total, up, down, conn, agent, source, pending, diskErr, dest, answer, broken>>
  BY Zenon DEF Cancel, callerVars, netVars, agentVars
<1>2. Places /\ Stages
  BY DEF Places
<1>s. Stages'
  BY <1>1, <1>2 DEF Places, Stages, Follows
<1>rb. call = "read" => ReadBelow'
  BY <1>1, <1>2 DEF Places, ReadBelow, Follows, Handed
<1>ra. call = "read" => ReadAbove'
  BY <1>1, <1>2 DEF Places, ReadAbove, Follows, Passed, Handed
<1>wb. call = "write" => WriteBelow'
  BY <1>1, <1>2 DEF Places, WriteBelow, Follows, Held, Handed
<1>wa. call = "write" => WriteAbove'
  BY <1>1, <1>2 DEF Places, WriteAbove, Passed, Handed
<1> QED
  BY <1>1, <1>s, <1>rb, <1>ra, <1>wb, <1>wa DEF Places

LEMMA NextKeeps ==
    ASSUME IInv, [Next]_vars
    PROVE  IInv'
<1> USE DEF IInv
<1>t. TypeOK'
  BY NextTyped
<1>1. CASE CallerStep
  BY <1>t, <1>1, TakeChunkKeeps, WriteChunkKeeps, ChannelClosedKeeps, ReadChunkKeeps,
     SendChunkKeeps, JoinKeeps DEF CallerStep
<1>2. CASE NetStep
  BY <1>t, <1>2, NetRequestKeeps, NetStatusKeeps, NetReceiveKeeps, NetForwardKeeps,
     NetTakeKeeps, NetSendKeeps DEF NetStep
<1>3. CASE AgentStep
  BY <1>t, <1>3, AgentAcceptKeeps, AgentSendKeeps, AgentSentKeeps, AgentCutOffKeeps,
     AgentWriteKeeps, AgentReceivedKeeps DEF AgentStep
<1>4. CASE AgentReadFails \/ AgentDisk
  BY <1>t, <1>4, AgentReadFailsKeeps, AgentDiskKeeps
<1>5. CASE ConnLost \/ IdleTimeout \/ Cancel
  BY <1>t, <1>5, ConnLostKeeps, IdleTimeoutKeeps, CancelKeeps
<1>6. CASE UNCHANGED vars
  <2>1. Stages => Stages'
    BY <1>6 DEF vars, Stages, Follows
  <2>2. ReadBelow => ReadBelow'
    BY <1>6 DEF vars, ReadBelow, Follows, Handed
  <2>3. ReadAbove => ReadAbove'
    BY <1>6 DEF vars, ReadAbove, Follows, Passed, Handed
  <2>4. WriteBelow => WriteBelow'
    BY <1>6 DEF vars, WriteBelow, Follows, Held, Handed
  <2>5. WriteAbove => WriteAbove'
    BY <1>6 DEF vars, WriteAbove, Passed, Handed
  <2> QED
    BY <1>t, <1>6, <2>1, <2>2, <2>3, <2>4, <2>5 DEF vars, Places
<1> QED
  BY <1>1, <1>2, <1>3, <1>4, <1>5, <1>6 DEF Next, WriteRetries, Over

-----------------------------------------------------------------------------
(* What holds of every behaviour.                                          *)

LEMMA Invariance == Spec => []IInv
<1>1. Init => IInv
  BY InitTyped, InitPlaces DEF IInv
<1>2. IInv /\ [Next]_vars => IInv'
  BY NextKeeps
<1> QED
  BY <1>1, <1>2, PTL DEF Spec

\* Every variable keeps its type.  The chunk in hand, the status byte and the
\* error share their channels: that a reader never meets the one where it
\* expects the other needs the whole invariant.
THEOREM TypeCorrect == Spec => []TypeOK
<1>1. IInv => TypeOK
  BY DEF IInv
<1> QED
  BY <1>1, Invariance, PTL

\* Two sequences that count up to the same number are the same.
LEMMA CountsAlike ==
    ASSUME NEW s \in Seq(Items), Follows(s, 0), Len(s) = Chunks
    PROVE  s = [i \in 1..Chunks |-> i]
<1>1. Chunks \in Nat /\ DOMAIN s = 1..Chunks
  BY SizesAssumption
<1>2. \A i \in 1..Chunks : s[i] = i
  BY <1>1 DEF Follows
<1> QED
  BY <1>1, <1>2

\* What has reached the destination, the write in flight included.
Arrived == dest \o pending

\* It counts up.
Counting == Arrived \in Seq(Items) /\ Len(Arrived) = Held /\ Held \in Nat /\ Follows(Arrived, 0)

LEMMA ArrivedCounts == IInv => Counting
<1> SUFFICES ASSUME IInv PROVE Counting
  OBVIOUS
<1>1. /\ TypeOK /\ Places /\ dest \in Seq(Items) /\ pending \in Seq(Items)
      /\ Len(dest) \in Nat /\ Len(pending) \in Nat
  BY Sizes DEF IInv
<1>2. /\ Arrived \in Seq(Items) /\ Len(Arrived) = Len(dest) + Len(pending)
      /\ \A i \in 1..Len(Arrived) :
           Arrived[i] = IF i <= Len(dest) THEN dest[i] ELSE pending[i - Len(dest)]
  BY <1>1 DEF Arrived
<1>3. Follows(dest, 0) /\ Follows(pending, Len(dest))
  <2>1. call \in {"read", "write"}
    BY <1>1, DirectionsAssumption DEF TypeOK
  <2>2. CASE call = "read"
    BY <1>1, <2>2 DEF Places, Stages, ReadBelow, Follows
  <2>3. CASE call = "write"
    BY <1>1, <2>3 DEF Places, Stages, WriteBelow
  <2> QED
    BY <2>1, <2>2, <2>3
<1>4. Follows(Arrived, 0)
  <2> SUFFICES ASSUME NEW i \in 1..Len(Arrived) PROVE Arrived[i] = 0 + i
    BY DEF Follows
  <2>1. CASE i <= Len(dest)
    BY <1>1, <1>2, <1>3, <2>1 DEF Follows
  <2>2. CASE ~(i <= Len(dest))
    <3>1. i - Len(dest) \in 1..Len(pending) /\ Len(dest) + (i - Len(dest)) = i
      BY <1>1, <1>2, <2>2
    <3>2. pending[i - Len(dest)] = Len(dest) + (i - Len(dest))
      BY <1>3, <3>1 DEF Follows
    <3> QED
      BY <1>2, <2>2, <3>1, <3>2
  <2> QED
    BY <2>1, <2>2
<1> QED
  BY <1>1, <1>2, <1>4 DEF Held, Counting

\* A call that has succeeded over a sound disk has delivered every chunk.
LEMMA SuccessIsWhole ==
    ASSUME IInv, netResult = "ok", ~writeErr, caller \in {"join", "done"}, ~broken
    PROVE  Held = Chunks
<1>1. TypeOK /\ Places /\ call \in {"read", "write"}
  BY DirectionsAssumption DEF IInv, TypeOK
<1>2. CASE call = "read"
  <2>1. /\ total = Len(dest) + Handed(caller = "hand" \/ writeErr) + Len(chan)
        /\ total = Chunks /\ chan = <<>> /\ pending = <<>>
    BY <1>1, <1>2 DEF Places, ReadBelow
  <2>2. Len(chan) = 0 /\ Len(pending) = 0 /\ Handed(caller = "hand" \/ writeErr) = 0
    BY <2>1 DEF Handed
  <2> QED
    BY <1>1, <2>1, <2>2, Sizes DEF Held
<1>3. CASE call = "write"
  BY <1>1, <1>3 DEF Places, WriteBelow
<1> QED
  BY <1>1, <1>2, <1>3

\* A call that returns Ok has brought the whole file to its destination, unless
\* the agent's disk failed, and the debug_assert of read_file holds.
THEOREM OkIsWholeTheorem == Spec => []OkIsWhole
<1>1. IInv => OkIsWhole
  <2> SUFFICES ASSUME IInv PROVE OkIsWhole
    OBVIOUS
  <2>1. TypeOK /\ Places /\ Stages
    BY DEF IInv, Places
  <2>2. ASSUME answer = "ok", ~broken
        PROVE  dest \o pending = [i \in 1..Chunks |-> i]
    <3>1. netResult = "ok" /\ ~writeErr /\ caller = "done"
      BY <2>1, <2>2 DEF Stages
    <3>2. Held = Chunks
      BY <2>2, <3>1, SuccessIsWhole
    <3> QED
      BY <3>2, ArrivedCounts, CountsAlike DEF Arrived, Counting
  <2>3. ASSUME call = "read", caller = "join", netResult = "ok", ~writeErr
        PROVE  total = Len(dest)
    <3>1. /\ total = Len(dest) + Handed(caller = "hand" \/ writeErr) + Len(chan)
          /\ chan = <<>>
      BY <2>1, <2>3 DEF Places, ReadBelow
    <3>2. Len(chan) = 0 /\ Handed(caller = "hand" \/ writeErr) = 0
      BY <2>3, <3>1 DEF Handed
    <3> QED
      BY <2>1, <3>1, <3>2, Sizes
  <2> QED
    BY <2>2, <2>3 DEF OkIsWhole
<1> QED
  BY <1>1, Invariance, PTL

\* Memory use does not grow with the file: the pipeline's two windows and the
\* chunks in hand bound what is ahead of the destination.
THEOREM ReadAheadBoundedTheorem == Spec => []ReadAheadBounded
<1>1. IInv => ReadAheadBounded
  <2> SUFFICES ASSUME IInv, ~broken PROVE source - Len(dest) <= Depth + Window + 3
    BY DEF ReadAheadBounded
  <2>1. TypeOK /\ Places /\ Stages /\ call \in {"read", "write"}
    BY DirectionsAssumption DEF IInv, Places, TypeOK
  <2>2. /\ total \in Nat /\ source \in Nat /\ Len(dest) \in Nat /\ Len(chan) \in Nat
        /\ Depth \in Nat /\ Window \in Nat
    BY <2>1, Sizes
  <2>3. CASE call = "read"
    <3>1. /\ total = Len(dest) + Handed(caller = "hand" \/ writeErr) + Len(chan)
          /\ source <= total + 1 + Window /\ Len(chan) <= Depth
      BY <2>1, <2>3 DEF Places, ReadBelow, ReadAbove, Stages
    <3>2. Handed(caller = "hand" \/ writeErr) \in {0, 1}
      BY DEF Handed
    <3> QED
      BY <2>2, <3>1, <3>2
  <2>4. CASE call = "write"
    <3>1. ~diskErr
      BY <2>1, <2>4 DEF Places, WriteBelow
    <3>2. total <= Len(dest) + 1 + Window /\ source <= total + Depth + 1 + Handed(caller # "pump")
      BY <2>1, <2>4, <3>1 DEF Places, WriteBelow, WriteAbove
    <3>3. Handed(caller # "pump") \in {0, 1}
      BY DEF Handed
    <3> QED
      BY <2>2, <3>2, <3>3
  <2> QED
    BY <2>1, <2>3, <2>4
<1> QED
  BY <1>1, Invariance, PTL

-----------------------------------------------------------------------------
(* The call implements the contract of a stream.                           *)

\* A sequence that counts up is known by its length.
LEMMA CountsByLength ==
    ASSUME NEW s \in Seq(Items), NEW t \in Seq(Items), Follows(s, 0), Follows(t, 0), Len(s) = Len(t)
    PROVE  s = t
<1>1. \A i \in 1..Len(s) : s[i] = t[i]
  BY DEF Follows
<1> QED
  BY <1>1

\* The three ways in which a step changes what has arrived.
LEMMA ArrivedSteps ==
    ASSUME IInv, IInv'
    PROVE  /\ Held' = Held => Arrived' = Arrived
           /\ Held' = Held + 1 => Len(Arrived) < Chunks /\ Arrived' = Append(Arrived, Len(Arrived) + 1)
           /\ \A n \in Nat : Held' = n /\ n <= Held => Arrived' = SubSeq(Arrived, 1, n)
<1>1. Arrived \in Seq(Items) /\ Len(Arrived) = Held /\ Held \in Nat /\ Follows(Arrived, 0)
  BY ArrivedCounts DEF Counting
<1>2. Arrived' \in Seq(Items) /\ Len(Arrived') = Held' /\ Held' \in Nat /\ Follows(Arrived', 0)
  <2>1. IInv' => Counting'
    BY ArrivedCounts, PTL
  <2> QED
    BY <2>1 DEF Counting, Follows
<1>3. Held' = Held => Arrived' = Arrived
  BY <1>1, <1>2, CountsByLength
<1>4. ASSUME Held' = Held + 1
      PROVE  Len(Arrived) < Chunks /\ Arrived' = Append(Arrived, Len(Arrived) + 1)
  <2>1. Held + 1 \in 1..Len(Arrived') /\ Arrived'[Held + 1] = Held + 1
    BY <1>1, <1>2, <1>4 DEF Follows
  <2>2. Held + 1 \in Items
    BY <1>2, <2>1, SeqFacts
  <2>3. /\ Append(Arrived, Held + 1) \in Seq(Items) /\ Len(Append(Arrived, Held + 1)) = Held + 1
        /\ Append(Arrived, Held + 1)[Held + 1] = Held + 1
        /\ \A i \in 1..Held : Append(Arrived, Held + 1)[i] = Arrived[i]
    BY <1>1, <2>2, SeqFacts
  <2>4. Follows(Append(Arrived, Held + 1), 0)
    <3> SUFFICES ASSUME NEW i \in 1..Len(Append(Arrived, Held + 1))
                 PROVE  Append(Arrived, Held + 1)[i] = 0 + i
      BY DEF Follows
    <3>1. i = Held + 1 \/ i \in 1..Held
      BY <1>1, <2>3
    <3>2. ASSUME i \in 1..Held PROVE Arrived[i] = 0 + i
      BY <1>1, <3>2 DEF Follows
    <3> QED
      BY <1>1, <2>3, <3>1, <3>2
  <2>5. Arrived' = Append(Arrived, Held + 1)
    BY <1>2, <1>4, <2>3, <2>4, CountsByLength
  <2> QED
    BY <1>1, <2>2, <2>5, SizesAssumption DEF Items
<1>5. ASSUME NEW n \in Nat, Held' = n, n <= Held
      PROVE  Arrived' = SubSeq(Arrived, 1, n)
  <2>1. /\ SubSeq(Arrived, 1, n) \in Seq(Items) /\ Len(SubSeq(Arrived, 1, n)) = n
        /\ \A i \in 1..n : SubSeq(Arrived, 1, n)[i] = Arrived[i]
    BY <1>1, <1>5
  <2>2. Follows(SubSeq(Arrived, 1, n), 0)
    <3>1. \A i \in 1..n : i \in 1..Len(Arrived)
      BY <1>1, <1>5
    <3> QED
      BY <1>1, <2>1, <3>1 DEF Follows
  <2> QED
    BY <1>2, <1>5, <2>1, <2>2, CountsByLength
<1> QED
  BY <1>3, <1>4, <1>5

\* Every step of the call is a step of the contract or changes nothing of it.
LEMMA StepImplements ==
    ASSUME IInv, IInv', [Next]_vars
    PROVE  [Contract!ContractNext]_<<dest \o pending, answer, ~broken>>
<1>t. /\ TypeOK /\ Places /\ Stages /\ Held \in Nat /\ Len(Arrived) = Held
      /\ Len(dest) \in Nat /\ Len(pending) \in Nat /\ Len(<<>>) = 0
  BY ArrivedCounts, Sizes DEF IInv, Places, Counting
<1>c. call \in {"read", "write"}
  BY <1>t, DirectionsAssumption DEF TypeOK
<1> DEFINE Same == UNCHANGED <<dest, pending, answer, broken>>
<1>s. ASSUME Same
      PROVE  UNCHANGED <<dest \o pending, answer, ~broken>>
  BY <1>s
<1>d. ASSUME Held' = Held + 1, UNCHANGED <<answer, broken>>
      PROVE  Contract!ContractNext
  BY <1>d, ArrivedSteps DEF Contract!ContractNext, Contract!Deliver, Arrived
<1>b. ASSUME ~broken, broken', Held' \in {Held - 1, Held} \cap Nat, answer' = answer
      PROVE  Contract!ContractNext
  <2>1. \E n \in {Len(Arrived) - 1, Len(Arrived)} \cap Nat : Arrived' = SubSeq(Arrived, 1, n)
    <3>1. Held' \in Nat /\ Held' <= Held
      BY <1>t, <1>b
    <3>2. Arrived' = SubSeq(Arrived, 1, Held')
      BY <3>1, ArrivedSteps
    <3> QED
      BY <1>t, <1>b, <3>2
  <2>2. ~broken /\ (~broken)' = FALSE
    BY <1>b
  <2> QED
    BY <1>b, <2>1, <2>2 DEF Contract!ContractNext, Contract!Break, Arrived
<1>1. CASE WriteChunk
  <2>1. call = "read" /\ caller = "hand" /\ UNCHANGED <<pending, answer, broken>>
    BY <1>1, Zenon DEF WriteChunk, agentVars
  <2>2. CASE dest' = Append(dest, inHand)
    <3>1. Len(dest') = Len(dest) + 1
      BY <1>t, <2>2, Sizes
    <3> QED
      BY <1>t, <2>1, <3>1, <1>d DEF Held
  <2>3. CASE dest' = dest
    BY <2>1, <2>3, <1>s
  <2> QED
    BY <1>1, <2>2, <2>3 DEF WriteChunk
<1>2. CASE Join
  <2>1. UNCHANGED <<dest, pending, broken>> /\ caller = "join"
    BY <1>2, Zenon DEF Join, agentVars
  <2>2. answer = "pending"
    BY <1>t, <2>1 DEF Stages, TypeOK
  <2>3. CASE answer' = "ok"
    <3>1. netResult = "ok" /\ ~writeErr
      BY <1>2, <2>3 DEF Join
    <3>2. ~broken => Len(Arrived) = Chunks
      BY <1>t, <2>1, <3>1, SuccessIsWhole
    <3>3. dest' \o pending' = dest \o pending /\ (~broken)' = ~broken
      BY <2>1
    <3>4. Contract!Succeed
      BY <2>2, <2>3, <3>2, <3>3 DEF Contract!Succeed, Arrived
    <3> QED
      BY <3>4 DEF Contract!ContractNext
  <2>4. CASE answer' = "err"
    <3>1. dest' \o pending' = dest \o pending /\ (~broken)' = ~broken
      BY <2>1
    <3>2. Contract!Fail
      BY <2>2, <2>4, <3>1 DEF Contract!Fail
    <3> QED
      BY <3>2 DEF Contract!ContractNext
  <2> QED
    BY <1>2, <2>3, <2>4 DEF Join
<1>3. CASE AgentWrite
  <2>1. UNCHANGED <<dest, answer, broken>> /\ pending = <<>>
    BY <1>3, Zenon DEF AgentWrite, callerVars
  <2>2. CASE diskErr
    BY <1>3, <2>1, <2>2, <1>s DEF AgentWrite
  <2>3. CASE ~diskErr
    <3>1. pending' = <<Head(up.q)>>
      BY <1>3, <2>3 DEF AgentWrite
    <3>2. Len(pending') = 1 /\ Len(pending) = 0
      BY <2>1, <3>1
    <3>3. Held' = Held + 1
      BY <1>t, <2>1, <3>2 DEF Held
    <3> QED
      BY <2>1, <3>3, <1>d
  <2> QED
    BY <2>2, <2>3
<1>4. CASE AgentDisk
  <2>1. /\ answer' = answer /\ pending # <<>> /\ pending' = <<>>
        /\ \/ dest' = dest \o pending /\ broken' = broken
           \/ broken' /\ diskErr' /\ dest' = dest
    BY <1>4, Zenon DEF AgentDisk, callerVars
  <2>2. call = "write" /\ Len(pending) = 1 /\ ~broken
    <3>1. call = "write"
      BY <1>t, <1>c, <2>1 DEF Places, ReadBelow
    <3>2. Len(pending) <= 1 /\ ~diskErr /\ (broken = diskErr)
      BY <1>t, <2>1, <3>1 DEF Places, WriteBelow
    <3>3. Len(pending) # 0
      BY <1>t, <2>1, Sizes, SeqFacts
    <3>4. Len(pending) = 1
      <4> DEFINE m == Len(pending)
      <4>1. m \in Nat /\ m <= 1 /\ m # 0
        BY <1>t, <3>2, <3>3
      <4> HIDE DEF m
      <4>2. m = 1
        BY <4>1
      <4> QED
        BY <4>2 DEF m
    <3>5. ~broken
      BY <3>2
    <3> QED
      BY <3>1, <3>4, <3>5
  <2>3. CASE dest' = dest \o pending /\ broken' = broken
    <3>1. Len(dest') = Len(dest) + Len(pending)
      BY <1>t, <2>3, Sizes
    <3>2. Held' = Held
      BY <1>t, <2>1, <3>1 DEF Held
    <3>3. dest' \o pending' = dest \o pending
      BY <3>2, ArrivedSteps DEF Arrived
    <3> QED
      BY <2>1, <2>3, <3>3
  <2>4. CASE broken' /\ dest' = dest
    <3>1. Held' = Held - 1 /\ Held - 1 \in Nat
      BY <1>t, <2>1, <2>2, <2>4 DEF Held
    <3> QED
      BY <2>1, <2>2, <2>4, <3>1, <1>b
  <2> QED
    BY <2>1, <2>3, <2>4
<1>5. CASE AgentReadFails
  <2>1. UNCHANGED <<dest, pending, answer>> /\ broken' /\ call = "read" /\ agent = "serve"
    BY <1>5, Zenon DEF AgentReadFails, callerVars
  <2>2. ~broken
    BY <1>t, <2>1 DEF Places, ReadAbove
  <2>3. Held' = Held
    BY <2>1 DEF Held
  <2> QED
    BY <1>t, <2>1, <2>2, <2>3, <1>b
<1>6. CASE \/ TakeChunk \/ ChannelClosed \/ ReadChunk \/ SendChunk \/ NetStep
           \/ AgentAccept \/ AgentSend \/ AgentSent \/ AgentCutOff \/ AgentReceived
           \/ ConnLost \/ IdleTimeout \/ Cancel \/ UNCHANGED vars
  <2>1. Same
    <3>1. CASE TakeChunk \/ ChannelClosed \/ ReadChunk \/ SendChunk
      BY <3>1, Zenon DEF TakeChunk, ChannelClosed, ReadChunk, SendChunk, agentVars
    <3>2. CASE NetStep
      BY <3>2, Zenon DEF NetStep, NetRequest, NetStatus, NetReceive, NetForward, NetTake, NetSend,
                         callerVars, agentVars
    <3>3. CASE AgentAccept \/ AgentSend \/ AgentSent \/ AgentCutOff \/ AgentReceived
      BY <3>3, Zenon DEF AgentAccept, AgentSend, AgentSent, AgentCutOff, AgentReceived,
                         callerVars, agentVars
    <3>4. CASE ConnLost \/ IdleTimeout \/ Cancel \/ UNCHANGED vars
      BY <3>4, Zenon DEF ConnLost, IdleTimeout, Cancel, vars, callerVars, agentVars
    <3> QED
      BY <1>6, <3>1, <3>2, <3>3, <3>4
  <2> QED
    BY <2>1, <1>s
<1> QED
  BY <1>1, <1>2, <1>3, <1>4, <1>5, <1>6
  DEF Next, CallerStep, AgentStep, WriteRetries, Over

\* read_file and write_file keep the contract of a stream, whatever fails and
\* however the threads, the handler and the connection take their turns: the
\* destination grows in the order of the source, and Ok means all of it.
THEOREM KeepsStreamContract == Spec => ImplementsStreamContract
<1>1. Init => Contract!ContractInit
  <2> SUFFICES ASSUME Init PROVE Contract!ContractInit
    OBVIOUS
  <2>1. dest = <<>> /\ pending = <<>> /\ answer = "pending" /\ broken = FALSE
    BY Zenon DEF Init
  <2>2. dest \o pending = <<>> /\ (~broken) = TRUE
    BY <2>1
  <2> QED
    BY <2>1, <2>2 DEF Contract!ContractInit
<1>2. IInv /\ IInv' /\ [Next]_vars => [Contract!ContractNext]_<<dest \o pending, answer, ~broken>>
  BY StepImplements
<1> QED
  BY <1>1, <1>2, Invariance, PTL DEF Spec, ImplementsStreamContract, Contract!ContractSpec
=============================================================================
