----------------------------- MODULE Outpacket ------------------------------
(***************************************************************************)
(* The downstream half of one user of iodined as a state machine: the      *)
(* operations of OutpacketOps in every order an arbitrary client can       *)
(* provoke, with every acknowledgement a header can carry.                 *)
(***************************************************************************)
EXTENDS OutpacketOps

(***************************************************************************)
(* Any packet, any acknowledgement, any query to send on, in any order.    *)
(* "covered" is a ghost: the bytes of the current packet that have been    *)
(* put on the wire since it was started.                                   *)
(***************************************************************************)
VARIABLES out, fragsize, covered

vars == << out, fragsize, covered >>

\* Byte positions from .. from + len - 1 of a packet
ByteRange(from, len) == from .. (from + len - 1)

Init ==
  /\ out = EmptyOut
  /\ fragsize \in FragSizes
  /\ covered = {}

\* The ghost after a step from old to new that put bytes of mid's packet on
\* the wire: it starts afresh with every packet.
Cover(old, mid, new, bytes) ==
  (IF SamePacket(old, new) THEN covered ELSE {})
    \cup (IF SamePacket(mid, new) THEN bytes ELSE {})

\* tunnel_tun / handle_full_packet, the user having no query to answer
Accept(p) ==
  /\ out' = AcceptPacket(out, p)
  /\ covered' = Cover(out, out, out', {})
  /\ UNCHANGED fragsize

\* tunnel_tun / handle_full_packet with a query at hand: a started packet
\* goes out at once
AcceptAndSend(p) ==
  /\ ~ Sending(out)
  /\ LET started == start_new_outpacket(out, p)
         sent    == send_next_chunk(started, fragsize)
     IN  /\ out' = sent.out
         /\ covered' = Cover(out, started, out',
                             ByteRange(sent.chunk.from, sent.chunk.len))
  /\ UNCHANGED fragsize

\* The acknowledgement in the header of a ping or data query.  Any other
\* than the awaited one changes nothing, so it need not be a step.
Ack(seq, frag) ==
  /\ IsAwaitedAck(out, seq, frag)
  /\ out' = process_downstream_ack(out, seq, frag)
  /\ covered' = Cover(out, out, out', {})
  /\ UNCHANGED fragsize

\* A query is answered
Send ==
  LET sent == send_next_chunk(out, fragsize)
  IN  /\ out' = sent.out
      /\ covered' = Cover(out, DropIfResentTooOften(out), out',
                          ByteRange(sent.chunk.from, sent.chunk.len))
      /\ UNCHANGED fragsize

\* An 'N' request: the client sets another fragment size
SetFragsize(n) ==
  /\ fragsize' = n
  /\ UNCHANGED << out, covered >>

Next ==
  \/ \E p \in Packet : Accept(p) \/ AcceptAndSend(p)
  \/ \E seq \in Seqnos, frag \in FragNos : Ack(seq, frag)
  \/ Send
  \/ \E n \in FragSizes : SetFragsize(n)

Spec == Init /\ [][Next]_vars

(***************************************************************************)
(* A client that is alive polls: it sends a query at least every           *)
(* selecttimeout seconds (client_tunnel_cb), and every query but the last  *)
(* is answered by send_chunk_or_dataless.  This is WF_vars(Send), for Send *)
(* changes something exactly while a packet is being sent.                 *)
(***************************************************************************)
QueriesKeepComing == []<>(~ Sending(out)) \/ []<><< Send >>_vars

FairSpec == Spec /\ QueriesKeepComing
-----------------------------------------------------------------------------
(***************************************************************************)
(* Properties.                                                             *)
(***************************************************************************)

\* Every field holds a value of its type: in particular nexttouse is an
\* index of the ring and filled never exceeds OUTPACKETQ_LEN.
TypeOK ==
  /\ out \in OutRecord
  /\ fragsize \in FragSizes
  /\ covered \subseteq Nat

\* Packets wait in the ring only behind a packet being sent
\* (send_chunk_or_dataless and process_downstream_ack take the next one as
\* soon as they are through with one): tunnel_tun, which looks at
\* outpacket.len only, would overtake the ring otherwise.
QueueOnlyBehindPacket == out.filled > 0 => Sending(out)

\* The slots get_from_outpacketq will read hold packets: none is read that
\* save_to_outpacketq did not write.
WaitingSlotsHoldPackets ==
  \A i \in Slots : i < out.filled => out.ring[Wrap(out.use + i)] \in Packet

\* What is acknowledged so far, and what the acknowledgement of the current
\* fragment would add, was put on the wire, whatever the client acknowledged
\* and however the fragment size changed: no byte is skipped, and a packet
\* whose last fragment is acknowledged was sent completely.
NoByteSkipped ==
  Sending(out) =>
    /\ out.offset < PacketLen[out.pkt]
    /\ out.offset + out.sentlen <= PacketLen[out.pkt]
    /\ ByteRange(0, out.offset + out.sentlen) \subseteq covered

\* A fragment is resent ResendLimit times at most, and the fragment counter
\* stops at 16: the ack field of a header is four bits wide, so fragment 16
\* is never taken for fragment 0.
CountersBounded ==
  /\ out.resent <= ResendLimit + 1
  /\ out.fragment <= FragCount

\* The packets in line: the current one, then the ring in its order.
LineOf(o) ==
  IF Sending(o)
  THEN [i \in 1 .. o.filled + 1 |->
          IF i = 1 THEN o.pkt ELSE o.ring[Wrap(o.use + (i - 2))]]
  ELSE << >>

Line == LineOf(out)

Fifo == INSTANCE PacketFifo WITH Capacity <- QueueLen + 1, line <- Line

\* outpacket and outpacketq together are a bounded first-in first-out line
\* (save_to_outpacketq, get_from_outpacketq, start_new_outpacket).
ImplementsFifo == Fifo!Spec

\* As long as queries keep coming a packet leaves the line, acknowledged,
\* sent whole or given up, even one of more than 16 fragments, whose last
\* fragments can never be acknowledged.
EveryPacketLeaves ==
  []<>(~ Sending(out)) \/ []<><< ~ SamePacket(out, out') >>_out
=============================================================================
