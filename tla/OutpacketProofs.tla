-------------------------- MODULE OutpacketProofs ---------------------------
(***************************************************************************)
(* Proofs about Outpacket, for every set of packets, every queue length,   *)
(* resend limit and set of fragment sizes: its invariants, and that it     *)
(* implements PacketFifo.                                                  *)
(***************************************************************************)
EXTENDS Outpacket, OperatorProofs, SequenceTheorems

(***************************************************************************)
(* The inductive invariant.  The ghost has to hold all that the next       *)
(* acknowledgement would count as received.                                *)
(***************************************************************************)
CoveredOK ==
  Sending(out) => ByteRange(0, out.offset + out.sentlen) \subseteq covered

IInv ==
  /\ GoodOut(out)
  /\ fragsize \in FragSizes
  /\ covered \subseteq Nat
  /\ CoveredOK

LEMMA IInvImplies ==
  ASSUME IInv
  PROVE  /\ TypeOK /\ QueueOnlyBehindPacket /\ WaitingSlotsHoldPackets
         /\ NoByteSkipped /\ CountersBounded
BY DEF IInv, CoveredOK, GoodOut, RingOK, WithinPacket, CountersOK, TypeOK,
       QueueOnlyBehindPacket, WaitingSlotsHoldPackets, NoByteSkipped,
       CountersBounded

\* The ghost keeps up with a step that leaves a fresh packet, or the current
\* one with nothing more counted than was counted or sent in the step.
LEMMA CoverGrows ==
  ASSUME IInv, NEW mid, NEW from \in Nat, NEW len \in Nat, GoodOut(out'),
         covered' = Cover(out, mid, out', ByteRange(from, len)),
         \/ Unsent(out')
         \/ /\ SamePacket(out, out')
            /\ out'.offset + out'.sentlen <= out.offset + out.sentlen
         \/ /\ SamePacket(mid, out')
            /\ \/ from = 0
               \/ SamePacket(out, out') /\ from <= out.offset
            /\ from = out'.offset /\ len = out'.sentlen
  PROVE  covered' \subseteq Nat /\ CoveredOK'
<1>1. covered' \subseteq Nat
  BY DEF IInv, Cover, ByteRange
<1>2. out'.offset \in Nat /\ out'.sentlen \in Nat
  BY DEF GoodOut, OutRecord
<1>a. out.offset \in Nat /\ out.sentlen \in Nat
  BY DEF IInv, GoodOut, OutRecord
<1>3. CASE Unsent(out')
  <2>1. ByteRange(0, 0) = {}
    BY DEF ByteRange
  <2>2. Sending(out') => out'.offset + out'.sentlen = 0
    BY <1>3 DEF Unsent
  <2>3. CoveredOK'
    BY <2>1, <2>2 DEF CoveredOK
  <2> QED BY <1>1, <2>3
<1>4. ASSUME NEW b \in ByteRange(0, out'.offset + out'.sentlen), Sending(out'),
             ~ Unsent(out')
      PROVE  b \in covered'
  <2>1. CASE /\ SamePacket(out, out')
             /\ out'.offset + out'.sentlen <= out.offset + out.sentlen
    <3>1. b \in ByteRange(0, out.offset + out.sentlen)
      BY <1>2, <1>4, <1>a, <2>1 DEF ByteRange
    <3> QED BY <2>1, <3>1 DEF IInv, CoveredOK, SamePacket, Cover
  <2>2. CASE /\ SamePacket(mid, out')
             /\ \/ from = 0
                \/ SamePacket(out, out') /\ from <= out.offset
             /\ from = out'.offset /\ len = out'.sentlen
    <3>1. CASE b \in ByteRange(from, len)
      BY <2>2, <3>1 DEF Cover
    <3>2. CASE b \notin ByteRange(from, len)
      <4>1. b \in Nat /\ b < from /\ from # 0
        <5>1. b \in Nat /\ b < from + len
          BY <1>2, <1>4, <2>2 DEF ByteRange
        <5>2. ~ (from <= b)
          BY <3>2, <5>1 DEF ByteRange
        <5> QED BY <5>1, <5>2
      <4>2. b \in ByteRange(0, out.offset + out.sentlen)
        BY <2>2, <4>1, <1>a DEF ByteRange
      <4> QED BY <2>2, <4>1, <4>2 DEF IInv, CoveredOK, SamePacket, Cover
    <3> QED BY <3>1, <3>2
  <2> QED BY <1>4, <2>1, <2>2
<1> QED BY <1>1, <1>3, <1>4 DEF CoveredOK

\* Every step preserves the invariant.
LEMMA StepInductive == IInv /\ [Next]_vars => IInv'
<1> SUFFICES ASSUME IInv, [Next]_vars PROVE IInv'
  OBVIOUS
<1>1. ASSUME NEW p \in Packet, Accept(p) PROVE IInv'
  <2>1. CASE Sending(out)
    <3>1. out' = save_to_outpacketq(out, p)
      BY <1>1, <2>1 DEF Accept, AcceptPacket
    <3>2. /\ GoodOut(out') /\ SamePacket(out, out')
          /\ out'.offset = out.offset /\ out'.sentlen = out.sentlen
      BY <2>1, <3>1, SaveGood DEF IInv
    <3>3. covered' = covered
      BY <1>1, <3>2 DEF Accept, Cover
    <3> QED BY <1>1, <3>2, <3>3 DEF IInv, CoveredOK, SamePacket, Accept
  <2>2. CASE ~ Sending(out)
    <3>1. out' = start_new_outpacket(out, p)
      BY <1>1, <2>2 DEF Accept, AcceptPacket
    <3>2. GoodOut(out') /\ Unsent(out')
      BY <3>1, StartGood DEF IInv, GoodOut
    <3>3. covered' = {}
      BY <1>1, <2>2 DEF Accept, Cover, SamePacket
    <3> QED BY <1>1, <3>2, <3>3 DEF IInv, CoveredOK, Unsent, ByteRange, Accept
  <2> QED BY <2>1, <2>2
<1>2. ASSUME NEW p \in Packet, AcceptAndSend(p) PROVE IInv'
  <2> DEFINE started == start_new_outpacket(out, p)
             sent == send_next_chunk(started, fragsize)
  <2>1. /\ out' = sent.out /\ ~ Sending(out) /\ UNCHANGED fragsize
        /\ covered' = Cover(out, started, out',
                            ByteRange(sent.chunk.from, sent.chunk.len))
    BY <1>2 DEF AcceptAndSend
  <2>2. GoodOut(started) /\ Sending(started) /\ Unsent(started)
    BY StartGood DEF IInv, GoodOut
  <2>3. DropIfResentTooOften(started) = started
    BY <2>2, LimitAssumption DEF DropIfResentTooOften, Unsent
  <2> HIDE DEF started, sent
  <2>4. /\ GoodOut(sent.out)
        /\ sent.chunk.len \in Nat /\ sent.chunk.from \in Nat
        /\ \/ Unsent(sent.out)
           \/ /\ SamePacket(started, sent.out)
              /\ started.offset = sent.out.offset
              /\ sent.chunk.from = sent.out.offset
              /\ sent.chunk.len = sent.out.sentlen
    BY <2>2, <2>3, SendGood DEF IInv, sent
  <2>5. started.offset = 0
    BY <2>2 DEF Unsent
  <2>6. covered' \subseteq Nat /\ CoveredOK'
    BY <2>1, <2>4, <2>5, CoverGrows
  <2> QED BY <2>1, <2>4, <2>6 DEF IInv
<1>3. ASSUME NEW seq \in Seqnos, NEW frag \in FragNos, Ack(seq, frag)
      PROVE IInv'
  <2>1. /\ out' = process_downstream_ack(out, seq, frag)
        /\ IsAwaitedAck(out, seq, frag) /\ UNCHANGED fragsize
        /\ covered' = Cover(out, out, out', {})
    BY <1>3 DEF Ack
  <2>2. /\ GoodOut(out')
        /\ \/ Unsent(out')
           \/ /\ SamePacket(out, out')
              /\ out'.offset + out'.sentlen = out.offset + out.sentlen
    BY <2>1, AckGood DEF IInv
  <2>3. {} = ByteRange(0, 0)
    BY DEF ByteRange
  <2>4. out.offset + out.sentlen \in Nat
    BY DEF IInv, GoodOut, OutRecord
  <2>5. covered' \subseteq Nat /\ CoveredOK'
    BY <2>1, <2>2, <2>3, <2>4, CoverGrows
  <2> QED BY <2>1, <2>2, <2>5 DEF IInv
<1>4. ASSUME Send PROVE IInv'
  <2> DEFINE ready == DropIfResentTooOften(out)
             sent  == send_next_chunk(out, fragsize)
  <2>1. /\ out' = sent.out /\ UNCHANGED fragsize
        /\ covered' = Cover(out, ready, out',
                            ByteRange(sent.chunk.from, sent.chunk.len))
    BY <1>4 DEF Send
  <2>2. ready = out \/ Unsent(ready)
    BY DropGood DEF IInv
  <2>3. /\ GoodOut(sent.out)
        /\ sent.chunk.len \in Nat /\ sent.chunk.from \in Nat
        /\ \/ Unsent(sent.out)
           \/ /\ SamePacket(ready, sent.out)
              /\ ready.offset = sent.out.offset
              /\ sent.chunk.from = sent.out.offset
              /\ sent.chunk.len = sent.out.sentlen
    BY SendGood DEF IInv
  <2> HIDE DEF ready, sent
  <2>4. Unsent(ready) /\ SamePacket(ready, sent.out) => ready.offset = 0
    BY DEF Unsent, SamePacket
  <2>5. covered' \subseteq Nat /\ CoveredOK'
    BY <2>1, <2>2, <2>3, <2>4, CoverGrows DEF IInv, GoodOut, OutRecord
  <2> QED BY <2>1, <2>3, <2>5 DEF IInv
<1>5. ASSUME NEW n \in FragSizes, SetFragsize(n) PROVE IInv'
  BY <1>5 DEF SetFragsize, IInv, CoveredOK
<1>6. CASE UNCHANGED vars
  BY <1>6 DEF vars, IInv, CoveredOK
<1> QED BY <1>1, <1>2, <1>3, <1>4, <1>5, <1>6 DEF Next

LEMMA InitInductive == Init => IInv
BY EmptyGood DEF Init, IInv, CoveredOK, EmptyOut, Sending

LEMMA Inductive == Spec => []IInv
BY InitInductive, StepInductive, PTL DEF Spec

-----------------------------------------------------------------------------
\* Every field keeps its type: nexttouse stays an index of the ring and
\* filled within OUTPACKETQ_LEN, whatever tunnel_tun, the acknowledgements and
\* the queries do.
THEOREM TypeCorrect == Spec => []TypeOK
BY Inductive, IInvImplies, PTL

\* outpacketq holds packets only while outpacket does, and the slots about to
\* be read were written.
THEOREM QueueCorrect ==
  Spec => [](QueueOnlyBehindPacket /\ WaitingSlotsHoldPackets)
BY Inductive, IInvImplies, PTL

\* No acknowledgement a client can send makes process_downstream_ack skip a
\* byte that send_chunk_or_dataless did not put on the wire.
THEOREM NoByteIsSkipped == Spec => []NoByteSkipped
BY Inductive, IInvImplies, PTL

\* outfragresent and the fragment counter stay in their bounds, so that the
\* four-bit fragment field is never ambiguous.
THEOREM CountersStayBounded == Spec => []CountersBounded
BY Inductive, IInvImplies, PTL

-----------------------------------------------------------------------------
(***************************************************************************)
(* The refinement of PacketFifo, with Line as its line.                    *)
(***************************************************************************)
\* The line of a good record is a sequence of packets.
LEMMA LineType ==
  ASSUME NEW o, GoodOut(o)
  PROVE  /\ LineOf(o) \in Seq(Packet)
         /\ Len(LineOf(o)) = IF Sending(o) THEN o.filled + 1 ELSE 0
         /\ \A i \in 1 .. Len(LineOf(o)) :
              LineOf(o)[i] = IF i = 1 THEN o.pkt
                                      ELSE o.ring[Wrap(o.use + (i - 2))]
<1>1. CASE ~ Sending(o)
  BY <1>1 DEF LineOf
<1>2. CASE Sending(o)
  <2>1. o.filled + 1 \in Nat
    BY LimitAssumption DEF GoodOut, OutRecord
  <2>2. ASSUME NEW i \in 1 .. o.filled + 1, i # 1
        PROVE  o.ring[Wrap(o.use + (i - 2))] \in Packet
    <3>1. i - 2 \in Slots /\ i - 2 < o.filled
      BY <2>2, LimitAssumption DEF GoodOut, OutRecord, Slots
    <3> QED BY <3>1 DEF GoodOut, RingOK
  <2>3. o.pkt \in Packet
    BY <1>2 DEF GoodOut, OutRecord, Sending
  <2>4. LineOf(o) = [i \in 1 .. o.filled + 1 |->
                       IF i = 1 THEN o.pkt
                                ELSE o.ring[Wrap(o.use + (i - 2))]]
    BY <1>2 DEF LineOf
  <2>5. LineOf(o) \in [1 .. o.filled + 1 -> Packet]
    BY <2>2, <2>3, <2>4
  <2>6. LineOf(o) \in Seq(Packet) /\ Len(LineOf(o)) = o.filled + 1
    BY <2>1, <2>5
  <2> QED BY <1>2, <2>4, <2>6
<1> QED BY <1>1, <1>2

\* Lines of two records that agree on the packet and the ring are the same.
LEMMA SameLine ==
  ASSUME NEW o, NEW n, n.pkt = o.pkt, n.ring = o.ring, n.use = o.use,
         n.filled = o.filled
  PROVE  LineOf(n) = LineOf(o)
BY DEF LineOf, Sending

\* get_from_outpacketq after the current packet is forgotten: the line loses
\* its head.
LEMMA NextFromQueueLine ==
  ASSUME NEW o, GoodOut(o), Sending(o)
  PROVE  LineOf(get_from_outpacketq(ForgetPacket(o))) = Tail(LineOf(o))
<1> DEFINE f   == ForgetPacket(o)
           new == get_from_outpacketq(f)
<1>1. /\ f.filled = o.filled /\ f.use = o.use /\ f.ring = o.ring
      /\ f.pkt = NoPacket
  BY DEF GoodOut, OutRecord, ForgetPacket
<1>2. GoodOut(new)
  BY NextFromQueueGood
<1>3. /\ LineOf(o) \in Seq(Packet) /\ Len(LineOf(o)) = o.filled + 1
      /\ o.filled \in 0 .. QueueLen
  BY LineType DEF GoodOut, OutRecord
<1>4. /\ LineOf(o) # << >>
      /\ Tail(LineOf(o)) \in Seq(Packet)
      /\ Len(Tail(LineOf(o))) = o.filled
      /\ \A i \in 1 .. o.filled : Tail(LineOf(o))[i] = LineOf(o)[i + 1]
  BY <1>3, HeadTailProperties, LimitAssumption
<1>5. CASE o.filled = 0
  <2>1. LineOf(new) = << >>
    BY <1>1, <1>5 DEF get_from_outpacketq, LineOf, Sending
  <2> QED BY <1>4, <1>5, <2>1, SeqEqual, EmptySeq
<1>6. CASE o.filled # 0
  <2> DEFINE s == start_new_outpacket(f, o.ring[o.use])
  <2>1. /\ s.pkt = o.ring[o.use] /\ s.ring = o.ring
        /\ DOMAIN s = DOMAIN o
    BY <1>1 DEF start_new_outpacket, ForgetPacket, GoodOut, OutRecord
  <2>2. new = [s EXCEPT !.use = Wrap(o.use + 1), !.filled = o.filled - 1]
    BY <1>1, <1>6 DEF get_from_outpacketq
  <2> HIDE DEF s
  <2>3. /\ new.pkt = o.ring[o.use] /\ new.ring = o.ring
        /\ new.use = Wrap(o.use + 1) /\ new.filled = o.filled - 1
    BY <2>1, <2>2 DEF GoodOut, OutRecord
  <2> HIDE DEF new
  <2>4. Sending(new)
    <3>1. 0 \in Slots /\ 0 < o.filled /\ Wrap(o.use + 0) = o.use
      BY <1>6, <1>3, LimitAssumption DEF GoodOut, OutRecord, Slots, Wrap
    <3> QED BY <2>3, <3>1, PacketAssumption DEF GoodOut, RingOK, Sending
  <2>5. /\ LineOf(new) \in Seq(Packet) /\ Len(LineOf(new)) = o.filled
        /\ \A i \in 1 .. o.filled :
             LineOf(new)[i] =
               IF i = 1 THEN o.ring[o.use]
               ELSE o.ring[Wrap(Wrap(o.use + 1) + (i - 2))]
    <3>1. /\ LineOf(new) \in Seq(Packet)
          /\ Len(LineOf(new)) = new.filled + 1
          /\ \A i \in 1 .. Len(LineOf(new)) :
               LineOf(new)[i] = IF i = 1 THEN new.pkt
                                ELSE new.ring[Wrap(new.use + (i - 2))]
      BY <1>2, <2>4, LineType DEF new
    <3>2. Len(LineOf(new)) = o.filled
      BY <1>3, <2>3, <3>1
    <3> QED BY <2>3, <3>1, <3>2
  <2>6. ASSUME NEW i \in 1 .. o.filled
        PROVE  LineOf(new)[i] = Tail(LineOf(o))[i]
    <3>1. LineOf(o)[i + 1] = o.ring[Wrap(o.use + (i - 1))]
      BY <1>3, LineType, LimitAssumption
    <3>2. CASE i = 1
      BY <1>3, <1>4, <2>5, <3>1, <3>2, LimitAssumption
      DEF Wrap, GoodOut, OutRecord, Slots
    <3>3. CASE i # 1
      <4>1. Wrap(Wrap(o.use + 1) + (i - 2)) = Wrap(o.use + (i - 1))
        <5>1. o.use \in 0 .. QueueLen - 1
          BY DEF GoodOut, OutRecord, Slots
        <5>2. o.filled \in 0 .. QueueLen /\ QueueLen \in Nat \ {0}
          BY <1>3, LimitAssumption
        <5>3. i \in Int /\ 2 <= i /\ i <= o.filled
          BY <3>3, <5>2
        <5>4. CASE o.use + 1 >= QueueLen
          <6>1. Wrap(o.use + 1) = 0 /\ o.use + 1 = QueueLen
            BY <5>1, <5>2, <5>4 DEF Wrap
          <6> QED BY <5>1, <5>2, <5>3, <6>1 DEF Wrap
        <5>5. CASE o.use + 1 < QueueLen
          <6>1. Wrap(o.use + 1) = o.use + 1
            BY <5>1, <5>2, <5>5 DEF Wrap
          <6>2. o.use + 1 + (i - 2) = o.use + (i - 1)
            BY <5>1, <5>3
          <6> QED BY <6>1, <6>2
        <5> QED BY <5>1, <5>2, <5>4, <5>5
      <4> QED BY <1>4, <2>5, <3>1, <3>3, <4>1
    <3> QED BY <3>2, <3>3
  <2>7. LineOf(new) = Tail(LineOf(o))
    BY <1>4, <2>5, <2>6, SeqEqual
  <2> QED BY <2>7 DEF new
<1> QED BY <1>5, <1>6

\* A packet accepted joins the end of the line, or the line is full.
LEMMA AcceptLine ==
  ASSUME NEW o, GoodOut(o), NEW p \in Packet
  PROVE  LET new == AcceptPacket(o, p)
         IN  \/ LineOf(new) = LineOf(o)
             \/ /\ Len(LineOf(o)) < QueueLen + 1
                /\ LineOf(new) = Append(LineOf(o), p)
<1> DEFINE new == AcceptPacket(o, p)
<1>1. o.filled \in 0 .. QueueLen /\ o.use \in Slots
  BY DEF GoodOut, OutRecord
<1>2. CASE ~ Sending(o)
  <2>1. LineOf(o) = << >> /\ o.filled = 0
    BY <1>1, <1>2, LimitAssumption DEF LineOf, GoodOut
  <2>2. new = start_new_outpacket(o, p)
    BY <1>2 DEF AcceptPacket
  <2>a. GoodOut(new) /\ Sending(new)
    BY <2>2, StartGood DEF GoodOut
  <2>3. new.pkt = p /\ new.filled = 0
    BY <2>1, <2>2 DEF GoodOut, OutRecord, start_new_outpacket
  <2> HIDE DEF new
  <2>4. /\ LineOf(new) \in Seq(Packet) /\ Len(LineOf(new)) = 1
        /\ LineOf(new)[1] = p
    BY <2>a, <2>3, LineType, 0 + 1 = 1, 1 \in 1 .. 1
  <2>5. LineOf(new) = << p >>
    BY <2>4, SeqEqual
  <2> QED BY <2>1, <2>5, LimitAssumption DEF new
<1>3. CASE Sending(o) /\ o.filled >= QueueLen
  BY <1>3 DEF AcceptPacket, save_to_outpacketq
<1>4. CASE Sending(o) /\ o.filled < QueueLen
  <2> DEFINE last == Wrap(o.use + o.filled)
             ring == [o.ring EXCEPT ![last] = p]
  <2>1. new = [o EXCEPT !.ring = ring, !.filled = o.filled + 1]
    BY <1>1, <1>4, LimitAssumption DEF AcceptPacket, save_to_outpacketq
  <2>2. last \in Slots
    BY <1>1, <1>4, WrapInSlots, LimitAssumption DEF Slots
  <2>3. GoodOut(new) /\ Sending(new)
    BY <1>4, SaveGood DEF AcceptPacket, SamePacket
  <2> HIDE DEF new, ring
  <2>4. /\ new.pkt = o.pkt /\ new.ring = ring /\ new.use = o.use
        /\ new.filled = o.filled + 1
    BY <2>1 DEF GoodOut, OutRecord
  <2>5. /\ LineOf(o) \in Seq(Packet) /\ Len(LineOf(o)) = o.filled + 1
        /\ LineOf(new) \in Seq(Packet) /\ Len(LineOf(new)) = o.filled + 2
    BY <1>1, <1>4, <2>3, <2>4, LineType, LimitAssumption
  <2>6. ASSUME NEW i \in 1 .. o.filled + 2
        PROVE  LineOf(new)[i] = Append(LineOf(o), p)[i]
    <3>1. LineOf(new)[i] = IF i = 1 THEN o.pkt
                           ELSE ring[Wrap(o.use + (i - 2))]
      BY <2>3, <2>4, <2>5, LineType
    <3>2. CASE i = o.filled + 2
      <4>1. LineOf(new)[i] = ring[last]
        BY <1>1, <3>1, <3>2, LimitAssumption
      <4>2. ring[last] = p
        BY <2>2 DEF ring, GoodOut, OutRecord
      <4>3. Append(LineOf(o), p)[i] = p
        BY <1>1, <2>5, <3>2, LimitAssumption
      <4> QED BY <4>1, <4>2, <4>3
    <3>3. CASE i # o.filled + 2
      <4>1. i \in 1 .. Len(LineOf(o))
        BY <1>1, <2>5, <3>3, LimitAssumption
      <4>2. Append(LineOf(o), p)[i] = LineOf(o)[i]
        BY <2>5, <4>1
      <4>3. LineOf(o)[i] = IF i = 1 THEN o.pkt
                           ELSE o.ring[Wrap(o.use + (i - 2))]
        BY <4>1, LineType
      <4>4. i # 1 => /\ Wrap(o.use + (i - 2)) \in Slots
                     /\ Wrap(o.use + (i - 2)) # last
        BY <1>1, <1>4, <3>3, LimitAssumption DEF Wrap, Slots
      <4>5. i # 1 => ring[Wrap(o.use + (i - 2))] = o.ring[Wrap(o.use + (i - 2))]
        BY <2>2, <4>4 DEF ring, GoodOut, OutRecord
      <4> QED BY <3>1, <4>2, <4>3, <4>5
    <3> QED BY <3>2, <3>3
  <2>7. /\ Append(LineOf(o), p) \in Seq(Packet)
        /\ Len(Append(LineOf(o), p)) = o.filled + 2
    BY <1>1, <2>5, LimitAssumption
  <2>8. LineOf(new) = Append(LineOf(o), p)
    BY <2>5, <2>6, <2>7, SeqEqual
  <2> QED BY <1>1, <1>4, <2>5, <2>8, LimitAssumption DEF new
<1> QED BY <1>1, <1>2, <1>3, <1>4, LimitAssumption

\* The line after n heads are gone
Dropped(new, old) ==
  \/ new = old
  \/ old # << >> /\ new = Tail(old)

LEMMA DropLine ==
  ASSUME NEW o, GoodOut(o)
  PROVE  Dropped(LineOf(DropIfResentTooOften(o)), LineOf(o))
<1>1. CASE Sending(o) /\ o.resent > ResendLimit
  <2>1. LineOf(DropIfResentTooOften(o)) = Tail(LineOf(o))
    BY <1>1, NextFromQueueLine DEF DropIfResentTooOften
  <2>2. Len(LineOf(o)) # 0
    BY <1>1, LineType, LimitAssumption DEF GoodOut, OutRecord
  <2> QED BY <2>1, <2>2 DEF Dropped
<1>2. CASE ~ (Sending(o) /\ o.resent > ResendLimit)
  BY <1>2 DEF DropIfResentTooOften, Dropped
<1> QED BY <1>1, <1>2

\* Sending the chunk of a record that may still send.
LEMMA CutAndSendLine ==
  ASSUME NEW o, GoodOut(o), Sending(o) => o.resent <= ResendLimit,
         NEW n \in FragSizes
  PROVE  Dropped(LineOf(AfterSend(CutChunk(o, n))), LineOf(o))
<1> DEFINE cut == CutChunk(o, n)
<1>1. CASE ~ Sending(o)
  BY <1>1 DEF CutChunk, AfterSend, WentOutWhole, Dropped
<1>2. CASE Sending(o)
  <2>1. GoodOut(cut) /\ Sending(cut)
    BY <1>2, CutGood DEF SamePacket
  <2>2. /\ cut.pkt = o.pkt /\ cut.ring = o.ring /\ cut.use = o.use
        /\ cut.filled = o.filled
    BY <1>2 DEF CutChunk, GoodOut, OutRecord
  <2> HIDE DEF cut
  <2>3. LineOf(cut) = LineOf(o)
    BY <2>2, SameLine
  <2>4. Len(LineOf(o)) # 0
    BY <1>2, LineType, LimitAssumption DEF GoodOut, OutRecord
  <2>5. CASE WentOutWhole(cut)
    <3>1. LineOf(AfterSend(cut)) = Tail(LineOf(o))
      BY <2>1, <2>3, <2>5, NextFromQueueLine DEF AfterSend
    <3> QED BY <2>4, <3>1 DEF Dropped, cut
  <2>6. CASE ~ WentOutWhole(cut)
    BY <2>3, <2>6 DEF AfterSend, Dropped, cut
  <2> QED BY <2>5, <2>6
<1> QED BY <1>1, <1>2

-----------------------------------------------------------------------------
LEMMA InitRefines == Init => Fifo!Init
BY DEF Init, EmptyOut, Fifo!Init, Line, LineOf, Sending

\* A line that lost up to two heads is a stutter or a Retire step.
LEMMA DroppedTwice ==
  ASSUME NEW a \in Seq(Packet), NEW b, NEW c, Dropped(b, a), Dropped(c, b)
  PROVE  c = a \/ \E k \in 1 .. Len(a) : c = SubSeq(a, k + 1, Len(a))
<1>1. CASE b = a
  <2>1. CASE c = b
    BY <1>1, <2>1
  <2>2. CASE b # << >> /\ c = Tail(b)
    <3>1. c = SubSeq(a, 1 + 1, Len(a)) /\ 1 \in 1 .. Len(a)
      BY <1>1, <2>2, TailIsSubSeq, EmptySeq
    <3> QED BY <3>1
  <2> QED BY <2>1, <2>2 DEF Dropped
<1>2. CASE a # << >> /\ b = Tail(a)
  <2>1. b = SubSeq(a, 1 + 1, Len(a)) /\ 1 \in 1 .. Len(a)
    BY <1>2, TailIsSubSeq, EmptySeq
  <2>2. CASE c = b
    BY <2>1, <2>2
  <2>3. CASE b # << >> /\ c = Tail(b)
    <3>1. b \in Seq(Packet) /\ Len(b) = Len(a) - 1 /\ Len(b) \in Nat \ {0}
      BY <1>2, <2>3, HeadTailProperties, EmptySeq
    <3>2. 2 \in 1 .. Len(a) /\ Len(a) \in Nat
      BY <3>1
    <3>3. Tail(SubSeq(a, 2, Len(a))) = SubSeq(a, 2 + 1, Len(a))
      BY <3>2, HeadTailOfSubSeq
    <3> QED BY <2>1, <2>3, <3>2, <3>3
  <2> QED BY <2>2, <2>3 DEF Dropped
<1> QED BY <1>1, <1>2 DEF Dropped

\* Every step is a step of the line or leaves it alone.
LEMMA StepRefines == IInv /\ [Next]_vars => [Fifo!Next]_Line
<1> SUFFICES ASSUME IInv, [Next]_vars PROVE Fifo!Next \/ Line' = Line
  BY DEF Line
<1>0. GoodOut(out) /\ fragsize \in FragSizes /\ Line \in Seq(Packet)
  BY LineType DEF IInv, Line
<1>1. ASSUME NEW p \in Packet, Accept(p) PROVE Fifo!Next \/ Line' = Line
  BY <1>0, <1>1, AcceptLine DEF Accept, Line, Fifo!Next, Fifo!Offer
<1>2. ASSUME NEW p \in Packet, AcceptAndSend(p)
      PROVE  Fifo!Next \/ Line' = Line
  <2> DEFINE started == start_new_outpacket(out, p)
             cut == CutChunk(started, fragsize)
  <2>1. AcceptPacket(out, p) = started /\ ~ Sending(out)
    BY <1>2 DEF AcceptAndSend, AcceptPacket
  <2>2. GoodOut(started) /\ Sending(started) /\ Unsent(started)
    BY <1>0, StartGood DEF GoodOut
  <2>3. DropIfResentTooOften(started) = started
    BY <2>2, LimitAssumption DEF DropIfResentTooOften, Unsent
  <2>4. out' = AfterSend(cut)
    BY <1>2, <2>3 DEF AcceptAndSend, send_next_chunk
  <2>5. \/ LineOf(started) = Line
        \/ Len(Line) < QueueLen + 1 /\ LineOf(started) = Append(Line, p)
    BY <1>0, <2>1, AcceptLine DEF Line
  <2>6. Line = << >>
    BY <2>1 DEF Line, LineOf
  <2>7. Dropped(Line', LineOf(started))
    BY <1>0, <2>2, <2>4, CutAndSendLine, LimitAssumption DEF Unsent, Line
  <2> HIDE DEF started, cut
  <2>8. CASE Line' = LineOf(started)
    BY <2>5, <2>8 DEF Fifo!Next, Fifo!Offer
  <2>9. CASE LineOf(started) # << >> /\ Line' = Tail(LineOf(started))
    <3>1. LineOf(started) = << p >>
      BY <2>5, <2>6, <2>9
    <3>2. Tail(<< p >>) = << >>
      OBVIOUS
    <3> QED BY <2>6, <2>9, <3>1, <3>2
  <2> QED BY <2>7, <2>8, <2>9 DEF Dropped
<1>3. ASSUME NEW seq \in Seqnos, NEW frag \in FragNos, Ack(seq, frag)
      PROVE  Fifo!Next \/ Line' = Line
  <2>1. out' = process_downstream_ack(out, seq, frag) /\ Sending(out)
    BY <1>3 DEF Ack, IsAwaitedAck
  <2>2. CASE out.offset + out.sentlen >= PacketLen[out.pkt]
    <3>1. Line' = Tail(Line)
      BY <1>0, <1>3, <2>1, <2>2, NextFromQueueLine
      DEF Ack, process_downstream_ack, Line
    <3>2. Len(Line) # 0
      BY <1>0, <2>1, LineType, LimitAssumption DEF Line, GoodOut, OutRecord
    <3>3. Line' = SubSeq(Line, 1 + 1, Len(Line)) /\ 1 \in 1 .. Len(Line)
      BY <1>0, <3>1, <3>2, TailIsSubSeq, EmptySeq
    <3> QED BY <3>3 DEF Fifo!Next, Fifo!Retire
  <2>3. CASE ~ (out.offset + out.sentlen >= PacketLen[out.pkt])
    <3>1. /\ out'.pkt = out.pkt /\ out'.ring = out.ring
          /\ out'.use = out.use /\ out'.filled = out.filled
      BY <1>0, <1>3, <2>1, <2>3
      DEF Ack, process_downstream_ack, GoodOut, OutRecord
    <3> QED BY <3>1, SameLine DEF Line
  <2> QED BY <2>2, <2>3
<1>4. ASSUME Send PROVE Fifo!Next \/ Line' = Line
  <2> DEFINE ready == DropIfResentTooOften(out)
  <2>1. /\ GoodOut(ready)
        /\ Sending(ready) => ready.resent <= ResendLimit
    BY <1>0, DropGood
  <2>2. out' = AfterSend(CutChunk(ready, fragsize))
    BY <1>4 DEF Send, send_next_chunk
  <2>3. Dropped(LineOf(ready), Line)
    BY <1>0, DropLine DEF Line
  <2> HIDE DEF ready
  <2>4. Dropped(Line', LineOf(ready))
    BY <1>0, <2>1, <2>2, CutAndSendLine DEF Line
  <2> QED BY <1>0, <2>3, <2>4, DroppedTwice DEF Fifo!Next, Fifo!Retire
<1>5. ASSUME NEW n \in FragSizes, SetFragsize(n)
      PROVE  Fifo!Next \/ Line' = Line
  BY <1>5 DEF SetFragsize, Line
<1>6. CASE UNCHANGED vars
  BY <1>6 DEF vars, Line
<1> QED BY <1>1, <1>2, <1>3, <1>4, <1>5, <1>6 DEF Next

\* outpacket and outpacketq of a user, with all that tunnel_tun, the
\* acknowledgements and the answers do to them, are a first-in first-out
\* line of at most OUTPACKETQ_LEN + 1 packets.
THEOREM QueueIsFifo == Spec => ImplementsFifo
BY Inductive, InitRefines, StepRefines, PTL
DEF Spec, ImplementsFifo, Fifo!Spec
=============================================================================
