--------------------------- MODULE OperatorProofs ---------------------------
(***************************************************************************)
(* Lemmas about the operators the models of the server and of the codecs   *)
(* are built from, for every value of the constants: what a function of    *)
(* iodined.c makes of a record that is as the functions before it left it. *)
(***************************************************************************)
EXTENDS IodinedUserOps, BaseCodec, WellFoundedInduction, TLAPS

\* The invariants of Outpacket as predicates of a record, so that they can be
\* carried through the operators a step composes.
RingOK(o) ==
  \A i \in Slots : i < o.filled => o.ring[Wrap(o.use + i)] \in Packet

WithinPacket(o) ==
  Sending(o) => /\ o.offset < PacketLen[o.pkt]
                /\ o.offset + o.sentlen <= PacketLen[o.pkt]

CountersOK(o) == o.resent <= ResendLimit + 1 /\ o.fragment <= FragCount

GoodOut(o) ==
  /\ o \in OutRecord
  /\ o.filled > 0 => Sending(o)
  /\ RingOK(o)
  /\ WithinPacket(o)
  /\ CountersOK(o)

\* Nothing of the current packet, if there is one, has been sent.
Unsent(o) == Sending(o) => o.offset = 0 /\ o.sentlen = 0 /\ o.resent = 0

\* What is left once the current packet is forgotten: the ring may still
\* hold packets.
Forgotten(o) ==
  /\ o \in OutRecord
  /\ ~ Sending(o)
  /\ RingOK(o)
  /\ CountersOK(o)

USE DEF Seqnos, FragNos, SeqCount, FragCount

-----------------------------------------------------------------------------
\* Indices of the ring stay indices.
LEMMA WrapInSlots ==
  ASSUME NEW i \in 0 .. 2 * QueueLen - 1
  PROVE  Wrap(i) \in Slots
BY LimitAssumption DEF Wrap, Slots

\* The next sequence number is one, and another than the current.
LEMMA NextSeqnoType ==
  ASSUME NEW s \in Seqnos
  PROVE  NextSeqno(s) \in Seqnos /\ NextSeqno(s) # s
BY DEF NextSeqno

\* A fresh record is good.
LEMMA EmptyGood == GoodOut(EmptyOut)
BY LimitAssumption
DEF EmptyOut, GoodOut, OutRecord, RingOK, WithinPacket, CountersOK, Sending,
    Slots

\* start_new_outpacket keeps the ring and puts every counter back.
LEMMA StartGood ==
  ASSUME NEW o, o \in OutRecord, RingOK(o), NEW p \in Packet
  PROVE  /\ GoodOut(start_new_outpacket(o, p))
         /\ Sending(start_new_outpacket(o, p))
         /\ Unsent(start_new_outpacket(o, p))
<1> DEFINE new == start_new_outpacket(o, p)
<1>1. NextSeqno(o.seqno) \in Seqnos
  BY NextSeqnoType DEF OutRecord
<1>2. new \in OutRecord
  BY <1>1 DEF OutRecord, start_new_outpacket
<1>3. /\ new.pkt = p /\ new.offset = 0 /\ new.sentlen = 0 /\ new.resent = 0
      /\ new.fragment = 0 /\ new.ring = o.ring /\ new.use = o.use
      /\ new.filled = o.filled
  BY DEF OutRecord, start_new_outpacket
<1> HIDE DEF new
<1>4. GoodOut(new) /\ Sending(new) /\ Unsent(new)
  BY <1>2, <1>3, PacketAssumption, LimitAssumption
  DEF GoodOut, RingOK, WithinPacket, CountersOK, Sending, Unsent
<1> QED BY <1>4 DEF new

\* ForgetPacket leaves the ring alone.
LEMMA ForgetIdle ==
  ASSUME NEW o, GoodOut(o)
  PROVE  Forgotten(ForgetPacket(o)) /\ ForgetPacket(o).filled = o.filled
<1> DEFINE new == ForgetPacket(o)
<1>1. new \in OutRecord
  BY DEF GoodOut, OutRecord, ForgetPacket
<1>2. /\ new.pkt = NoPacket /\ new.resent = 0 /\ new.fragment = o.fragment
      /\ new.ring = o.ring /\ new.use = o.use /\ new.filled = o.filled
  BY DEF GoodOut, OutRecord, ForgetPacket
<1> HIDE DEF new
<1>3. Forgotten(new) /\ new.filled = o.filled
  BY <1>1, <1>2, LimitAssumption
  DEF GoodOut, Forgotten, RingOK, CountersOK, Sending
<1> QED BY <1>3 DEF new

\* save_to_outpacketq behind a packet writes the slot after the last.
LEMMA SaveGood ==
  ASSUME NEW o, GoodOut(o), Sending(o), NEW p \in Packet
  PROVE  /\ GoodOut(save_to_outpacketq(o, p))
         /\ SamePacket(o, save_to_outpacketq(o, p))
         /\ save_to_outpacketq(o, p).offset = o.offset
         /\ save_to_outpacketq(o, p).sentlen = o.sentlen
<1> DEFINE new == save_to_outpacketq(o, p)
           last == Wrap(o.use + o.filled)
<1>1. CASE o.filled >= QueueLen
  BY <1>1 DEF save_to_outpacketq, SamePacket
<1>2. CASE o.filled < QueueLen
  <2>1. last \in Slots
    BY <1>2, WrapInSlots, LimitAssumption DEF GoodOut, OutRecord, Slots
  <2> DEFINE ring == [o.ring EXCEPT ![last] = p]
  <2>a. ring \in [Slots -> Packet \cup {NoPacket}]
    BY <2>1 DEF GoodOut, OutRecord
  <2>b. new = [o EXCEPT !.ring = ring, !.filled = o.filled + 1]
    BY <1>2, LimitAssumption DEF save_to_outpacketq, GoodOut, OutRecord
  <2>c. o.filled + 1 \in 0 .. QueueLen
    BY <1>2, LimitAssumption DEF GoodOut, OutRecord
  <2> HIDE DEF new, ring
  <2>2. new \in OutRecord
    BY <2>a, <2>b, <2>c DEF GoodOut, OutRecord
  <2>3. /\ new.filled = o.filled + 1 /\ new.use = o.use
        /\ new.ring = ring
        /\ new.pkt = o.pkt /\ new.offset = o.offset
        /\ new.sentlen = o.sentlen /\ new.resent = o.resent
        /\ new.fragment = o.fragment /\ new.seqno = o.seqno
    BY <2>b DEF GoodOut, OutRecord
  <2>4. RingOK(new)
    <3> SUFFICES ASSUME NEW i \in Slots, i < o.filled + 1
                 PROVE  new.ring[Wrap(o.use + i)] \in Packet
      BY <2>3 DEF RingOK
    <3>1. Wrap(o.use + i) \in Slots
      <4>1. o.use \in Slots
        BY DEF GoodOut, OutRecord
      <4> QED
        BY <4>1, WrapInSlots, LimitAssumption DEF Slots
    <3>2. CASE i = o.filled
      BY <3>2, <2>1, <2>3 DEF GoodOut, OutRecord, ring
    <3>3. CASE i < o.filled
      <4>1. Wrap(o.use + i) # last
        BY <3>3, <1>2, LimitAssumption DEF GoodOut, OutRecord, Slots, Wrap
      <4> QED BY <3>1, <3>3, <4>1, <2>1, <2>3 DEF GoodOut, OutRecord, RingOK, ring
    <3> QED BY <3>2, <3>3 DEF GoodOut, OutRecord, Slots
  <2>5. GoodOut(new) /\ SamePacket(o, new)
    BY <2>2, <2>3, <2>4
    DEF GoodOut, WithinPacket, CountersOK, Sending, SamePacket
  <2> QED BY <2>3, <2>5 DEF new
<1> QED BY <1>1, <1>2, LimitAssumption DEF GoodOut, OutRecord

\* get_from_outpacketq on an idle record: the oldest waiting packet becomes
\* the current one, or nothing was waiting.
LEMMA GetGood ==
  ASSUME NEW o, Forgotten(o)
  PROVE  GoodOut(get_from_outpacketq(o)) /\ Unsent(get_from_outpacketq(o))
<1> DEFINE new == get_from_outpacketq(o)
           p   == o.ring[o.use]
<1>1. CASE o.filled = 0
  BY <1>1
  DEF get_from_outpacketq, Forgotten, GoodOut, WithinPacket, OutRecord, Unsent
<1>2. CASE o.filled # 0
  <2>1. p \in Packet
    <3>1. 0 \in Slots /\ 0 < o.filled /\ Wrap(o.use + 0) = o.use
      BY <1>2, LimitAssumption DEF Forgotten, OutRecord, Slots, Wrap
    <3> QED BY <3>1 DEF Forgotten, RingOK
  <2> DEFINE s == start_new_outpacket(o, p)
  <2>2. GoodOut(s) /\ Sending(s) /\ Unsent(s)
    BY <2>1, StartGood DEF Forgotten
  <2>3. s.filled = o.filled /\ s.use = o.use /\ s.ring = o.ring
    BY DEF Forgotten, OutRecord, start_new_outpacket
  <2>4. new = [s EXCEPT !.use = Wrap(o.use + 1), !.filled = o.filled - 1]
    BY <1>2 DEF get_from_outpacketq
  <2> HIDE DEF s
  <2>5. Wrap(o.use + 1) \in Slots
    BY WrapInSlots, LimitAssumption DEF Forgotten, OutRecord, Slots
  <2>6. o.filled - 1 \in 0 .. QueueLen
    BY <1>2, LimitAssumption DEF Forgotten, OutRecord
  <2>c. new \in OutRecord
    BY <2>2, <2>4, <2>5, <2>6 DEF GoodOut, OutRecord
  <2>7. /\ new.use = Wrap(o.use + 1) /\ new.filled = o.filled - 1
        /\ new.ring = o.ring /\ new.pkt = s.pkt /\ new.offset = s.offset
        /\ new.sentlen = s.sentlen /\ new.resent = s.resent
        /\ new.fragment = s.fragment
    BY <2>2, <2>3, <2>4 DEF GoodOut, OutRecord
  <2> HIDE DEF new
  <2>8. RingOK(new)
    <3> SUFFICES ASSUME NEW i \in Slots, i < o.filled - 1
                 PROVE  o.ring[Wrap(Wrap(o.use + 1) + i)] \in Packet
      BY <2>7 DEF RingOK
    <3>1. /\ i + 1 \in Slots /\ i + 1 < o.filled
          /\ Wrap(Wrap(o.use + 1) + i) = Wrap(o.use + (i + 1))
      <4>1. o.use \in 0 .. QueueLen - 1 /\ o.filled \in 0 .. QueueLen
        BY DEF Forgotten, OutRecord, Slots
      <4> QED
        BY <4>1, LimitAssumption DEF Slots, Wrap
    <3> QED BY <3>1 DEF Forgotten, RingOK
  <2>9. GoodOut(new) /\ Unsent(new)
    BY <2>2, <2>c, <2>7, <2>8
    DEF GoodOut, WithinPacket, CountersOK, Sending, Unsent
  <2> QED BY <2>9 DEF new
<1> QED BY <1>1, <1>2

-----------------------------------------------------------------------------
\* Forgetting the current packet and taking the next from the ring.
LEMMA NextFromQueueGood ==
  ASSUME NEW o, GoodOut(o)
  PROVE  /\ GoodOut(get_from_outpacketq(ForgetPacket(o)))
         /\ Unsent(get_from_outpacketq(ForgetPacket(o)))
BY ForgetIdle, GetGood

\* The awaited acknowledgement moves on by what was sent, or to the next
\* packet.
LEMMA AckGood ==
  ASSUME NEW o, GoodOut(o), NEW seq, NEW frag \in FragNos,
         IsAwaitedAck(o, seq, frag)
  PROVE  LET new == process_downstream_ack(o, seq, frag)
         IN  /\ GoodOut(new)
             /\ \/ Unsent(new)
                \/ /\ SamePacket(o, new)
                   /\ new.offset + new.sentlen = o.offset + o.sentlen
<1> DEFINE new == process_downstream_ack(o, seq, frag)
<1>1. CASE o.offset + o.sentlen >= PacketLen[o.pkt]
  BY <1>1, NextFromQueueGood DEF process_downstream_ack
<1>2. CASE ~ (o.offset + o.sentlen >= PacketLen[o.pkt])
  <2> DEFINE off == o.offset + o.sentlen
             frg == o.fragment + 1
  <2>1. frg \in Nat /\ frg <= FragCount /\ off \in Nat
    BY DEF IsAwaitedAck, GoodOut, OutRecord
  <2>2. new = [o EXCEPT !.offset = off, !.sentlen = 0, !.fragment = frg,
                        !.resent = 0]
    BY <1>2 DEF process_downstream_ack
  <2>8. off < PacketLen[o.pkt]
    BY <1>2, PacketAssumption
    DEF IsAwaitedAck, Sending, GoodOut, OutRecord
  <2> HIDE DEF new, off, frg
  <2>3. new \in OutRecord
    BY <2>1, <2>2 DEF GoodOut, OutRecord
  <2>4. /\ new.pkt = o.pkt /\ new.seqno = o.seqno /\ new.ring = o.ring
        /\ new.use = o.use /\ new.filled = o.filled /\ new.resent = 0
        /\ new.sentlen = 0 /\ new.offset = off /\ new.fragment = frg
    BY <2>2 DEF GoodOut, OutRecord
  <2>5. PacketLen[o.pkt] \in Nat
    BY PacketAssumption DEF IsAwaitedAck, Sending, GoodOut, OutRecord
  <2>6. GoodOut(new) /\ SamePacket(o, new)
    BY <2>1, <2>3, <2>4, <2>5, <2>8, LimitAssumption
    DEF GoodOut, RingOK, WithinPacket, CountersOK, Sending, SamePacket,
        IsAwaitedAck
  <2>7. new.offset + new.sentlen = o.offset + o.sentlen
    BY <2>1, <2>4 DEF off
  <2> QED BY <2>6, <2>7 DEF new
<1> QED BY <1>1, <1>2

\* After the check for too many resends one more is allowed.
LEMMA DropGood ==
  ASSUME NEW o, GoodOut(o)
  PROVE  LET new == DropIfResentTooOften(o)
         IN  /\ GoodOut(new)
             /\ Sending(new) => new.resent <= ResendLimit
             /\ new = o \/ Unsent(new)
<1> DEFINE new == DropIfResentTooOften(o)
<1>1. CASE Sending(o) /\ o.resent > ResendLimit
  BY <1>1, NextFromQueueGood, LimitAssumption
  DEF DropIfResentTooOften, Unsent
<1>2. CASE ~ (Sending(o) /\ o.resent > ResendLimit)
  BY <1>2, LimitAssumption DEF DropIfResentTooOften, GoodOut, OutRecord
<1> QED BY <1>1, <1>2

\* A chunk is cut from the current packet, at least one byte of it.
LEMMA CutGood ==
  ASSUME NEW o, GoodOut(o), Sending(o), o.resent <= ResendLimit,
         NEW n \in FragSizes
  PROVE  LET new == CutChunk(o, n)
         IN  /\ GoodOut(new)
             /\ SamePacket(o, new)
             /\ new.offset = o.offset
             /\ new.sentlen = DataLen(o, n)
             /\ DataLen(o, n) \in Nat
<1> DEFINE new == CutChunk(o, n)
<1>1. /\ PacketLen[o.pkt] \in Nat /\ o.offset \in Nat /\ o.resent \in Nat
      /\ o.offset < PacketLen[o.pkt] /\ n \in Nat
  BY PacketAssumption, LimitAssumption
  DEF Sending, GoodOut, OutRecord, WithinPacket
<1>2. /\ DataLen(o, n) \in Nat
      /\ o.offset + DataLen(o, n) <= PacketLen[o.pkt]
  BY <1>1 DEF DataLen, Smaller
<1> DEFINE len == DataLen(o, n)
           cnt == o.resent + 1
<1>3. new = [o EXCEPT !.sentlen = len, !.resent = cnt]
  BY DEF CutChunk
<1>a. len \in Nat /\ cnt \in Nat
  BY <1>1, <1>2
<1> HIDE DEF new, len, cnt
<1>4. new \in OutRecord
  BY <1>3, <1>a DEF GoodOut, OutRecord
<1>5. /\ new.pkt = o.pkt /\ new.seqno = o.seqno /\ new.ring = o.ring
      /\ new.use = o.use /\ new.filled = o.filled
      /\ new.resent = cnt /\ new.sentlen = len
      /\ new.offset = o.offset /\ new.fragment = o.fragment
  BY <1>3 DEF GoodOut, OutRecord
<1>6. /\ new.filled > 0 => Sending(new)
      /\ SamePacket(o, new)
      /\ RingOK(new)
  BY <1>5 DEF GoodOut, RingOK, Sending, SamePacket
<1>7. WithinPacket(new)
  BY <1>1, <1>2, <1>5 DEF WithinPacket, len
<1>8. CountersOK(new)
  BY <1>1, <1>5, LimitAssumption DEF GoodOut, CountersOK, cnt
<1>9. GoodOut(new)
  BY <1>4, <1>6, <1>7, <1>8 DEF GoodOut
<1> QED BY <1>2, <1>5, <1>6, <1>9 DEF new, len

\* send_chunk_or_dataless: the record stays good, and it holds either a
\* packet nothing was sent of or the packet the chunk was cut from.
LEMMA SendGood ==
  ASSUME NEW o, GoodOut(o), NEW n \in FragSizes
  PROVE  LET ready == DropIfResentTooOften(o)
             sent  == send_next_chunk(o, n)
         IN  /\ GoodOut(sent.out)
             /\ sent.chunk.len \in Nat /\ sent.chunk.from \in Nat
             /\ \/ Unsent(sent.out)
                \/ /\ SamePacket(ready, sent.out)
                   /\ ready.offset = sent.out.offset
                   /\ sent.chunk.from = sent.out.offset
                   /\ sent.chunk.len = sent.out.sentlen
<1> DEFINE ready == DropIfResentTooOften(o)
           cut   == CutChunk(ready, n)
           sent  == send_next_chunk(o, n)
<1>1. /\ GoodOut(ready)
      /\ Sending(ready) => ready.resent <= ResendLimit
  BY DropGood
<1>2. /\ sent.out = AfterSend(cut)
      /\ sent.chunk.from = ready.offset /\ sent.chunk.len = DataLen(ready, n)
  BY DEF send_next_chunk, ChunkOf
<1>3. ready.offset \in Nat
  BY <1>1 DEF GoodOut, OutRecord
<1> HIDE DEF ready, sent
<1>4. CASE ~ Sending(ready)
  <2>1. cut = ready /\ AfterSend(cut) = ready /\ DataLen(ready, n) = 0
    BY <1>4 DEF CutChunk, AfterSend, WentOutWhole, DataLen
  <2> QED BY <1>1, <1>2, <1>3, <1>4, <2>1 DEF Unsent, ready, sent
<1>5. CASE Sending(ready)
  <2>1. /\ GoodOut(cut) /\ SamePacket(ready, cut)
        /\ cut.offset = ready.offset /\ cut.sentlen = DataLen(ready, n)
        /\ DataLen(ready, n) \in Nat
    BY <1>1, <1>5, CutGood
  <2> HIDE DEF cut
  <2>2. CASE WentOutWhole(cut)
    BY <1>2, <1>3, <2>1, <2>2, NextFromQueueGood DEF AfterSend, ready, sent
  <2>3. CASE ~ WentOutWhole(cut)
    BY <1>2, <1>3, <2>1, <2>3 DEF AfterSend, ready, sent
  <2> QED BY <2>2, <2>3
<1> QED BY <1>4, <1>5

-----------------------------------------------------------------------------
(***************************************************************************)
(* What waits in a record, and whether what is being sent was sent before. *)
(***************************************************************************)
\* The current packet has gone out once, at least in part.
Begun(o) == Sending(o) => o.resent > 0

\* Taking the next packet from the ring brings none into the line.
LEMMA NextWaits ==
  ASSUME NEW o, GoodOut(o)
  PROVE  /\ Waiting(get_from_outpacketq(ForgetPacket(o))) \subseteq Waiting(o)
         /\ get_from_outpacketq(ForgetPacket(o)).filled <= o.filled
         /\ o.filled = 0 => ~ Sending(get_from_outpacketq(ForgetPacket(o)))
<1> DEFINE f == ForgetPacket(o)
           p == o.ring[o.use]
           s == start_new_outpacket(f, p)
           new == get_from_outpacketq(f)
<1>1. /\ f.filled = o.filled /\ f.use = o.use /\ f.ring = o.ring
      /\ f.pkt = NoPacket /\ DOMAIN f = DOMAIN o
  BY DEF GoodOut, OutRecord, ForgetPacket
<1>2. o.filled \in 0 .. QueueLen /\ o.use \in 0 .. QueueLen - 1
  BY DEF GoodOut, OutRecord, Slots
<1>3. CASE o.filled = 0
  BY <1>1, <1>3 DEF get_from_outpacketq, Waiting, Sending
<1>4. CASE o.filled # 0
  <2>1. s.pkt = p /\ s.ring = o.ring /\ DOMAIN s = DOMAIN o
    BY <1>1 DEF start_new_outpacket, GoodOut, OutRecord
  <2>2. new = [s EXCEPT !.use = Wrap(o.use + 1), !.filled = o.filled - 1]
    BY <1>1, <1>4 DEF get_from_outpacketq
  <2> HIDE DEF s, f
  <2>3. /\ new.pkt = p /\ new.ring = o.ring
        /\ new.use = Wrap(o.use + 1) /\ new.filled = o.filled - 1
    BY <2>1, <2>2 DEF GoodOut, OutRecord
  <2> HIDE DEF new
  <2>4. p \in Waiting(o)
    <3>1. Wrap(o.use + 0) = o.use /\ 0 \in 0 .. o.filled - 1
      BY <1>2, <1>4, LimitAssumption DEF Wrap
    <3> QED
      BY <3>1 DEF Waiting
  <2>5. ASSUME NEW k \in 0 .. new.filled - 1
        PROVE  new.ring[Wrap(new.use + k)] \in Waiting(o)
    <3>1. k + 1 \in 0 .. o.filled - 1
      BY <1>2, <2>3
    <3>2. Wrap(Wrap(o.use + 1) + k) = Wrap(o.use + (k + 1))
      <4>1. CASE o.use + 1 >= QueueLen
        <5>1. Wrap(o.use + 1) = 0 /\ o.use + 1 = QueueLen
          BY <1>2, <4>1, LimitAssumption DEF Wrap
        <5> QED BY <1>2, <3>1, <5>1, LimitAssumption DEF Wrap
      <4>2. CASE o.use + 1 < QueueLen
        <5>1. Wrap(o.use + 1) = o.use + 1
          BY <1>2, <4>2, LimitAssumption DEF Wrap
        <5>2. o.use + 1 + k = o.use + (k + 1)
          BY <1>2, <3>1
        <5> QED BY <5>1, <5>2
      <4> QED BY <1>2, <4>1, <4>2, LimitAssumption
    <3> QED
      BY <2>3, <3>1, <3>2 DEF Waiting
  <2>6. Waiting(new) \subseteq Waiting(o)
    BY <2>3, <2>4, <2>5 DEF Waiting
  <2> QED
    BY <1>2, <1>4, <2>3, <2>6 DEF new, f
<1> QED
  BY <1>3, <1>4

\* Nor does an acknowledgement, and it starts nothing from an empty line.
LEMMA AckOut ==
  ASSUME NEW o, GoodOut(o), NEW seq, NEW frag \in FragNos
  PROVE  LET new == process_downstream_ack(o, seq, frag)
         IN  /\ GoodOut(new)
             /\ Waiting(new) \subseteq Waiting(o)
             /\ ~ Sending(o) => new = o
<1>1. CASE ~ IsAwaitedAck(o, seq, frag)
  BY <1>1 DEF process_downstream_ack
<1>2. CASE IsAwaitedAck(o, seq, frag)
  <2> DEFINE new == process_downstream_ack(o, seq, frag)
  <2>1. GoodOut(new)
    BY <1>2, AckGood
  <2>2. Waiting(new) \subseteq Waiting(o)
    <3>1. CASE o.offset + o.sentlen >= PacketLen[o.pkt]
      BY <1>2, <3>1, NextWaits DEF process_downstream_ack
    <3>2. CASE ~ (o.offset + o.sentlen >= PacketLen[o.pkt])
      <4>1. /\ new.pkt = o.pkt /\ new.ring = o.ring
            /\ new.use = o.use /\ new.filled = o.filled
        BY <1>2, <3>2 DEF process_downstream_ack, GoodOut, OutRecord
      <4> QED
        BY <4>1 DEF Waiting
    <3> QED
      BY <3>1, <3>2
  <2>3. Sending(o)
    BY <1>2 DEF IsAwaitedAck
  <2> QED
    BY <2>1, <2>2, <2>3
<1> QED
  BY <1>1, <1>2

\* A packet accepted is what the line gains at most; behind a packet it waits.
LEMMA AcceptOut ==
  ASSUME NEW o, GoodOut(o), NEW p \in Packet
  PROVE  LET new == AcceptPacket(o, p)
         IN  /\ GoodOut(new) /\ Sending(new)
             /\ Waiting(new) \subseteq Waiting(o) \cup {p}
             /\ Sending(o) => new.resent = o.resent
             /\ ~ Sending(o) => new.filled = 0
<1> DEFINE new == AcceptPacket(o, p)
<1>2. o.filled \in 0 .. QueueLen /\ o.use \in 0 .. QueueLen - 1
  BY DEF GoodOut, OutRecord, Slots
<1>3. CASE ~ Sending(o)
  <2>1. GoodOut(new) /\ Sending(new)
    BY <1>3, StartGood DEF AcceptPacket, GoodOut
  <2>2. new.pkt = p /\ new.filled = o.filled /\ o.filled = 0
    BY <1>2, <1>3 DEF AcceptPacket, start_new_outpacket, GoodOut, OutRecord
  <2>3. Waiting(new) \subseteq {p}
    BY <2>2 DEF Waiting
  <2> QED
    BY <1>3, <2>1, <2>2, <2>3
<1>4. CASE Sending(o)
  <2>1. /\ GoodOut(new) /\ SamePacket(o, new)
        /\ new = save_to_outpacketq(o, p)
    BY <1>4, SaveGood DEF AcceptPacket
  <2>2. CASE o.filled >= QueueLen
    BY <1>4, <2>1, <2>2 DEF save_to_outpacketq
  <2>3. CASE o.filled < QueueLen
    <3> DEFINE last == Wrap(o.use + o.filled)
               ring == [o.ring EXCEPT ![last] = p]
    <3>1. new = [o EXCEPT !.ring = ring, !.filled = o.filled + 1]
      BY <1>2, <2>1, <2>3, LimitAssumption DEF save_to_outpacketq
    <3> HIDE DEF ring, new
    <3>2. /\ new.ring = ring /\ new.filled = o.filled + 1
          /\ new.use = o.use /\ new.pkt = o.pkt /\ new.resent = o.resent
      BY <3>1 DEF GoodOut, OutRecord
    <3>3. \A i \in Slots : ring[i] = IF i = last THEN p ELSE o.ring[i]
      BY DEF ring, GoodOut, OutRecord
    <3>4. ASSUME NEW k \in 0 .. o.filled
          PROVE  ring[Wrap(o.use + k)] \in Waiting(o) \cup {p}
      <4>1. Wrap(o.use + k) \in Slots
        BY <1>2, <2>3, WrapInSlots, LimitAssumption DEF Slots
      <4>2. CASE k = o.filled
        BY <3>3, <4>1, <4>2
      <4>3. CASE k # o.filled
        <5>1. k \in 0 .. o.filled - 1
          BY <1>2, <4>3
        <5> QED
          BY <3>3, <4>1, <5>1 DEF Waiting
      <4> QED
        BY <4>2, <4>3
    <3>5. new.filled - 1 = o.filled
      BY <1>2, <3>2
    <3>6. Waiting(new) \subseteq Waiting(o) \cup {p}
      BY <3>2, <3>4, <3>5 DEF Waiting
    <3> QED
      BY <1>4, <2>1, <3>2, <3>6 DEF SamePacket, new
  <2> QED
    BY <1>2, <2>2, <2>3, LimitAssumption
<1> QED
  BY <1>3, <1>4

\* A send brings no packet into the line; it leaves one that has not begun
\* only where it says so, by its return value, and it does nothing to an
\* empty line.
LEMMA SendOut ==
  ASSUME NEW o, GoodOut(o)
  PROVE  LET sent == send_next_chunk(o, FragSize)
         IN  /\ GoodOut(sent.out)
             /\ Waiting(sent.out) \subseteq Waiting(o)
             /\ ~ Sending(o) => sent.out = o
             /\ ~ sent.again => Begun(sent.out)
             /\ o.filled = 0 => ~ sent.again
<1> DEFINE ready == DropIfResentTooOften(o)
           cut == CutChunk(ready, FragSize)
           sent == send_next_chunk(o, FragSize)
<1>1. /\ GoodOut(ready)
      /\ Sending(ready) => ready.resent <= ResendLimit
  BY DropGood
<1>2. /\ Waiting(ready) \subseteq Waiting(o)
      /\ o.filled = 0 => ready.filled = 0
      /\ ~ Sending(o) => ready = o
  <2>1. CASE Sending(o) /\ o.resent > ResendLimit
    <3>1. o.filled \in Nat /\ get_from_outpacketq(ForgetPacket(o)).filled \in Nat
      BY NextFromQueueGood DEF GoodOut, OutRecord
    <3> QED
      BY <2>1, <3>1, NextWaits DEF DropIfResentTooOften
  <2>2. CASE ~ (Sending(o) /\ o.resent > ResendLimit)
    BY <2>2 DEF DropIfResentTooOften
  <2> QED
    BY <2>1, <2>2
<1>3. sent.out = AfterSend(cut) /\ (sent.again <=> WentOutWhole(cut) /\ cut.filled > 0)
  BY DEF send_next_chunk
<1>4. GoodOut(sent.out)
  BY SendGood, UserAssumption
<1> HIDE DEF ready, sent
<1>5. CASE ~ Sending(ready)
  <2>1. cut = ready /\ AfterSend(cut) = ready /\ ~ WentOutWhole(cut)
    BY <1>5 DEF CutChunk, AfterSend, WentOutWhole
  <2> QED
    BY <1>2, <1>3, <1>4, <1>5, <2>1 DEF Begun, sent
<1>6. CASE Sending(ready)
  <2>1. GoodOut(cut)
    BY <1>1, <1>6, CutGood, UserAssumption
  <2>2. /\ cut.pkt = ready.pkt /\ cut.ring = ready.ring /\ cut.use = ready.use
        /\ cut.filled = ready.filled /\ cut.resent = ready.resent + 1
    BY <1>1, <1>6 DEF CutChunk, GoodOut, OutRecord
  <2>3. ready.resent \in Nat /\ ready.filled \in Nat
    BY <1>1 DEF GoodOut, OutRecord
  <2> HIDE DEF cut
  <2>4. Waiting(cut) = Waiting(ready)
    BY <2>2 DEF Waiting
  <2>5. CASE WentOutWhole(cut)
    <3>1. /\ Waiting(sent.out) \subseteq Waiting(cut)
          /\ cut.filled = 0 => ~ Sending(sent.out)
      BY <1>3, <2>1, <2>5, NextWaits DEF AfterSend
    <3>2. cut.filled > 0 \/ cut.filled = 0
      BY <2>2, <2>3
    <3>3. Sending(o)
      BY <1>2, <1>6
    <3>4. Waiting(sent.out) \subseteq Waiting(o)
      BY <1>2, <2>4, <3>1
    <3>5. ~ sent.again => Begun(sent.out)
      BY <1>3, <2>5, <3>1, <3>2 DEF Begun
    <3>6. o.filled = 0 => ~ sent.again
      BY <1>2, <1>3, <2>2
    <3> QED
      BY <1>4, <3>3, <3>4, <3>5, <3>6 DEF sent
  <2>6. CASE ~ WentOutWhole(cut)
    <3>1. sent.out = cut
      BY <1>3, <2>6 DEF AfterSend
    <3>2. Begun(sent.out)
      BY <2>2, <2>3, <3>1 DEF Begun
    <3>3. Waiting(sent.out) \subseteq Waiting(o) /\ Sending(o) /\ ~ sent.again
      BY <1>2, <1>3, <1>6, <2>4, <2>6, <3>1
    <3> QED
      BY <1>4, <3>2, <3>3 DEF sent
  <2> QED
    BY <2>5, <2>6
<1> QED
  BY <1>5, <1>6
(***************************************************************************)
(* Records of a user: their types, and what a send does to them.           *)
(***************************************************************************)
Headers == [seqno : Seqnos, fragment : FragNos]

QueryRecord ==
  [num : Nat, id : Ids \cup {NoId}, id2 : Ids \cup {NoId}, kind : Kinds,
   ack : Headers, up : Headers, last : BOOLEAN, data : Seq(Cells)]

BodyRecord ==
  [legal : BOOLEAN, ack : Headers, down : Headers, last : BOOLEAN,
   data : Seq(Cells)]

CacheRecord  == [num : Nat, body : BodyRecord]
AnswerRecord == [num : Nat, id : Ids, body : BodyRecord]

UserRecord ==
  [lazy : BOOLEAN, out : OutRecord,
   inp : [buf : Seq(Cells), seqno : Seqnos, fragment : FragNos],
   q : QueryRecord, soonq : QueryRecord, soonnew : BOOLEAN,
   cache : Seq(CacheRecord), qmem : [Kinds -> Seq(Nat)],
   tx : SUBSET AnswerRecord, written : Seq(Packet), acked : SUBSET Packet]

\* A query that is held has a number.
HeldOrNone(q) == q = NoQuery \/ (Held(q) /\ q.num # 0)

GoodUser(u) ==
  /\ u \in UserRecord
  /\ GoodOut(u.out)
  /\ HeldOrNone(u.q)
  /\ HeldOrNone(u.soonq)

\* A query as it comes from a client, by way of a relay
NewQuery(qry) ==
  qry \in QueryRecord /\ qry.num # 0 /\ qry.id \in Ids /\ qry.id2 = NoId

LEMMA FieldType == \A n \in Nat : FragField(n) \in FragNos
BY DEF FragField

\* The header of a record shows fields of three and four bits.
LEMMA HeaderType ==
  ASSUME NEW x, x.seqno \in Seqnos, x.fragment \in Nat
  PROVE  Header(x) \in Headers
BY FieldType DEF Header, Headers

LEMMA NoQueryType ==
  /\ NoQuery \in QueryRecord /\ ~ Held(NoQuery)
  /\ NoQuery.num = 0 /\ NoQuery.id = NoId /\ NoQuery.id2 = NoId
<1> DEFINE none == Query(0, "ping", NoHeader, NoHeader, FALSE, << >>)
<1>1. << >> \in Seq(Cells) /\ NoHeader \in Headers
  BY DEF NoHeader, Headers
<1>2. none \in QueryRecord /\ none.num = 0 /\ none.id2 = NoId
  BY <1>1, QueryBoundAssumption DEF QueryRecord, Query, Kinds, Ids
<1>3. NoQuery = [none EXCEPT !.id = NoId]
  BY DEF NoQuery
<1> HIDE DEF none
<1>4. /\ NoQuery \in QueryRecord /\ NoQuery.num = 0 /\ NoQuery.id = NoId
      /\ NoQuery.id2 = NoId
  BY <1>2, <1>3 DEF QueryRecord
<1> QED
  BY <1>4 DEF Held

\* What a client asks, with the header fields of its record
LEMMA QueryIsNew ==
  ASSUME NEW num \in Nat \ {0}, NEW kind \in Kinds, NEW ack \in Headers,
         NEW up \in Headers, NEW last \in BOOLEAN, NEW data \in Seq(Cells)
  PROVE  LET qry == Query(num, kind, ack, up, last, data)
         IN  NewQuery(qry) /\ Held(qry) /\ qry.num = num
BY QueryBoundAssumption DEF NewQuery, Query, QueryRecord, Ids, NoId, Held

\* Cells of a packet within its length are cells.
LEMMA CellsType ==
  ASSUME NEW p \in Packet, NEW from \in Nat, NEW len \in Nat,
         from + len <= PacketLen[p]
  PROVE  CellsOf(p, from, len) \in Seq(Cells)
<1>1. ASSUME NEW i \in 1 .. len PROVE << p, from + i >> \in Cells
  <2>1. from + i \in 1 .. PacketLen[p]
    BY PacketAssumption
  <2> QED
    BY <2>1 DEF Cells
<1> QED
  BY <1>1 DEF CellsOf

LEMMA RememberType ==
  ASSUME NEW S, NEW ring \in Seq(S), NEW x \in S, NEW len \in Nat \ {0}
  PROVE  /\ Remember(ring, x, len) \in Seq(S)
         /\ Len(Remember(ring, x, len)) > 0
         /\ Remember(ring, x, len)[1] = x
         /\ \A i \in DOMAIN Remember(ring, x, len) :
              \/ Remember(ring, x, len)[i] = x
              \/ \E k \in DOMAIN ring : Remember(ring, x, len)[i] = ring[k]
<1> DEFINE all == << x >> \o ring
           n == Smaller(Len(all), len)
<1>1. /\ all \in Seq(S) /\ Len(all) = Len(ring) + 1 /\ all[1] = x
      /\ \A i \in 2 .. Len(all) : all[i] = ring[i - 1] /\ i - 1 \in DOMAIN ring
  OBVIOUS
<1>2. n \in 1 .. Len(all)
  BY <1>1 DEF Smaller
<1> HIDE DEF all, n
<1>3. Remember(ring, x, len) = SubSeq(all, 1, n)
  BY DEF Remember, all, n
<1>4. /\ SubSeq(all, 1, n) \in Seq(S) /\ Len(SubSeq(all, 1, n)) = n
      /\ \A i \in 1 .. n : SubSeq(all, 1, n)[i] = all[i]
  BY <1>1, <1>2
<1>5. \A i \in 1 .. n : all[i] = x \/ \E k \in DOMAIN ring : all[i] = ring[k]
  BY <1>1, <1>2
<1> QED
  BY <1>1, <1>2, <1>3, <1>4, <1>5

-----------------------------------------------------------------------------
(***************************************************************************)
(* send_chunk_or_dataless on a held query.                                 *)
(***************************************************************************)
\* The query has been answered in this step, on both its ids.
IsAnswered(qry, tx) ==
  \A id \in {qry.id, qry.id2} \ {NoId} : \E a \in tx : a.num = qry.num /\ a.id = id

\* v is u after a send on the query in field f.
Sent(u, f, v) ==
  /\ GoodUser(v)
  /\ v.out = send_next_chunk(u.out, FragSize).out
  /\ v.q = IF f = "q" THEN NoQuery ELSE u.q
  /\ v.soonq = IF f = "soonq" THEN NoQuery ELSE u.soonq
  /\ v.lazy = u.lazy /\ v.soonnew = u.soonnew /\ v.inp = u.inp
  /\ v.written = u.written /\ v.acked = u.acked
  /\ u.tx \subseteq v.tx /\ IsAnswered(u[f], v.tx)
  /\ InCache(v, u[f].num)
  /\ Remembered(v) \subseteq Remembered(u)

\* The body of an answer is one, whatever the chunk in it.
LEMMA BodyType ==
  ASSUME NEW u, GoodUser(u)
  PROVE  AnswerBody(u, send_next_chunk(u.out, FragSize).chunk) \in BodyRecord
<1> DEFINE o == DropIfResentTooOften(u.out)
           chunk == ChunkOf(o, FragSize)
           len == DataLen(o, FragSize)
           data == CellsOf(chunk.pkt, chunk.from, chunk.len)
<1>1. GoodOut(o)
  BY DropGood DEF GoodUser
<1>2. send_next_chunk(u.out, FragSize).chunk = chunk
  BY DEF send_next_chunk
<1>3. /\ o.offset \in Nat /\ o.fragment \in Nat /\ o.seqno \in Seqnos
      /\ FragSize \in Nat
  BY <1>1, UserAssumption, LimitAssumption DEF GoodOut, OutRecord
<1>a. /\ chunk.pkt = o.pkt /\ chunk.from = o.offset /\ chunk.len = len
      /\ chunk.seqno = o.seqno /\ chunk.fragment = FragField(o.fragment)
      /\ chunk.last \in BOOLEAN
  BY DEF ChunkOf
<1>4. data \in Seq(Cells)
  <2>1. CASE Sending(o)
    <3>1. /\ o.pkt \in Packet /\ PacketLen[o.pkt] \in Nat
          /\ o.offset < PacketLen[o.pkt]
      BY <1>1, <2>1, PacketAssumption
      DEF GoodOut, OutRecord, Sending, WithinPacket
    <3>2. len \in Nat /\ o.offset + len <= PacketLen[o.pkt]
      BY <1>3, <2>1, <3>1 DEF DataLen, Smaller
    <3> HIDE DEF o, chunk, len
    <3> QED
      BY <1>3, <1>a, <3>1, <3>2, CellsType
  <2>2. CASE ~ Sending(o)
    <3>1. len = 0
      BY <2>2 DEF DataLen
    <3> HIDE DEF o, chunk, len
    <3>2. data = << >>
      BY <1>a, <3>1 DEF CellsOf
    <3> QED
      BY <3>2
  <2> QED
    BY <2>1, <2>2
<1> HIDE DEF o, chunk, len, data
<1>5. FragField(o.fragment) \in FragNos
  BY <1>3, FieldType
<1>6. FragField(chunk.fragment) \in FragNos
  BY <1>a, <1>5, FieldType
<1>7. Header(chunk) \in Headers
  BY <1>3, <1>6, <1>a DEF Header, Headers
<1>8. Header(u.inp) \in Headers
  <2>1. u.inp.seqno \in Seqnos /\ u.inp.fragment \in FragNos
    BY DEF GoodUser, UserRecord
  <2> QED
    BY <2>1, FieldType DEF Header, Headers
<1>9. AnswerBody(u, chunk) = [legal |-> TRUE, ack |-> Header(u.inp),
                              down |-> Header(chunk), last |-> chunk.last,
                              data |-> data]
  BY DEF AnswerBody, Body, data
<1> QED
  BY <1>2, <1>4, <1>7, <1>8, <1>9, <1>a DEF BodyRecord

\* What a record remembers are the numbers of what it holds and has answered.
LEMMA RememberedIs ==
  ASSUME NEW u, NEW S
  PROVE  Remembered(u) \subseteq S <=>
           /\ \A g \in {"q", "soonq"} : Held(u[g]) => u[g].num \in S
           /\ \A k \in DOMAIN u.cache : u.cache[k].num \in S
           /\ \A kind \in Kinds : \A k \in DOMAIN u.qmem[kind] :
                u.qmem[kind][k] \in S
BY DEF Remembered

LEMMA SendUser ==
  ASSUME NEW u, GoodUser(u), NEW f \in {"q", "soonq"}, Held(u[f])
  PROVE  Sent(u, f, SendOn(u, f))
<1> DEFINE sent == send_next_chunk(u.out, FragSize)
           body == AnswerBody(u, sent.chunk)
           num == u[f].num
           kind == u[f].kind
           tx == u.tx \cup {Answer(num, id, body) :
                              id \in {u[f].id, u[f].id2} \ {NoId}}
           ring == Remember(u.qmem[kind], num, QmemLen)
           qmem == [u.qmem EXCEPT ![kind] = ring]
           answered == [num |-> num, body |-> body]
           cache == Remember(u.cache, answered, DnscacheLen)
           v == SendOn(u, f)
<1>1. f = "q" \/ f = "soonq"
  OBVIOUS
<1>2. u[f] \in QueryRecord /\ num # 0 /\ u[f].id # NoId
  BY <1>1, NoQueryType DEF GoodUser, UserRecord, HeldOrNone, Held
<1>3. num \in Nat /\ kind \in Kinds /\ body \in BodyRecord
  BY <1>2, BodyType DEF QueryRecord
<1>4. /\ tx \subseteq AnswerRecord /\ u.tx \subseteq tx
      /\ IsAnswered(u[f], tx)
  <2>1. \A id \in {u[f].id, u[f].id2} \ {NoId} : id \in Ids
    BY <1>2 DEF QueryRecord
  <2>2. \A id \in Ids : Answer(num, id, body) \in AnswerRecord
    BY <1>3 DEF Answer, AnswerRecord
  <2>3. u.tx \subseteq AnswerRecord
    BY DEF GoodUser, UserRecord
  <2>4. \A id : Answer(num, id, body).num = num /\ Answer(num, id, body).id = id
    BY DEF Answer
  <2> HIDE DEF body
  <2> QED
    BY <2>1, <2>2, <2>3, <2>4 DEF IsAnswered
<1>5. /\ ring \in Seq(Nat)
      /\ \A i \in DOMAIN ring :
           ring[i] = num \/ \E k \in DOMAIN u.qmem[kind] : ring[i] = u.qmem[kind][k]
  <2> DEFINE old == u.qmem[kind]
             Number == Nat
  <2>1. old \in Seq(Number) /\ num \in Number
    BY <1>3 DEF GoodUser, UserRecord
  <2> HIDE DEF old, num, Number
  <2>2. /\ Remember(old, num, QmemLen) \in Seq(Number)
        /\ \A i \in DOMAIN Remember(old, num, QmemLen) :
             \/ Remember(old, num, QmemLen)[i] = num
             \/ \E k \in DOMAIN old : Remember(old, num, QmemLen)[i] = old[k]
    BY <2>1, RememberType, UserAssumption
  <2> QED
    BY <2>2 DEF old, num, Number
<1>6. qmem \in [Kinds -> Seq(Nat)]
  BY <1>5 DEF GoodUser, UserRecord
<1>7. /\ cache \in Seq(CacheRecord) /\ Len(cache) > 0 /\ cache[1] = answered
      /\ \A i \in DOMAIN cache :
           cache[i] = answered \/ \E k \in DOMAIN u.cache : cache[i] = u.cache[k]
  <2>1. answered \in CacheRecord /\ u.cache \in Seq(CacheRecord)
    BY <1>3 DEF CacheRecord, GoodUser, UserRecord
  <2> HIDE DEF answered
  <2> QED
    BY <2>1, RememberType, UserAssumption
<1>8. GoodOut(sent.out)
  BY SendGood, UserAssumption DEF GoodUser
<1>9. v = [u EXCEPT !.out = sent.out, !.tx = tx, !.qmem = qmem, !.cache = cache,
                    ![f] = NoQuery]
  BY <1>1 DEF SendOn, send_chunk_or_dataless, GoodUser, UserRecord
<1> HIDE DEF sent, body, tx, ring, qmem, cache, v
<1>10. /\ v.out = sent.out /\ v.tx = tx /\ v.qmem = qmem /\ v.cache = cache
       /\ v.q = IF f = "q" THEN NoQuery ELSE u.q
       /\ v.soonq = IF f = "soonq" THEN NoQuery ELSE u.soonq
       /\ v.lazy = u.lazy /\ v.soonnew = u.soonnew /\ v.inp = u.inp
       /\ v.written = u.written /\ v.acked = u.acked
       /\ v.q \in QueryRecord /\ v.soonq \in QueryRecord
       /\ v = [u EXCEPT !.out = v.out, !.tx = v.tx, !.qmem = v.qmem,
                        !.cache = v.cache, !.q = v.q, !.soonq = v.soonq]
  <2>1. CASE f = "q"
    BY <1>9, <2>1, NoQueryType DEF GoodUser, UserRecord
  <2>2. CASE f = "soonq"
    BY <1>9, <2>2, NoQueryType DEF GoodUser, UserRecord
  <2> QED
    BY <1>1, <2>1, <2>2
<1>11. v \in UserRecord
  <2>1. sent.out \in OutRecord
    BY <1>8 DEF GoodOut
  <2> QED
    BY <1>4, <1>6, <1>7, <1>10, <2>1 DEF GoodUser, UserRecord
<1>12. HeldOrNone(v.q) /\ HeldOrNone(v.soonq)
  BY <1>10, NoQueryType DEF GoodUser, HeldOrNone
<1>13. InCache(v, num)
  <2>1. 1 \in DOMAIN cache /\ cache[1].num = num
    BY <1>7
  <2> QED
    BY <1>10, <2>1 DEF InCache
<1>14. Remembered(v) \subseteq Remembered(u)
  <2>1. num \in Remembered(u)
    BY <1>1 DEF Remembered
  <2>2. ASSUME NEW k \in DOMAIN cache
        PROVE  cache[k].num \in Remembered(u)
    BY <1>7, <2>1 DEF Remembered
  <2>3. ASSUME NEW kd \in Kinds, NEW k \in DOMAIN qmem[kd]
        PROVE  qmem[kd][k] \in Remembered(u)
    <3>1. CASE kd = kind
      <4>1. qmem[kd] = ring
        BY <1>3, <3>1 DEF qmem, GoodUser, UserRecord
      <4> QED
        BY <1>3, <1>5, <2>1, <2>3, <3>1, <4>1 DEF Remembered
    <3>2. CASE kd # kind
      <4>1. qmem[kd] = u.qmem[kd]
        BY <3>2 DEF qmem, GoodUser, UserRecord
      <4> QED
        BY <2>3, <4>1 DEF Remembered
    <3> QED
      BY <3>1, <3>2
  <2>4. ASSUME NEW g \in {"q", "soonq"}, Held(v[g])
        PROVE  v[g].num \in Remembered(u)
    <3>1. v[g] = u[g]
      BY <1>10, <2>4, NoQueryType
    <3> QED
      BY <2>4, <3>1 DEF Remembered
  <2> QED
    BY <1>10, <2>2, <2>3, <2>4, RememberedIs
<1>15. Sent(u, f, v)
  BY <1>4, <1>8, <1>10, <1>11, <1>12, <1>13, <1>14 DEF Sent, GoodUser, sent
<1> QED
  BY <1>15 DEF v

-----------------------------------------------------------------------------
(***************************************************************************)
(* What the pieces of the handlers carry over from the record before them. *)
(***************************************************************************)
\* The copy of a query is held, or was answered in this step.
InHand(u, num, id) ==
  HasCopy(u, num, id) \/ \E a \in u.tx : a.num = num /\ a.id = id

\* The query with this number will not be put off again.
Fading(u, num) == (u.soonq.num = num => ~ u.soonnew) /\ u.q.num # num

\* From u to v no copy of a query is lost, no packets but these come into the
\* line, and no numbers but these are remembered, or put off.
Carries(u, v, nums, packets) ==
  /\ GoodUser(v) /\ v.lazy = u.lazy
  /\ \A num, id : InHand(u, num, id) => InHand(v, num, id)
  /\ Waiting(v.out) \subseteq Waiting(u.out) \cup packets
  /\ Remembered(v) \subseteq Remembered(u) \cup nums
  /\ \A num \in Nat \ ({0} \cup nums) : Fading(u, num) => Fading(v, num)

LEMMA CarriesSame ==
  ASSUME NEW u, GoodUser(u), NEW nums, NEW packets
  PROVE  Carries(u, u, nums, packets)
BY DEF Carries

LEMMA CarriesTwice ==
  ASSUME NEW u, NEW v, NEW w, NEW nums, NEW packets,
         Carries(u, v, nums, packets), Carries(v, w, nums, packets)
  PROVE  Carries(u, w, nums, packets)
<1>1. \A num, id : InHand(u, num, id) => InHand(w, num, id)
  BY DEF Carries
<1>2. \A num \in Nat \ ({0} \cup nums) : Fading(u, num) => Fading(w, num)
  BY DEF Carries
<1> QED
  BY <1>1, <1>2 DEF Carries

LEMMA SendCarries ==
  ASSUME NEW u, GoodUser(u), NEW f \in {"q", "soonq"}, Held(u[f]),
         NEW nums, NEW packets
  PROVE  Carries(u, SendOn(u, f), nums, packets)
<1> DEFINE v == SendOn(u, f)
<1>1. Sent(u, f, v)
  BY SendUser
<1> HIDE DEF v
<1>2. ASSUME NEW num, NEW id, InHand(u, num, id)
      PROVE  InHand(v, num, id)
  <2>1. CASE \E a \in u.tx : a.num = num /\ a.id = id
    BY <1>1, <2>1 DEF Sent, InHand
  <2>2. ASSUME NEW g \in {"q", "soonq"},
               u[g].num = num, id \in {u[g].id, u[g].id2} \ {NoId}
        PROVE  InHand(v, num, id)
    <3>1. CASE g = f
      BY <1>1, <2>2, <3>1 DEF Sent, IsAnswered, InHand
    <3>2. CASE g # f
      <4>1. v[g] = u[g]
        BY <1>1, <3>2 DEF Sent
      <4> QED
        BY <2>2, <4>1 DEF InHand, HasCopy
    <3> QED
      BY <3>1, <3>2
  <2> QED
    BY <1>2, <2>1, <2>2 DEF InHand, HasCopy
<1>3. Waiting(v.out) \subseteq Waiting(u.out)
  BY <1>1, SendOut DEF Sent, GoodUser
<1>4. ASSUME NEW num \in Nat \ {0}, Fading(u, num)
      PROVE  Fading(v, num)
  BY <1>1, <1>4, NoQueryType DEF Sent, Fading
<1>5. Carries(u, v, nums, packets)
  BY <1>1, <1>2, <1>3, <1>4 DEF Carries, Sent
<1> QED
  BY <1>5 DEF v

\* v has the queries, the answers and the received packets of u.
SameQueries(u, v) ==
  /\ v.q = u.q /\ v.soonq = u.soonq /\ v.soonnew = u.soonnew
  /\ v.lazy = u.lazy
  /\ v.cache = u.cache /\ v.qmem = u.qmem /\ v.tx = u.tx

LEMMA SameQueriesCarry ==
  ASSUME NEW u, NEW v, GoodUser(u), GoodUser(v), SameQueries(u, v),
         NEW nums, NEW packets,
         Waiting(v.out) \subseteq Waiting(u.out) \cup packets
  PROVE  Carries(u, v, nums, packets)
<1>1. Remembered(v) = Remembered(u)
  BY DEF SameQueries, Remembered
<1>2. \A num, id : HasCopy(u, num, id) => HasCopy(v, num, id)
  BY DEF SameQueries, HasCopy
<1>3. \A num, id : InHand(u, num, id) => InHand(v, num, id)
  BY <1>2 DEF SameQueries, InHand
<1>4. \A num : Fading(u, num) => Fading(v, num)
  BY DEF SameQueries, Fading
<1> QED
  BY <1>1, <1>3, <1>4 DEF Carries, SameQueries

\* An acknowledgement changes nothing but outpacket.
LEMMA AckCarries ==
  ASSUME NEW u, GoodUser(u), NEW ack \in Headers, NEW nums, NEW packets
  PROVE  LET v == Acknowledge(u, ack)
         IN  /\ Carries(u, v, nums, packets)
             /\ SameQueries(u, v) /\ v.inp = u.inp /\ v.written = u.written
             /\ ~ Sending(u.out) => v.out = u.out
<1> DEFINE o == u.out
           new == process_downstream_ack(o, ack.seqno, ack.fragment)
           v == Acknowledge(u, ack)
<1>1. ack.fragment \in FragNos
  BY DEF Headers
<1>2. /\ GoodOut(new) /\ Waiting(new) \subseteq Waiting(o)
      /\ ~ Sending(o) => new = o
  BY <1>1, AckOut DEF GoodUser
<1>3. PICK acked : v = [u EXCEPT !.out = new, !.acked = acked] /\ acked \subseteq Packet
  <2>1. IsAwaitedAck(o, ack.seqno, ack.fragment) => o.pkt \in Packet
    BY DEF IsAwaitedAck, Sending, GoodUser, GoodOut, OutRecord
  <2>2. u.acked \subseteq Packet
    BY DEF GoodUser, UserRecord
  <2> QED
    BY <2>1, <2>2 DEF Acknowledge
<1> HIDE DEF new, v
<1>4. v \in UserRecord /\ v.out = new
  <2>1. new \in OutRecord
    BY <1>2 DEF GoodOut
  <2> QED
    BY <1>3, <2>1 DEF GoodUser, UserRecord
<1>5. SameQueries(u, v) /\ v.inp = u.inp /\ v.written = u.written
  BY <1>3 DEF GoodUser, UserRecord, SameQueries
<1>6. GoodUser(v)
  BY <1>2, <1>4, <1>5 DEF GoodUser, SameQueries
<1> QED
  BY <1>2, <1>4, <1>5, <1>6, SameQueriesCarry DEF v

\* A query is stored where none is held.
LEMMA StoreCarries ==
  ASSUME NEW u, GoodUser(u), ~ Held(u.q), NEW qry, NewQuery(qry), NEW packets
  PROVE  LET v == [u EXCEPT !.q = qry]
         IN  /\ Carries(u, v, {qry.num}, packets)
             /\ HasCopy(v, qry.num, qry.id)
             /\ Held(v.q) /\ v.q = qry /\ v.soonq = u.soonq /\ v.out = u.out
<1> DEFINE v == [u EXCEPT !.q = qry]
<1>1. /\ v \in UserRecord /\ v.q = qry /\ v.soonq = u.soonq /\ v.out = u.out
      /\ v.lazy = u.lazy /\ v.tx = u.tx /\ v.soonnew = u.soonnew
      /\ v.cache = u.cache /\ v.qmem = u.qmem
  BY DEF GoodUser, UserRecord, NewQuery
<1> HIDE DEF v
<1>2. Held(qry) /\ qry.num \in Nat /\ qry.id # NoId
  BY DEF NewQuery, Held, Ids, NoId, QueryRecord
<1>3. GoodUser(v)
  BY <1>1, <1>2 DEF GoodUser, HeldOrNone, NewQuery
<1>4. u.q.id = NoId /\ u.q.id2 = NoId
  BY NoQueryType DEF GoodUser, HeldOrNone
<1>5. ASSUME NEW num, NEW id, InHand(u, num, id)
      PROVE  InHand(v, num, id)
  <2>1. CASE \E a \in u.tx : a.num = num /\ a.id = id
    BY <1>1, <2>1 DEF InHand
  <2>2. ASSUME NEW g \in {"q", "soonq"},
               u[g].num = num, id \in {u[g].id, u[g].id2} \ {NoId}
        PROVE  InHand(v, num, id)
    <3>1. g = "soonq"
      BY <1>4, <2>2
    <3> QED
      BY <1>1, <2>2, <3>1 DEF InHand, HasCopy
  <2> QED
    BY <1>5, <2>1, <2>2 DEF InHand, HasCopy
<1>6. Remembered(v) \subseteq Remembered(u) \cup {qry.num}
  <2>1. Remembered(u) \subseteq Remembered(u) \cup {qry.num}
    OBVIOUS
  <2>2. /\ \A k \in DOMAIN u.cache : u.cache[k].num \in Remembered(u) \cup {qry.num}
        /\ \A kind \in Kinds : \A k \in DOMAIN u.qmem[kind] :
             u.qmem[kind][k] \in Remembered(u) \cup {qry.num}
        /\ Held(u.soonq) => u.soonq.num \in Remembered(u) \cup {qry.num}
    BY <2>1, RememberedIs
  <2>3. \A g \in {"q", "soonq"} :
          Held(v[g]) => v[g].num \in Remembered(u) \cup {qry.num}
    BY <1>1, <2>2
  <2> QED
    BY <1>1, <2>2, <2>3, RememberedIs
<1>7. \A num \in Nat \ ({0} \cup {qry.num}) : Fading(u, num) => Fading(v, num)
  BY <1>1 DEF Fading
<1>8. HasCopy(v, qry.num, qry.id)
  BY <1>1, <1>2 DEF HasCopy
<1>9. Carries(u, v, {qry.num}, packets)
  BY <1>1, <1>3, <1>5, <1>6, <1>7 DEF Carries
<1> QED
  BY <1>1, <1>2, <1>8, <1>9 DEF v

\* The held query is put off where none is put off yet.
LEMMA PostponeCarries ==
  ASSUME NEW u, GoodUser(u), ~ Held(u.soonq), NEW nums, NEW packets
  PROVE  /\ Carries(u, Postpone(u), nums, packets)
         /\ Postpone(u).q = NoQuery /\ Postpone(u).soonq = u.q
         /\ Postpone(u).out = u.out
<1> DEFINE v == Postpone(u)
<1>1. /\ v \in UserRecord /\ v.q = NoQuery /\ v.soonq = u.q /\ v.out = u.out
      /\ v.lazy = u.lazy /\ v.tx = u.tx
      /\ v.cache = u.cache /\ v.qmem = u.qmem
  BY NoQueryType DEF Postpone, GoodUser, UserRecord
<1> HIDE DEF v
<1>2. GoodUser(v)
  BY <1>1 DEF GoodUser, HeldOrNone
<1>3. u.soonq.id = NoId /\ u.soonq.id2 = NoId
  BY NoQueryType DEF GoodUser, HeldOrNone
<1>4. ASSUME NEW num, NEW id, InHand(u, num, id)
      PROVE  InHand(v, num, id)
  <2>1. CASE \E a \in u.tx : a.num = num /\ a.id = id
    BY <1>1, <2>1 DEF InHand
  <2>2. ASSUME NEW g \in {"q", "soonq"},
               u[g].num = num, id \in {u[g].id, u[g].id2} \ {NoId}
        PROVE  InHand(v, num, id)
    <3>1. g = "q"
      BY <1>3, <2>2
    <3>2. v["soonq"].num = num /\ id \in {v["soonq"].id, v["soonq"].id2} \ {NoId}
      BY <1>1, <2>2, <3>1
    <3> QED
      BY <3>2 DEF InHand, HasCopy
  <2> QED
    BY <1>4, <2>1, <2>2 DEF InHand, HasCopy
<1>5. Remembered(v) \subseteq Remembered(u)
  <2>1. Remembered(u) \subseteq Remembered(u)
    OBVIOUS
  <2>2. /\ \A k \in DOMAIN u.cache : u.cache[k].num \in Remembered(u)
        /\ \A kind \in Kinds : \A k \in DOMAIN u.qmem[kind] :
             u.qmem[kind][k] \in Remembered(u)
        /\ Held(u.q) => u.q.num \in Remembered(u)
    BY <2>1, RememberedIs
  <2>3. \A g \in {"q", "soonq"} : Held(v[g]) => v[g].num \in Remembered(u)
    BY <1>1, <2>2, NoQueryType
  <2> QED
    BY <1>1, <2>2, <2>3, RememberedIs
<1>6. \A num \in Nat \ {0} : Fading(u, num) => Fading(v, num)
  BY <1>1, NoQueryType DEF Fading
<1>7. Carries(u, v, nums, packets)
  BY <1>1, <1>2, <1>4, <1>5, <1>6 DEF Carries
<1> QED
  BY <1>1, <1>7 DEF v

\* A packet comes into the line of a user.
LEMMA AcceptCarries ==
  ASSUME NEW u, GoodUser(u), NEW p \in Packet, NEW nums
  PROVE  LET v == [u EXCEPT !.out = AcceptPacket(u.out, p)]
         IN  /\ Carries(u, v, nums, {p})
             /\ SameQueries(u, v) /\ v.out = AcceptPacket(u.out, p)
<1> DEFINE new == AcceptPacket(u.out, p)
           v == [u EXCEPT !.out = new]
<1>1. GoodOut(new) /\ Waiting(new) \subseteq Waiting(u.out) \cup {p}
  BY AcceptOut DEF GoodUser
<1> HIDE DEF new
<1>2. v \in UserRecord /\ v.out = new /\ SameQueries(u, v)
  BY <1>1 DEF GoodUser, GoodOut, UserRecord, SameQueries
<1> HIDE DEF v
<1>3. GoodUser(v)
  BY <1>1, <1>2 DEF GoodUser, SameQueries
<1> QED
  BY <1>1, <1>2, <1>3, SameQueriesCarry DEF v, new

\* The data of a query changes nothing but inpacket and what is written.
LEMMA ReceiveCarries ==
  ASSUME NEW u, GoodUser(u), NEW qry \in QueryRecord, NEW nums, NEW packets
  PROVE  LET v == ReceiveUpstream(u, qry)
         IN  Carries(u, v, nums, packets) /\ SameQueries(u, v) /\ v.out = u.out
<1> DEFINE kept == IF SameUpstream(u, qry.up) THEN u.inp.buf ELSE << >>
           inp == [buf |-> kept \o qry.data, seqno |-> qry.up.seqno,
                   fragment |-> qry.up.fragment]
           r == [u EXCEPT !.inp = inp]
           v == ReceiveUpstream(u, qry)
<1>1. /\ qry.data \in Seq(Cells) /\ qry.up.seqno \in Seqnos
      /\ qry.up.fragment \in FragNos /\ u.inp.buf \in Seq(Cells)
  BY DEF QueryRecord, Headers, GoodUser, UserRecord
<1>2. kept \o qry.data \in Seq(Cells)
  <2>1. << >> \in Seq(Cells)
    OBVIOUS
  <2>2. kept \in Seq(Cells)
    BY <1>1, <2>1
  <2> QED
    BY <1>1, <2>2
<1>3. inp \in [buf : Seq(Cells), seqno : Seqnos, fragment : FragNos]
  BY <1>1, <1>2
<1>4. /\ r \in UserRecord /\ SameQueries(u, r) /\ r.out = u.out /\ r.inp = inp
  <2> HIDE DEF inp
  <2> QED
    BY <1>3 DEF GoodUser, UserRecord, SameQueries
<1> HIDE DEF r
<1>5. LET w == handle_full_packet(r)
      IN  w \in UserRecord /\ SameQueries(u, w) /\ w.out = u.out
  <2> DEFINE written == IF \E p \in Packet : IsPacket(r.inp.buf, p)
                        THEN Append(r.written, r.inp.buf[1][1])
                        ELSE r.written
             w == [r EXCEPT !.written = written, !.inp.buf = << >>]
  <2>1. r.written \in Seq(Packet)
    BY <1>4 DEF UserRecord
  <2>2. ASSUME NEW p \in Packet, IsPacket(r.inp.buf, p)
        PROVE  r.inp.buf[1][1] \in Packet
    <3>1. PacketLen[p] \in Nat /\ 1 \in 1 .. PacketLen[p]
      BY PacketAssumption
    <3>2. r.inp.buf[1] = << p, 0 + 1 >>
      BY <2>2, <3>1 DEF IsPacket, CellsOf
    <3> QED
      BY <3>2
  <2>3. written \in Seq(Packet)
    BY <2>1, <2>2
  <2>4. << >> \in Seq(Cells)
    OBVIOUS
  <2> HIDE DEF written
  <2>5. w \in UserRecord /\ SameQueries(u, w) /\ w.out = u.out
    BY <1>4, <2>3, <2>4 DEF UserRecord, SameQueries
  <2> QED
    BY <2>5 DEF handle_full_packet, written
<1>6. v = u \/ v = r \/ v = handle_full_packet(r)
  BY DEF ReceiveUpstream, r
<1> HIDE DEF v
<1>7. v \in UserRecord /\ SameQueries(u, v) /\ v.out = u.out
  BY <1>4, <1>5, <1>6 DEF GoodUser, SameQueries
<1>8. GoodUser(v)
  BY <1>7 DEF GoodUser, SameQueries
<1> QED
  BY <1>7, <1>8, SameQueriesCarry DEF v

\* The head of the loop allows the query put off to be answered.
LEMMA LoopHeadCarries ==
  ASSUME NEW u, GoodUser(u), NEW nums, NEW packets
  PROVE  LET v == LoopHead(u)
         IN  /\ Carries(u, v, nums, packets)
             /\ v.q = u.q /\ v.soonq = u.soonq /\ v.out = u.out
             /\ v.lazy = u.lazy /\ v.tx = u.tx /\ ~ v.soonnew
             /\ \A num : InCache(u, num) => InCache(v, num)
<1> DEFINE v == LoopHead(u)
<1>1. /\ v \in UserRecord /\ v.q = u.q /\ v.soonq = u.soonq /\ v.out = u.out
      /\ v.lazy = u.lazy /\ v.cache = u.cache /\ v.qmem = u.qmem
      /\ v.tx = u.tx /\ v.soonnew = FALSE
  BY DEF LoopHead, GoodUser, UserRecord
<1> HIDE DEF v
<1>2. GoodUser(v)
  BY <1>1 DEF GoodUser
<1>3. Remembered(v) = Remembered(u)
  BY <1>1 DEF Remembered
<1>4. \A num, id : InHand(u, num, id) => InHand(v, num, id)
  BY <1>1 DEF InHand, HasCopy
<1>5. \A num : Fading(u, num) => Fading(v, num)
  BY <1>1 DEF Fading
<1>6. Carries(u, v, nums, packets)
  BY <1>1, <1>2, <1>3, <1>4, <1>5 DEF Carries
<1> QED
  BY <1>1, <1>6 DEF v, InCache

-----------------------------------------------------------------------------
(***************************************************************************)
(* The handlers.                                                           *)
(***************************************************************************)
\* A packet that has not gone out at all does not wait beside a held query,
\* and where two queries are held, which are different ones, there is no
\* packet: the send on the one put off might leave a new packet beside the
\* other.
Prompt(u) ==
  /\ Held(u.q) \/ Held(u.soonq) => Begun(u.out)
  /\ Held(u.q) /\ Held(u.soonq) => ~ Sending(u.out) /\ u.q.num # u.soonq.num

LEMMA SendEffect ==
  ASSUME NEW u, GoodUser(u), NEW f \in {"q", "soonq"}, Held(u[f]),
         NEW nums, NEW packets
  PROVE  LET v == SendOn(u, f)
         IN  /\ Carries(u, v, nums, packets) /\ GoodUser(v)
             /\ v.q = IF f = "q" THEN NoQuery ELSE u.q
             /\ v.soonq = IF f = "soonq" THEN NoQuery ELSE u.soonq
             /\ ~ send_chunk_or_dataless(u, f).again => Begun(v.out)
             /\ u.out.filled = 0 => Begun(v.out)
             /\ ~ Sending(u.out) => v.out = u.out
             /\ v.written = u.written /\ v.soonnew = u.soonnew
             /\ InCache(v, u[f].num)
<1> DEFINE v == SendOn(u, f)
           sent == send_next_chunk(u.out, FragSize)
<1>1. Sent(u, f, v) /\ Carries(u, v, nums, packets)
  BY SendUser, SendCarries
<1>2. send_chunk_or_dataless(u, f).again = sent.again
  BY DEF send_chunk_or_dataless
<1>3. /\ ~ Sending(u.out) => sent.out = u.out
      /\ ~ sent.again => Begun(sent.out)
      /\ u.out.filled = 0 => ~ sent.again
  BY SendOut DEF GoodUser
<1> HIDE DEF v, sent
<1>4. v.out = sent.out
  BY <1>1 DEF Sent, sent
<1> QED
  BY <1>1, <1>2, <1>3, <1>4 DEF Sent, v

\* A ping is taken: nothing is lost, and nothing waits that could be sent.
LEMMA PingHandled ==
  ASSUME NEW u, GoodUser(u), NEW qry, NewQuery(qry), NEW packets
  PROVE  LET v == HandlePing(u, qry)
         IN  /\ Carries(u, v, {qry.num}, packets)
             /\ InHand(v, qry.num, qry.id)
             /\ Prompt(v)
<1> DEFINE k == Acknowledge(u, qry.ack)
           a == SendIfHeld(k, "soonq")
           s == send_chunk_or_dataless(a, "q")
           r == IF Held(a.q) THEN s.user ELSE a
           b == [r EXCEPT !.q = qry]
           v == HandlePing(u, qry)
           C(x, y) == Carries(x, y, {qry.num}, packets)
<1>1. qry.ack \in Headers
  BY DEF NewQuery, QueryRecord
<1>2. /\ C(u, k) /\ GoodUser(k) /\ k.q = u.q /\ k.soonq = u.soonq
      /\ ~ Sending(u.out) => k.out = u.out
  BY <1>1, AckCarries DEF Carries, SameQueries
<1> HIDE DEF k
<1>3. /\ C(k, a) /\ GoodUser(a) /\ a.q = u.q /\ ~ Held(a.soonq)
      /\ ~ Sending(k.out) => a.out = k.out
  <2>1. CASE Held(k.soonq)
    <3>1. Held(k["soonq"]) /\ a = SendOn(k, "soonq")
      BY <2>1 DEF SendIfHeld
    <3> HIDE DEF a
    <3> QED
      BY <1>2, <3>1, SendEffect, NoQueryType
  <2>2. CASE ~ Held(k.soonq)
    BY <1>2, <2>2, CarriesSame DEF SendIfHeld
  <2> QED
    BY <2>1, <2>2
<1> HIDE DEF a
<1>4. /\ C(a, r) /\ GoodUser(r) /\ ~ Held(r.q) /\ ~ Held(r.soonq)
      /\ Held(a.q) /\ ~ s.again => Begun(r.out)
  <2>1. CASE Held(a.q)
    <3>1. Held(a["q"]) /\ r = SendOn(a, "q")
      BY <2>1 DEF SendOn
    <3>2. s.again = send_chunk_or_dataless(a, "q").again
      OBVIOUS
    <3> HIDE DEF r, s
    <3> QED
      BY <1>3, <3>1, <3>2, SendEffect, NoQueryType
  <2>2. CASE ~ Held(a.q)
    BY <1>3, <2>2, CarriesSame
  <2> QED
    BY <2>1, <2>2
<1> DEFINE didsend == Held(a.q) /\ ~ s.again
<1>5. v = IF (~ didsend /\ Sending(b.out)) \/ ~ u.lazy THEN SendOn(b, "q") ELSE b
  BY DEF HandlePing, a, k
<1> HIDE DEF r, v, s
<1>6. /\ C(r, b) /\ GoodUser(b) /\ HasCopy(b, qry.num, qry.id)
      /\ Held(b.q) /\ b.soonq = r.soonq /\ b.out = r.out
  BY <1>4, StoreCarries DEF Carries
<1> HIDE DEF b
<1>7. C(u, b) /\ InHand(b, qry.num, qry.id)
  BY <1>2, <1>3, <1>4, <1>6, CarriesTwice DEF InHand
<1>8. CASE v = SendOn(b, "q")
  <2>1. Held(b["q"])
    BY <1>6
  <2>2. C(b, v) /\ v.q = NoQuery /\ v.soonq = b.soonq
    BY <1>6, <1>8, <2>1, SendEffect
  <2>3. Prompt(v)
    BY <1>4, <1>6, <2>2, NoQueryType DEF Prompt
  <2>4. C(u, v) /\ InHand(v, qry.num, qry.id)
    BY <1>7, <2>2, CarriesTwice DEF Carries
  <2> QED
    BY <2>3, <2>4 DEF v
<1>9. CASE v = b /\ ~ (~ didsend /\ Sending(b.out))
  <2>1. Prompt(v)
    BY <1>4, <1>6, <1>9 DEF Prompt, Begun
  <2> QED
    BY <1>7, <1>9, <2>1 DEF v
<1> QED
  BY <1>5, <1>8, <1>9

\* A data query is taken: the same, if nothing waited before.  The query held
\* in lazy mode is another one, or this one would have been recognized.
LEMMA DataHandled ==
  ASSUME NEW u, GoodUser(u), NEW qry, NewQuery(qry), NEW packets,
         u.lazy => u.q.num # qry.num
  PROVE  LET v == HandleData(u, qry)
         IN  /\ Carries(u, v, {qry.num}, packets)
             /\ InHand(v, qry.num, qry.id)
             /\ Prompt(u) => Prompt(v)
<1> DEFINE C(x, y) == Carries(x, y, {qry.num}, packets)
           ok == upstream_ok(u, qry.up)
           k == Acknowledge(u, qry.ack)
           received == ReceiveUpstream(k, qry)
           soon == AnswerPutOff(received)
           a == soon[1]
           early == soon[2]
           Answers == \/ Sending(a.out) /\ ~ early
                      \/ ok /\ ~ qry.last /\ ~ early
                      \/ ~ ok /\ ~ early
                      \/ ~ a.lazy
           roomy == MakeRoom(a, early, ok, qry.last)
           r == roomy[1]
           didsend == roomy[2]
           stored == [r EXCEPT !.q = qry]
           v == HandleData(u, qry)
<1>1. v = AnswerOrKeep(stored, didsend, ok, qry.last)
  BY DEF HandleData
<1>0. roomy = IF ~ Held(a.q) THEN << a, early >>
              ELSE IF Answers THEN SendNow(a, "q")
              ELSE << Postpone(a), TRUE >>
  BY DEF MakeRoom
<1>2. /\ C(u, received) /\ GoodUser(received)
      /\ received.q = u.q /\ received.soonq = u.soonq /\ received.lazy = u.lazy
      /\ ~ Sending(u.out) => received.out = u.out
  <2>1. qry.ack \in Headers /\ qry \in QueryRecord
    BY DEF NewQuery, QueryRecord
  <2>2. /\ C(u, k) /\ GoodUser(k) /\ SameQueries(u, k)
        /\ ~ Sending(u.out) => k.out = u.out
    BY <2>1, AckCarries DEF Carries
  <2> HIDE DEF k
  <2>3. /\ C(k, received) /\ SameQueries(k, received) /\ received.out = k.out
    BY <2>1, <2>2, ReceiveCarries
  <2> HIDE DEF received
  <2> QED
    BY <2>2, <2>3, CarriesTwice DEF Carries, SameQueries
<1> HIDE DEF k, received, v
<1>3. /\ C(received, a) /\ GoodUser(a) /\ a.q = u.q /\ ~ Held(a.soonq)
      /\ a.lazy = u.lazy
      /\ ~ Sending(received.out) => a.out = received.out
      /\ early => Begun(a.out) /\ Held(u.soonq)
  <2>1. CASE Held(received.soonq)
    <3>1. /\ Held(received["soonq"]) /\ a = SendOn(received, "soonq")
          /\ early = ~ send_chunk_or_dataless(received, "soonq").again
      BY <2>1 DEF SendOn, SendNow, AnswerPutOff
    <3> HIDE DEF a, early
    <3> QED
      BY <1>2, <2>1, <3>1, SendEffect, NoQueryType DEF Carries
  <2>2. CASE ~ Held(received.soonq)
    <3>1. a = received /\ early = FALSE
      BY <2>2 DEF AnswerPutOff
    <3> QED
      BY <1>2, <2>2, <3>1, CarriesSame
  <2> QED
    BY <2>1, <2>2
<1>4. C(u, a)
  BY <1>2, <1>3, CarriesTwice
<1> HIDE DEF a, early, soon, roomy
<1>5. /\ C(a, r) /\ GoodUser(r) /\ ~ Held(r.q) /\ r.lazy = u.lazy
      /\ didsend /\ ~ Held(r.soonq) => Begun(r.out)
      /\ Held(r.soonq) => /\ didsend /\ u.lazy /\ r.soonq.num # qry.num
                          /\ Held(a.q) /\ r.out = a.out
                          /\ Sending(a.out) => early
  <2>1. CASE ~ Held(a.q)
    <3>1. r = a /\ didsend = early
      BY <1>0, <2>1
    <3> QED
      BY <1>3, <2>1, <3>1, CarriesSame
  <2>2. CASE Held(a.q) /\ Answers
    <3>1. /\ Held(a["q"]) /\ r = SendOn(a, "q")
          /\ didsend = ~ send_chunk_or_dataless(a, "q").again
      BY <1>0, <2>2 DEF SendOn, SendNow
    <3> HIDE DEF r, didsend
    <3> QED
      BY <1>3, <3>1, SendEffect, NoQueryType DEF Carries
  <2>3. CASE Held(a.q) /\ ~ Answers
    <3>1. r = Postpone(a) /\ didsend
      BY <1>0, <2>3
    <3> HIDE DEF r, didsend
    <3>2. /\ C(a, r) /\ r.q = NoQuery /\ r.soonq = a.q /\ r.out = a.out
      BY <1>3, <3>1, PostponeCarries
    <3>3. u.lazy /\ (Sending(a.out) => early)
      BY <1>3, <2>3
    <3> QED
      BY <1>3, <2>3, <3>1, <3>2, <3>3, NoQueryType DEF Carries
  <2> QED
    BY <2>1, <2>2, <2>3
<1> HIDE DEF r, didsend
<1>6. /\ C(r, stored) /\ GoodUser(stored) /\ HasCopy(stored, qry.num, qry.id)
      /\ Held(stored.q) /\ stored.q = qry /\ stored.soonq = r.soonq
      /\ stored.out = r.out /\ stored.lazy = u.lazy
  BY <1>5, StoreCarries DEF Carries
<1> HIDE DEF stored
<1>7. C(u, stored) /\ InHand(stored, qry.num, qry.id)
  BY <1>4, <1>5, <1>6, CarriesTwice DEF InHand
\* Beside a query put off there is no packet.
<1>8. Prompt(u) /\ Held(r.soonq) => ~ Sending(stored.out)
  <2> SUFFICES ASSUME Prompt(u), Held(r.soonq) PROVE ~ Sending(stored.out)
    OBVIOUS
  <2>1. Held(u.q) /\ (Sending(a.out) => early)
    BY <1>3, <1>5
  <2>2. CASE early
    <3>1. ~ Sending(u.out)
      BY <1>3, <2>1, <2>2 DEF Prompt
    <3> QED
      BY <1>2, <1>3, <1>5, <1>6, <3>1
  <2>3. CASE ~ early
    BY <1>5, <1>6, <2>1, <2>3
  <2> QED
    BY <2>2, <2>3
<1>9. CASE v = SendOn(stored, "q")
  <2>1. Held(stored["q"])
    BY <1>6
  <2>2. /\ C(stored, v) /\ v.q = NoQuery /\ v.soonq = stored.soonq
        /\ ~ Sending(stored.out) => v.out = stored.out
    BY <1>6, <1>9, <2>1, SendEffect
  <2>3. Prompt(u) => Prompt(v)
    BY <1>6, <1>8, <2>2, NoQueryType DEF Prompt, Begun
  <2>4. C(u, v) /\ InHand(v, qry.num, qry.id)
    BY <1>7, <2>2, CarriesTwice DEF Carries
  <2> QED
    BY <2>3, <2>4 DEF v
<1>10. CASE v = stored /\ didsend /\ stored.lazy
  <2>1. Prompt(u) => Prompt(v)
    BY <1>5, <1>6, <1>8, <1>10 DEF Prompt, Begun
  <2> QED
    BY <1>7, <1>10, <2>1 DEF v
<1>11. CASE /\ v = Postpone(stored)
            /\ ~ (Sending(stored.out) /\ ~ didsend) /\ ~ (didsend /\ stored.lazy)
  <2>1. ~ Held(stored.soonq)
    BY <1>5, <1>6, <1>11
  <2>2. C(stored, v) /\ v.q = NoQuery /\ v.soonq = qry /\ v.out = stored.out
    BY <1>6, <1>11, <2>1, PostponeCarries
  <2>3. Begun(v.out)
    BY <1>5, <1>6, <1>11, <2>1, <2>2 DEF Begun
  <2>4. Prompt(v)
    BY <2>2, <2>3, NoQueryType DEF Prompt
  <2>5. C(u, v) /\ InHand(v, qry.num, qry.id)
    BY <1>7, <2>2, CarriesTwice DEF Carries
  <2> QED
    BY <2>4, <2>5 DEF v
<1> QED
  BY <1>1, <1>9, <1>10, <1>11 DEF AnswerOrKeep

\* A packet is taken: it goes out on a query at hand, if there is no other.
LEMMA PacketHandled ==
  ASSUME NEW u, GoodUser(u), NEW p \in Packet, NEW nums
  PROVE  LET v == iodined_tunnel_tun(u, p)
         IN  /\ Carries(u, v, nums, {p})
             /\ Prompt(u) => Prompt(v)
             /\ v.soonnew = u.soonnew
             /\ v.soonq = u.soonq \/ InCache(v, u.soonq.num)
             /\ v.q \in {u.q, NoQuery} /\ v.soonq \in {u.soonq, NoQuery}
<1> DEFINE started == [u EXCEPT !.out = AcceptPacket(u.out, p)]
           f == IF Held(u.soonq) THEN "soonq" ELSE "q"
           v == iodined_tunnel_tun(u, p)
<1>1. /\ Carries(u, started, nums, {p}) /\ GoodUser(started)
      /\ SameQueries(u, started) /\ started.out = AcceptPacket(u.out, p)
  BY AcceptCarries DEF Carries
<1>2. /\ Sending(started.out)
      /\ Sending(u.out) => started.out.resent = u.out.resent
      /\ ~ Sending(u.out) => started.out.filled = 0
  BY <1>1, AcceptOut DEF GoodUser
<1>3. v = IF Sending(u.out) \/ ~ (Held(u.q) \/ Held(u.soonq)) THEN started
          ELSE SendOn(started, f)
  BY DEF iodined_tunnel_tun
<1> HIDE DEF started, v
<1>4. CASE v = started /\ (Sending(u.out) \/ ~ (Held(u.q) \/ Held(u.soonq)))
  <2>1. Prompt(u) => Prompt(v)
    BY <1>1, <1>2, <1>4 DEF Prompt, Begun, SameQueries
  <2> QED
    BY <1>1, <1>4, <2>1 DEF SameQueries, v
<1>5. CASE v = SendOn(started, f) /\ ~ Sending(u.out) /\ (Held(u.q) \/ Held(u.soonq))
  <2>1. f \in {"q", "soonq"} /\ Held(started[f])
    BY <1>1, <1>5 DEF SameQueries
  <2> HIDE DEF f
  <2>2. /\ Carries(started, v, nums, {p})
        /\ v.q = IF f = "q" THEN NoQuery ELSE started.q
        /\ v.soonq = IF f = "soonq" THEN NoQuery ELSE started.soonq
        /\ Begun(v.out) /\ v.soonnew = started.soonnew
        /\ InCache(v, started[f].num)
    BY <1>1, <1>2, <1>5, <2>1, SendEffect
  <2>3. ~ Held(v.soonq)
    BY <1>1, <2>2, NoQueryType DEF f, SameQueries
  <2>4. Prompt(v)
    BY <2>2, <2>3 DEF Prompt
  <2>5. Carries(u, v, nums, {p})
    BY <1>1, <2>2, CarriesTwice
  <2>6. f = "soonq" => InCache(v, u.soonq.num)
    BY <1>1, <2>2 DEF SameQueries
  <2>7. f = "q" => v.soonq = u.soonq
    BY <1>1, <2>2 DEF SameQueries
  <2>8. f = "q" \/ f = "soonq"
    BY DEF f
  <2> QED
    BY <1>1, <2>2, <2>4, <2>5, <2>6, <2>7, <2>8 DEF SameQueries, v
<1> QED
  BY <1>3, <1>4, <1>5

\* The end of the loop answers the query put off, if it is due.
LEMMA LoopEndHandled ==
  ASSUME NEW u, GoodUser(u), NEW nums, NEW packets
  PROVE  LET v == LoopEnd(u)
         IN  /\ Carries(u, v, nums, packets)
             /\ Prompt(u) => Prompt(v)
             /\ \A num : num # 0 /\ Fading(u, num) => v.soonq.num # num
<1>1. CASE Held(u.soonq) /\ ~ u.soonnew
  <2> DEFINE v == SendOn(u, "soonq")
  <2>1. LoopEnd(u) = v /\ Held(u["soonq"])
    BY <1>1 DEF LoopEnd
  <2>2. /\ Carries(u, v, nums, packets) /\ v.q = u.q /\ v.soonq = NoQuery
        /\ ~ Sending(u.out) => v.out = u.out
    BY <2>1, SendEffect
  <2> HIDE DEF v
  <2>3. Prompt(u) => Prompt(v)
    BY <1>1, <2>2, NoQueryType DEF Prompt, Begun
  <2>4. v.soonq.num = 0
    BY <2>2, NoQueryType
  <2> QED
    BY <2>1, <2>2, <2>3, <2>4
<1>2. CASE ~ (Held(u.soonq) /\ ~ u.soonnew)
  <2>1. LoopEnd(u) = u /\ Carries(u, u, nums, packets)
    BY <1>2, CarriesSame DEF LoopEnd
  <2>2. \A num : num # 0 /\ Fading(u, num) => u.soonq.num # num
    BY <1>2, NoQueryType DEF GoodUser, HeldOrNone, Fading
  <2> QED
    BY <2>1, <2>2
<1> QED
  BY <1>1, <1>2

\* A set of natural numbers has a least one.
LEMMA LeastOf ==
  ASSUME NEW T, T \subseteq Nat, T # {}
  PROVE  \E x \in T : \A y \in T : x <= y
<1> DEFINE R == OpToRel(<, Nat)
<1>1. IsWellFoundedOn(R, Nat)
  BY NatLessThanWellFounded
<1>2. \A x, y \in Nat : y < x => << y, x >> \in R
  BY DEF OpToRel
<1> HIDE DEF R
<1>3. PICK x \in T : \A y \in T : ~ (<< y, x >> \in R)
  BY <1>1, WFMin
<1>4. ASSUME NEW y \in T PROVE x <= y
  <2>1. ~ (y < x)
    BY <1>2, <1>3
  <2>2. x \in Int /\ y \in Int
    OBVIOUS
  <2> QED
    BY <2>1, <2>2
<1> QED
  BY <1>4

\* What answer_from_dnscache sends is an answer it has sent before.
LEMMA CacheAnswers ==
  ASSUME NEW u, GoodUser(u), NEW qry, InCache(u, qry.num)
  PROVE  \E body \in BodyRecord :
           /\ \E i \in DOMAIN u.cache :
                u.cache[i].num = qry.num /\ u.cache[i].body = body
           /\ answer_from_dnscache(u, qry) =
                [u EXCEPT !.tx = u.tx \cup {Answer(qry.num, qry.id, body)}]
<1> DEFINE IsFirst(j) == /\ u.cache[j].num = qry.num
                         /\ \A k \in 1 .. j - 1 : u.cache[k].num # qry.num
           T == {j \in DOMAIN u.cache : u.cache[j].num = qry.num}
           i == CHOOSE j \in DOMAIN u.cache : IsFirst(j)
<1>1. u.cache \in Seq(CacheRecord)
  BY DEF GoodUser, UserRecord
<1>2. T \subseteq Nat /\ T # {}
  BY <1>1 DEF InCache
<1>3. PICK j \in T : \A k \in T : j <= k
  <2> HIDE DEF T
  <2> QED
    BY <1>2, LeastOf
<1>4. IsFirst(j) /\ j \in DOMAIN u.cache
  <2>1. ASSUME NEW k \in 1 .. j - 1, u.cache[k].num = qry.num PROVE FALSE
    <3>1. j \in 1 .. Len(u.cache) /\ DOMAIN u.cache = 1 .. Len(u.cache)
          /\ Len(u.cache) \in Nat
      BY <1>1, <1>3
    <3>2. k \in DOMAIN u.cache /\ k < j /\ k \in Int /\ j \in Int
      BY <2>1, <3>1
    <3>3. j <= k
      BY <1>3, <2>1, <3>2
    <3> QED
      BY <3>2, <3>3
  <2> QED
    BY <1>3, <2>1
<1> HIDE DEF IsFirst
<1>5. i \in DOMAIN u.cache /\ IsFirst(i)
  BY <1>4
<1> HIDE DEF i
<1>8. u.cache[i].num = qry.num
  BY <1>5 DEF IsFirst
<1>6. u.cache[i].body \in BodyRecord
  <2>1. i \in 1 .. Len(u.cache)
    BY <1>1, <1>5
  <2>2. u.cache[i] \in CacheRecord
    BY <1>1, <2>1
  <2> QED
    BY <2>2 DEF CacheRecord
<1>7. answer_from_dnscache(u, qry) =
        [u EXCEPT !.tx = u.tx \cup {Answer(qry.num, qry.id, u.cache[i].body)}]
  BY DEF answer_from_dnscache, i, IsFirst
<1> QED
  BY <1>5, <1>6, <1>7, <1>8

\* A query seen before is answered again, or its copy is kept; then only
\* another copy of the same query may go.
LEMMA DuplicateHandled ==
  ASSUME NEW u, GoodUser(u), NEW qry, NewQuery(qry), SeenBefore(u, qry)
  PROVE  LET v == HandleDuplicate(u, qry)
         IN  /\ GoodUser(v)
             /\ v.out = u.out /\ v.lazy = u.lazy /\ v.soonnew = u.soonnew
             /\ v.q.num = u.q.num /\ v.soonq.num = u.soonq.num
             /\ Remembered(v) \subseteq Remembered(u)
             /\ Prompt(u) => Prompt(v)
             /\ InHand(v, qry.num, qry.id)
             /\ \A num, id : InHand(u, num, id) =>
                  \/ InHand(v, num, id)
                  \/ num = qry.num /\ IsSecondCopy(u, num, id)
<1> DEFINE v == HandleDuplicate(u, qry)
<1>0. /\ qry.num \in Nat /\ qry.id \in Ids /\ qry.kind \in Kinds
      /\ qry.id # NoId
  BY DEF NewQuery, QueryRecord, Ids, NoId
<1>1. ASSUME NEW body \in BodyRecord,
             v = [u EXCEPT !.tx = u.tx \cup {Answer(qry.num, qry.id, body)}]
      PROVE  /\ GoodUser(v) /\ v.q = u.q /\ v.soonq = u.soonq /\ v.out = u.out
             /\ v.lazy = u.lazy /\ v.soonnew = u.soonnew
             /\ v.cache = u.cache /\ v.qmem = u.qmem
             /\ Answer(qry.num, qry.id, body) \in v.tx /\ u.tx \subseteq v.tx
  <2>1. Answer(qry.num, qry.id, body) \in AnswerRecord
    BY <1>0, <1>1 DEF Answer, AnswerRecord
  <2>2. u.tx \cup {Answer(qry.num, qry.id, body)} \subseteq AnswerRecord
    BY <2>1 DEF GoodUser, UserRecord
  <2> DEFINE tx == u.tx \cup {Answer(qry.num, qry.id, body)}
  <2>3. Answer(qry.num, qry.id, body) \in tx /\ u.tx \subseteq tx
    OBVIOUS
  <2> HIDE DEF tx
  <2>4. v = [u EXCEPT !.tx = tx]
    BY <1>1 DEF tx
  <2> HIDE DEF v
  <2>5. /\ v \in UserRecord /\ v.q = u.q /\ v.soonq = u.soonq /\ v.out = u.out
        /\ v.lazy = u.lazy /\ v.soonnew = u.soonnew /\ v.tx = tx
        /\ v.cache = u.cache /\ v.qmem = u.qmem
    BY <2>2, <2>4 DEF GoodUser, UserRecord, tx
  <2> QED
    BY <2>3, <2>5 DEF GoodUser
<1>2. ASSUME NEW body \in BodyRecord,
             v = [u EXCEPT !.tx = u.tx \cup {Answer(qry.num, qry.id, body)}]
      PROVE  /\ Prompt(u) => Prompt(v)
             /\ Remembered(v) \subseteq Remembered(u)
             /\ InHand(v, qry.num, qry.id)
             /\ \A num, id : InHand(u, num, id) => InHand(v, num, id)
  <2>1. Answer(qry.num, qry.id, body).num = qry.num
        /\ Answer(qry.num, qry.id, body).id = qry.id
    BY DEF Answer
  <2>2. \A num, id : HasCopy(u, num, id) => HasCopy(v, num, id)
    BY <1>1, <1>2 DEF HasCopy
  <2>4. v.q = u.q /\ v.soonq = u.soonq /\ v.cache = u.cache /\ v.qmem = u.qmem
    BY <1>1, <1>2
  <2>3. Remembered(v) = Remembered(u)
    <3> HIDE DEF v
    <3> QED
      BY <2>4 DEF Remembered
  <2> QED
    BY <1>1, <1>2, <2>1, <2>2, <2>3 DEF InHand, Prompt
<1>3. CASE InCache(u, qry.num)
  <2>1. v = answer_from_dnscache(u, qry)
    BY <1>3 DEF HandleDuplicate
  <2>2. PICK body \in BodyRecord :
          v = [u EXCEPT !.tx = u.tx \cup {Answer(qry.num, qry.id, body)}]
    BY <1>3, <2>1, CacheAnswers
  <2> HIDE DEF v
  <2> QED
    BY <1>1, <1>2, <2>2 DEF v
<1>4. CASE ~ InCache(u, qry.num) /\ InQmem(u, qry)
  <2>1. v = [u EXCEPT !.tx = u.tx \cup {Answer(qry.num, qry.id, QmemBody)}]
    BY <1>4 DEF HandleDuplicate, answer_from_qmem
  <2>2. QmemBody \in BodyRecord
    <3>1. << >> \in Seq(Cells) /\ NoHeader \in Headers
      BY DEF NoHeader, Headers
    <3> QED
      BY <3>1 DEF QmemBody, BodyRecord
  <2> HIDE DEF v
  <2> QED
    BY <1>1, <1>2, <2>1, <2>2 DEF v
<1>5. CASE ~ InCache(u, qry.num) /\ ~ InQmem(u, qry)
  <2> DEFINE f == IF IsDuplicateOf(qry, u.q) /\ u.lazy THEN "q" ELSE "soonq"
             new == [u[f] EXCEPT !.id2 = qry.id]
  <2>1. /\ f \in {"q", "soonq"} /\ Held(u[f]) /\ u[f].num = qry.num
        /\ u[f] \in QueryRecord
    BY <1>5 DEF SeenBefore, IsDuplicateOf, GoodUser, UserRecord
  <2>2. v = IF f = "q" THEN [u EXCEPT !.q = new] ELSE [u EXCEPT !.soonq = new]
    BY <1>5 DEF HandleDuplicate, GoodUser, UserRecord
  <2> HIDE DEF f, v
  <2>3. /\ new \in QueryRecord /\ new.num = qry.num /\ new.id2 = qry.id
        /\ new.id = u[f].id /\ Held(new)
    BY <1>0, <2>1 DEF QueryRecord, Held
  <2> HIDE DEF new
  <2>4. /\ v.q = IF f = "q" THEN new ELSE u.q
        /\ v.soonq = IF f = "soonq" THEN new ELSE u.soonq
        /\ v.out = u.out /\ v.lazy = u.lazy /\ v.soonnew = u.soonnew
        /\ v.tx = u.tx /\ v \in UserRecord
        /\ v.cache = u.cache /\ v.qmem = u.qmem
    BY <2>1, <2>2, <2>3 DEF GoodUser, UserRecord
  <2>5. qry.num # 0
    BY DEF NewQuery
  <2>6. GoodUser(v)
    BY <2>3, <2>4, <2>5 DEF GoodUser, HeldOrNone
  <2>0. f = "q" \/ f = "soonq"
    BY <2>1
  <2>7. /\ v.q.num = u.q.num /\ v.soonq.num = u.soonq.num
        /\ Held(v.q) <=> Held(u.q)
        /\ Held(v.soonq) <=> Held(u.soonq)
    BY <2>0, <2>1, <2>3, <2>4
  <2>8. Prompt(u) => Prompt(v)
    BY <2>4, <2>7 DEF Prompt
  <2>9. HasCopy(v, qry.num, qry.id)
    BY <1>0, <2>1, <2>3, <2>4 DEF HasCopy
  <2>10. ASSUME NEW num, NEW id, InHand(u, num, id),
                num = qry.num => ~ IsSecondCopy(u, num, id)
         PROVE  InHand(v, num, id)
    <3>1. CASE \E a \in u.tx : a.num = num /\ a.id = id
      BY <2>4, <3>1 DEF InHand
    <3>2. ASSUME NEW g \in {"q", "soonq"},
                 u[g].num = num, id \in {u[g].id, u[g].id2} \ {NoId}
          PROVE  InHand(v, num, id)
      <4>1. CASE v[g] = u[g]
        BY <3>2, <4>1 DEF InHand, HasCopy
      <4>2. CASE v[g] # u[g]
        <5>1. g = f /\ v[g] = new /\ new.num = num
          BY <2>0, <2>1, <2>3, <2>4, <3>2, <4>2
        <5>2. id = u[g].id
          BY <2>1, <2>10, <3>2, <5>1 DEF IsSecondCopy
        <5> QED
          BY <2>3, <3>2, <5>1, <5>2 DEF InHand, HasCopy
      <4> QED
        BY <4>1, <4>2
    <3> QED
      BY <2>10, <3>1, <3>2 DEF InHand, HasCopy
  <2>11. Remembered(v) \subseteq Remembered(u)
    <3>1. \A g \in {"q", "soonq"} : Held(v[g]) => v[g].num \in Remembered(u)
      BY <2>7, RememberedIs
    <3>2. /\ \A k \in DOMAIN v.cache : v.cache[k].num \in Remembered(u)
          /\ \A kind \in Kinds : \A k \in DOMAIN v.qmem[kind] :
               v.qmem[kind][k] \in Remembered(u)
      BY <2>4, RememberedIs
    <3> QED
      BY <3>1, <3>2, RememberedIs
  <2> QED
    BY <2>4, <2>6, <2>7, <2>8, <2>9, <2>10, <2>11 DEF InHand, v
<1> QED
  BY <1>3, <1>4, <1>5

\* iodined_tunnel_dns: the query is answered or kept, and no other is lost
\* but an older copy of a repeated one.
LEMMA DnsHandled ==
  ASSUME NEW u, GoodUser(u), NEW qry, NewQuery(qry)
  PROVE  LET v == iodined_tunnel_dns(u, qry)
         IN  /\ GoodUser(v) /\ v.lazy = u.lazy
             /\ Waiting(v.out) \subseteq Waiting(u.out)
             /\ Remembered(v) \subseteq Remembered(u) \cup {qry.num}
             /\ Prompt(u) => Prompt(v)
             /\ InHand(v, qry.num, qry.id)
             /\ \A num, id : InHand(u, num, id) =>
                  \/ InHand(v, num, id)
                  \/ num = qry.num /\ IsSecondCopy(u, num, id)
             /\ \A num \in Nat \ {0} :
                  Fading(u, num) /\ (num = qry.num => SeenBefore(u, qry)) =>
                    Fading(v, num)
<1>1. CASE SeenBefore(u, qry)
  BY <1>1, DuplicateHandled DEF iodined_tunnel_dns, Fading
<1>2. CASE ~ SeenBefore(u, qry) /\ qry.kind = "ping"
  <2> DEFINE v == HandlePing(u, qry)
  <2>1. Carries(u, v, {qry.num}, {}) /\ InHand(v, qry.num, qry.id) /\ Prompt(v)
    BY PingHandled
  <2>2. iodined_tunnel_dns(u, qry) = v
    BY <1>2 DEF iodined_tunnel_dns
  <2> HIDE DEF v
  <2>3. \A num, id : InHand(u, num, id) => InHand(v, num, id)
    BY <2>1 DEF Carries
  <2>4. \A num \in Nat \ {0, qry.num} : Fading(u, num) => Fading(v, num)
    BY <2>1 DEF Carries
  <2>5. \A num \in Nat \ {0} :
          Fading(u, num) /\ (num = qry.num => SeenBefore(u, qry)) => Fading(v, num)
    BY <1>2, <2>4
  <2> QED
    BY <2>1, <2>2, <2>3, <2>5 DEF Carries
<1>3. CASE ~ SeenBefore(u, qry) /\ qry.kind # "ping"
  <2> DEFINE v == HandleData(u, qry)
  <2>1. u.lazy => u.q.num # qry.num
    BY <1>3, NoQueryType DEF SeenBefore, IsDuplicateOf, NewQuery, GoodUser, HeldOrNone
  <2>2. /\ Carries(u, v, {qry.num}, {}) /\ InHand(v, qry.num, qry.id)
        /\ Prompt(u) => Prompt(v)
    BY <2>1, DataHandled
  <2>3. iodined_tunnel_dns(u, qry) = v
    BY <1>3 DEF iodined_tunnel_dns
  <2> HIDE DEF v
  <2>4. \A num, id : InHand(u, num, id) => InHand(v, num, id)
    BY <2>2 DEF Carries
  <2>5. \A num \in Nat \ {0, qry.num} : Fading(u, num) => Fading(v, num)
    BY <2>2 DEF Carries
  <2>6. \A num \in Nat \ {0} :
          Fading(u, num) /\ (num = qry.num => SeenBefore(u, qry)) => Fading(v, num)
    BY <1>3, <2>5
  <2> QED
    BY <2>2, <2>3, <2>4, <2>6 DEF Carries
<1> QED
  BY <1>1, <1>2, <1>3

\* The record of a user who has just logged in
LEMMA FreshUserGood ==
  ASSUME NEW lazy \in BOOLEAN
  PROVE  LET u == FreshUser(lazy)
         IN  /\ GoodUser(u) /\ u.tx = {} /\ u.lazy = lazy
             /\ Prompt(u) /\ Waiting(u.out) = {} /\ Remembered(u) = {}
<1> DEFINE u == FreshUser(lazy)
<1>1. << >> \in Seq(Cells) /\ << >> \in Seq(CacheRecord) /\ << >> \in Seq(Packet)
  OBVIOUS
<1>2. [kind \in Kinds |-> << >>] \in [Kinds -> Seq(Nat)]
  OBVIOUS
<1>3. EmptyOut \in OutRecord /\ GoodOut(EmptyOut) /\ ~ Sending(EmptyOut)
  BY EmptyGood DEF GoodOut, EmptyOut, Sending
<1>4. /\ u.out = EmptyOut /\ u.q = NoQuery /\ u.soonq = NoQuery /\ u.tx = {}
      /\ u.cache = << >> /\ u.qmem = [kind \in Kinds |-> << >>] /\ u.lazy = lazy
  BY DEF FreshUser
<1>5. u \in UserRecord
  BY <1>1, <1>2, <1>3, NoQueryType DEF FreshUser, UserRecord
<1> HIDE DEF u
<1>6. GoodUser(u) /\ Prompt(u)
  BY <1>3, <1>4, <1>5, NoQueryType DEF GoodUser, HeldOrNone, Prompt, Begun
<1>7. Waiting(u.out) = {}
  BY <1>4 DEF Waiting, EmptyOut
<1>8. Remembered(u) \subseteq {}
  <2>1. \A g \in {"q", "soonq"} : ~ Held(u[g])
    BY <1>4, NoQueryType
  <2>2. DOMAIN u.cache = {} /\ \A kind \in Kinds : DOMAIN u.qmem[kind] = {}
    BY <1>4
  <2> QED
    BY <2>1, <2>2, RememberedIs
<1> QED
  BY <1>4, <1>6, <1>7, <1>8 DEF u

-----------------------------------------------------------------------------
(***************************************************************************)
(* The encoders: what is decoded is what was encoded, for every codec, room*)
(* and data.                                                               *)
(***************************************************************************)
\* The characters of a size stand for its bytes and less than one more.
LEMMA CharsBounds ==
  ASSUME NEW bits \in 5 .. 7, NEW n \in Nat
  PROVE  /\ Chars(bits, n) \in Nat
         /\ 8 * n <= Chars(bits, n) * bits
         /\ Chars(bits, n) * bits < 8 * n + bits
<1>1. CASE bits = 5
  BY <1>1 DEF Chars
<1>2. CASE bits = 6
  BY <1>2 DEF Chars
<1>3. CASE bits = 7
  BY <1>3 DEF Chars
<1> QED
  BY <1>1, <1>2, <1>3

\* What encode says it has used is what decode makes of the text; it fits
\* the room, and is no more than there was.
THEOREM CountsAgree ==
  ASSUME NEW bits \in 5 .. 7, NEW room \in Nat, NEW n \in Nat
  PROVE  /\ EncodedLen(bits, room, n) \in 0 .. room
         /\ DecodedLen(bits, EncodedLen(bits, room, n)) = Consumed(bits, room, n)
         /\ Consumed(bits, room, n) \in 0 .. n
<1> DEFINE full == Chars(bits, n)
<1>1. /\ full \in Nat
      /\ 8 * n <= full * bits
      /\ full * bits < 8 * n + bits
  BY CharsBounds
<1>2. CASE full <= room
  <2>1. DecodedLen(bits, full) = n
    <3> HIDE DEF full
    <3>1. CASE bits = 5
      BY <1>1, <3>1 DEF DecodedLen
    <3>2. CASE bits = 6
      BY <1>1, <3>2 DEF DecodedLen
    <3>3. CASE bits = 7
      BY <1>1, <3>3 DEF DecodedLen
    <3> QED
      BY <3>1, <3>2, <3>3
  <2> QED
    BY <1>1, <1>2, <2>1 DEF EncodedLen, Consumed
<1>3. CASE ~ (full <= room)
  <2> DEFINE len == EncodedLen(bits, room, n)
  <2>1. len \in 0 .. room
    <3>1. CASE bits = 5
      BY <1>1, <1>3, <3>1 DEF EncodedLen
    <3>2. CASE bits = 6
      BY <1>1, <1>3, <3>2 DEF EncodedLen
    <3>3. CASE bits = 7
      BY <1>1, <1>3, <3>3 DEF EncodedLen
    <3> QED
      BY <3>1, <3>2, <3>3
  <2>2. Consumed(bits, room, n) = DecodedLen(bits, len)
    BY <1>3 DEF Consumed
  <2>3. DecodedLen(bits, len) \in 0 .. n
    <3>1. len < full
      BY <1>1, <1>3, <2>1
    <3> HIDE DEF len, full
    <3>2. CASE bits = 5
      BY <1>1, <2>1, <3>1, <3>2 DEF DecodedLen
    <3>3. CASE bits = 6
      BY <1>1, <2>1, <3>1, <3>3 DEF DecodedLen
    <3>4. CASE bits = 7
      BY <1>1, <2>1, <3>1, <3>4 DEF DecodedLen
    <3> QED
      BY <3>2, <3>3, <3>4
  <2> QED
    BY <2>1, <2>2, <2>3
<1> QED
  BY <1>2, <1>3

\* A bit is found again in the character that holds it.
LEMMA BitIsFound ==
  ASSUME NEW bits \in 5 .. 7, NEW len \in Nat, NEW p \in 1 .. 8 * DecodedLen(bits, len)
  PROVE  /\ ((p - 1) \div bits) + 1 \in 1 .. len
         /\ ((p - 1) % bits) + 1 \in 1 .. bits
         /\ (((p - 1) \div bits) + 1 - 1) * bits + ((p - 1) % bits) + 1 = p
<1>1. CASE bits = 5
  BY <1>1 DEF DecodedLen
<1>2. CASE bits = 6
  BY <1>2 DEF DecodedLen
<1>3. CASE bits = 7
  BY <1>3 DEF DecodedLen
<1> QED
  BY <1>1, <1>2, <1>3

\* The client and iodined read what the other has encoded, as far as it says
\* it has: no codec loses, adds or moves a bit where data is cut to fit.
THEOREM DecodeUndoesEncode ==
  ASSUME NEW S, NEW n \in Nat, NEW data \in [1 .. 8 * n -> S],
         NEW bits \in 5 .. 7, NEW room \in Nat
  PROVE  Decode(bits, Encode(bits, room, data)) =
           SubSeq(data, 1, 8 * Consumed(bits, room, n))
<1> DEFINE len == EncodedLen(bits, room, n)
           used == Consumed(bits, room, n)
           Bit(p) == IF p <= 8 * n THEN data[p] ELSE Pad
           Char(k) == [j \in 1 .. bits |-> Bit((k - 1) * bits + j)]
           text == [k \in 1 .. len |-> Char(k)]
<1>1. /\ len \in Nat
      /\ DecodedLen(bits, len) = used
      /\ used \in 0 .. n
  <2>1. EncodedLen(bits, room, n) \in 0 .. room
    BY CountsAgree
  <2>2. DecodedLen(bits, EncodedLen(bits, room, n)) = Consumed(bits, room, n)
    BY CountsAgree
  <2>3. Consumed(bits, room, n) \in 0 .. n
    BY CountsAgree
  <2> QED
    BY <2>1, <2>2, <2>3
<1>2. Len(data) = 8 * n /\ (8 * n) \div 8 = n
  OBVIOUS
<1>3. Encode(bits, room, data) = text
  BY <1>2 DEF Encode
<1>4. Len(text) = len
  BY <1>1
<1>5. ASSUME NEW p \in 1 .. 8 * used
      PROVE  BitOf(bits, text[((p - 1) \div bits) + 1], ((p - 1) % bits) + 1) = data[p]
  <2> DEFINE k == ((p - 1) \div bits) + 1
             j == ((p - 1) % bits) + 1
  <2>1. k \in 1 .. len /\ j \in 1 .. bits /\ (k - 1) * bits + j = p
    <3>1. p \in 1 .. 8 * DecodedLen(bits, len)
      BY <1>1
    <3> HIDE DEF len
    <3> QED
      BY <1>1, <3>1, BitIsFound
  <2> HIDE DEF k, j, len
  <2>2. text[k] = Char(k)
    BY <2>1
  <2>3. Len(Char(k)) = bits
    OBVIOUS
  <2>4. Char(k)[j] = Bit(p)
    BY <2>1
  <2>5. Bit(p) = data[p]
    BY <1>1
  <2> QED
    BY <2>2, <2>3, <2>4, <2>5 DEF BitOf, k, j
<1>6. Decode(bits, text) = [p \in 1 .. 8 * used |-> data[p]]
  <2> HIDE DEF text, used, len
  <2> QED
    BY <1>1, <1>4, <1>5 DEF Decode
<1>7. SubSeq(data, 1, 8 * used) = [p \in 1 .. 8 * used |-> data[p]]
  <2> HIDE DEF used
  <2> QED
    BY <1>1, <1>2
<1> QED
  BY <1>3, <1>6, <1>7
=============================================================================
