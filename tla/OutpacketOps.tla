---------------------------- MODULE OutpacketOps ----------------------------
(***************************************************************************)
(* The downstream half of one user of iodined: the packet being sent       *)
(* (users[].outpacket, .outfragresent) and the ring of packets waiting     *)
(* behind it (users[].outpacketq, _nexttouse, _filled).                    *)
(*                                                                         *)
(* The functions of iodined.c are operators from a record to a record, so  *)
(* that a handler is their composition.  Outpacket checks them on their    *)
(* own, IodinedUser builds the handlers of the server on them.             *)
(***************************************************************************)
EXTENDS Seqno, Sequences

CONSTANTS
  Packet,        \* compressed packets, as read from tun or from another user
  PacketLen,     \* their length in bytes
  NoPacket,      \* outpacket.len = 0
  QueueLen,      \* OUTPACKETQ_LEN
  ResendLimit,   \* the 5 of send_chunk_or_dataless
  FragSizes      \* the values users[].fragsize may take, at most the 4094
                 \* bytes of data the reply buffer of the code holds

ASSUME PacketAssumption ==
  /\ PacketLen \in [Packet -> Nat \ {0}]
  /\ NoPacket \notin Packet
ASSUME LimitAssumption ==
  /\ QueueLen \in Nat \ {0}
  /\ ResendLimit \in Nat
  /\ FragSizes \subseteq Nat \ {0}

-----------------------------------------------------------------------------
(***************************************************************************)
(* One user's outpacket and its queue.  The length of the packet is that   *)
(* of "pkt"; the code's len = 0 is pkt = NoPacket.                         *)
(***************************************************************************)
Slots == 0 .. QueueLen - 1

OutRecord ==
  [pkt      : Packet \cup {NoPacket},
   offset   : Nat,
   sentlen  : Nat,
   seqno    : Seqnos,
   fragment : Nat,
   resent   : Nat,                              \* outfragresent
   ring     : [Slots -> Packet \cup {NoPacket}],  \* outpacketq
   use      : Slots,                            \* outpacketq_nexttouse
   filled   : 0 .. QueueLen]                    \* outpacketq_filled

\* As handle_null_request leaves it after a successful version handshake.
EmptyOut ==
  [pkt |-> NoPacket, offset |-> 0, sentlen |-> 0, seqno |-> 0,
   fragment |-> 0, resent |-> 0,
   ring |-> [i \in Slots |-> NoPacket], use |-> 0, filled |-> 0]

Sending(o) == o.pkt # NoPacket

\* A step starts two packets at most, so the number tells them apart.
SamePacket(x, y) == Sending(x) /\ Sending(y) /\ x.seqno = y.seqno

\* "fill -= OUTPACKETQ_LEN": an index of the ring, one turn too far at most
Wrap(i) == IF i >= QueueLen THEN i - QueueLen ELSE i

start_new_outpacket(o, p) ==
  [o EXCEPT !.pkt = p, !.offset = 0, !.sentlen = 0,
            !.seqno = NextSeqno(o.seqno), !.fragment = 0, !.resent = 0]

\* Wrong: the fullness test is off by one.
save_to_outpacketq_OneTooMany(o, p) ==
  IF o.filled > QueueLen
  THEN o
  ELSE [o EXCEPT !.ring = [o.ring EXCEPT ![Wrap(o.use + o.filled)] = p],
                 !.filled = o.filled + 1]

save_to_outpacketq(o, p) ==
  IF o.filled >= QueueLen
  THEN o
  ELSE [o EXCEPT !.ring = [o.ring EXCEPT ![Wrap(o.use + o.filled)] = p],
                 !.filled = o.filled + 1]

\* Wrong: nexttouse stays where it is.
get_from_outpacketq_NotAdvanced(o) ==
  IF o.filled = 0
  THEN o
  ELSE [start_new_outpacket(o, o.ring[o.use]) EXCEPT !.filled = o.filled - 1]

get_from_outpacketq(o) ==
  IF o.filled = 0
  THEN o
  ELSE [start_new_outpacket(o, o.ring[o.use])
          EXCEPT !.use = Wrap(o.use + 1), !.filled = o.filled - 1]

\* outpacket.len = .offset = .sentlen = 0, outfragresent = 0
ForgetPacket(o) ==
  [o EXCEPT !.pkt = NoPacket, !.offset = 0, !.sentlen = 0, !.resent = 0]

\* tunnel_tun and handle_full_packet: queue behind a packet, else start
AcceptPacket(o, p) ==
  IF Sending(o) THEN save_to_outpacketq(o, p) ELSE start_new_outpacket(o, p)

IsAwaitedAck(o, seq, frag) ==
  /\ Sending(o)
  /\ o.seqno = seq
  /\ o.fragment = frag

\* Wrong: sentlen is not reset, so that the next ack counts it again.
process_downstream_ack_SentlenKept(o, seq, frag) ==
  IF ~ IsAwaitedAck(o, seq, frag) THEN o
  ELSE IF o.offset + o.sentlen >= PacketLen[o.pkt]
       THEN get_from_outpacketq(ForgetPacket(o))
       ELSE [o EXCEPT !.offset = o.offset + o.sentlen,
                      !.fragment = o.fragment + 1, !.resent = 0]

process_downstream_ack(o, seq, frag) ==
  IF ~ IsAwaitedAck(o, seq, frag) THEN o
  ELSE IF o.offset + o.sentlen >= PacketLen[o.pkt]
       THEN get_from_outpacketq(ForgetPacket(o))
       ELSE [o EXCEPT !.offset = o.offset + o.sentlen, !.sentlen = 0,
                      !.fragment = o.fragment + 1, !.resent = 0]

\* The packets in line: the current one and those in the ring
Waiting(o) ==
  ({o.pkt} \ {NoPacket})
    \cup {o.ring[Wrap(o.use + k)] : k \in 0 .. o.filled - 1}

-----------------------------------------------------------------------------
(***************************************************************************)
(* send_chunk_or_dataless, as far as the outpacket goes, in the order of   *)
(* the code: give a packet up, cut the next chunk, and after sending       *)
(* forget a packet that went out whole.                                    *)
(***************************************************************************)
DropIfResentTooOften(o) ==
  IF Sending(o) /\ o.resent > ResendLimit
  THEN get_from_outpacketq(ForgetPacket(o))
  ELSE o

Smaller(a, b) == IF a <= b THEN a ELSE b

DataLen(o, fragsize) ==
  IF Sending(o) THEN Smaller(fragsize, PacketLen[o.pkt] - o.offset) ELSE 0

\* Wrong: the transmission is not counted.
CutChunk_NotCounted(o, fragsize) ==
  IF Sending(o) THEN [o EXCEPT !.sentlen = DataLen(o, fragsize)] ELSE o

CutChunk(o, fragsize) ==
  IF Sending(o)
  THEN [o EXCEPT !.sentlen = DataLen(o, fragsize), !.resent = o.resent + 1]
  ELSE o

\* What the two header bytes say of the downstream, and the data cut.
ChunkOf(o, fragsize) ==
  [pkt  |-> o.pkt, from |-> o.offset, len |-> DataLen(o, fragsize),
   seqno |-> o.seqno, fragment |-> FragField(o.fragment),
   last |-> Sending(o) /\ o.offset + DataLen(o, fragsize) = PacketLen[o.pkt]]

WentOutWhole(o) == Sending(o) /\ o.sentlen = PacketLen[o.pkt]

\* Wrong: a packet sent in one go is forgotten, the queue is not looked at.
AfterSend_NoRefill(o) == IF WentOutWhole(o) THEN ForgetPacket(o) ELSE o

AfterSend(o) ==
  IF WentOutWhole(o) THEN get_from_outpacketq(ForgetPacket(o)) ELSE o

\* The chunk sent, the record after it, and the value returned.
send_next_chunk(o, fragsize) ==
  LET ready == DropIfResentTooOften(o)
      sent  == CutChunk(ready, fragsize)
  IN  [chunk |-> ChunkOf(ready, fragsize),
       out   |-> AfterSend(sent),
       again |-> WentOutWhole(sent) /\ sent.filled > 0]
=============================================================================
