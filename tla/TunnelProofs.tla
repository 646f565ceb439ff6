---------------------------- MODULE TunnelProofs ----------------------------
(***************************************************************************)
(* The tunnel, for all packets, scenarios, windows, numbers of queries and *)
(* of copies a relay makes.  In three parts:                               *)
(*   - no packet and no query is left waiting by the handlers of the       *)
(*     server, whatever the client and the relays do;                      *)
(*   - the packets to the server: what is acknowledged has arrived, and    *)
(*     what arrives is an IP link's (UpInv);                               *)
(*   - the same of the packets to the client (DownInv).                    *)
(***************************************************************************)
EXTENDS Tunnel, OperatorProofs, SequenceTheorems

USE DEF Seqnos, FragNos, SeqCount, FragCount

-----------------------------------------------------------------------------
(***************************************************************************)
(* The client: that its queries are queries, with headers of three and     *)
(* four bits and data that is there.                                       *)
(***************************************************************************)
ClientRecord ==
  [lazymode : BOOLEAN, num : Nat,
   out : [pkt : Packet \cup {NoPacket}, offset : Nat, sentlen : Nat,
          seqno : Seqnos, fragment : Nat, resent : Nat],
   inp : [buf : Seq(Cells), seqno : Seqnos, fragment : FragNos],
   soon : BOOLEAN, tx : SUBSET QueryRecord, written : Seq(Packet),
   done : SUBSET Packet]

GoodClient(c) ==
  /\ c \in ClientRecord
  /\ is_sending(c) => c.out.offset < PacketLen[c.out.pkt]
  /\ \A qry \in c.tx : NewQuery(qry)

LEMMA FreshClientGood ==
  ASSUME NEW lazymode \in BOOLEAN
  PROVE  GoodClient(FreshClient(lazymode)) /\ FreshClient(lazymode).tx = {}
<1>1. << >> \in Seq(Cells) /\ << >> \in Seq(Packet)
  OBVIOUS
<1> QED
  BY <1>1 DEF GoodClient, ClientRecord, FreshClient, is_sending, Sending

LEMMA SoonGood ==
  ASSUME NEW c, GoodClient(c), NEW soon \in BOOLEAN
  PROVE  GoodClient([c EXCEPT !.soon = soon])
BY DEF GoodClient, ClientRecord, is_sending

LEMMA SendQueryGood ==
  ASSUME NEW c, GoodClient(c), NEW qry, NewQuery(qry)
  PROVE  GoodClient(send_query(c, qry))
<1>1. qry \in QueryRecord
  BY DEF NewQuery
<1> DEFINE tx == c.tx \cup {qry}
<1>2. tx \subseteq QueryRecord /\ \A x \in tx : NewQuery(x)
  BY <1>1 DEF GoodClient, ClientRecord
<1>3. send_query(c, qry) = [c EXCEPT !.num = c.num + 1, !.tx = tx]
  BY DEF send_query
<1> HIDE DEF tx
<1> DEFINE n == c.num + 1
           d == [c EXCEPT !.num = n, !.tx = tx]
<1>0. n \in Nat /\ tx \in SUBSET QueryRecord
  BY <1>2 DEF GoodClient, ClientRecord
<1> HIDE DEF n
<1>4. d \in ClientRecord /\ d.out = c.out /\ d.tx = tx
  BY <1>0 DEF GoodClient, ClientRecord
<1> HIDE DEF d
<1>5. GoodClient(d)
  BY <1>2, <1>4 DEF GoodClient, is_sending
<1> QED
  BY <1>3, <1>5 DEF d, n

LEMMA ClientHeaders ==
  ASSUME NEW c, GoodClient(c)
  PROVE  Header(c.inp) \in Headers /\ Header(c.out) \in Headers
<1>1. /\ c.inp.seqno \in Seqnos /\ c.inp.fragment \in FragNos
      /\ c.out.seqno \in Seqnos /\ c.out.fragment \in Nat
  BY DEF GoodClient, ClientRecord
<1>2. c.inp.fragment \in Nat
  BY <1>1
<1> QED
  BY <1>1, <1>2, HeaderType

LEMMA SendPingGood ==
  ASSUME NEW c, GoodClient(c)
  PROVE  GoodClient(send_ping(c))
<1> DEFINE qry == Query(c.num + 1, "ping", Header(c.inp), NoHeader, FALSE, << >>)
<1>1. /\ Header(c.inp) \in Headers /\ NoHeader \in Headers
      /\ "ping" \in Kinds /\ << >> \in Seq(Cells)
  BY ClientHeaders DEF NoHeader, Headers, Kinds
<1>2. c.num + 1 \in Nat \ {0}
  BY DEF GoodClient, ClientRecord
<1>3. NewQuery(qry)
  BY <1>1, <1>2, QueryIsNew
<1> HIDE DEF qry
<1> QED
  BY <1>3, SendQueryGood DEF send_ping, qry

LEMMA SendChunkGood ==
  ASSUME NEW c, GoodClient(c), is_sending(c)
  PROVE  GoodClient(send_chunk(c))
<1> DEFINE avail == PacketLen[c.out.pkt] - c.out.offset
           len == Smaller(ChunkLen, avail)
           cut == [c EXCEPT !.out.sentlen = len]
           qry == Query(c.num + 1, "data", Header(c.inp), Header(c.out),
                        len = avail, CellsOf(c.out.pkt, c.out.offset, len))
<1>1. /\ c.out.pkt \in Packet /\ c.out.offset \in Nat
      /\ PacketLen[c.out.pkt] \in Nat /\ avail \in Nat
  BY PacketAssumption DEF GoodClient, ClientRecord, is_sending, Sending
<1>2. len \in Nat /\ c.out.offset + len <= PacketLen[c.out.pkt]
  BY <1>1, ClientAssumption DEF Smaller
<1>3. CellsOf(c.out.pkt, c.out.offset, len) \in Seq(Cells)
  BY <1>1, <1>2, CellsType
<1>4. /\ Header(c.inp) \in Headers /\ Header(c.out) \in Headers
      /\ "data" \in Kinds /\ c.num + 1 \in Nat \ {0} /\ (len = avail) \in BOOLEAN
  BY ClientHeaders DEF GoodClient, ClientRecord, Kinds
<1>5. NewQuery(qry)
  BY <1>3, <1>4, QueryIsNew
<1> HIDE DEF len
<1>6. GoodClient(cut)
  BY <1>2 DEF GoodClient, ClientRecord, is_sending, Sending
<1>7. send_chunk(c) = send_query(cut, qry)
  BY DEF send_chunk, len
<1> HIDE DEF cut, qry
<1> QED
  BY <1>5, <1>6, <1>7, SendQueryGood

LEMMA ForgetGood ==
  ASSUME NEW c, GoodClient(c), NEW done, done \subseteq Packet
  PROVE  /\ GoodClient(ForgetOutpkt(c))
         /\ GoodClient([ForgetOutpkt(c) EXCEPT !.done = done])
BY DEF GoodClient, ClientRecord, is_sending, Sending, ForgetOutpkt

LEMMA ClientTunGood ==
  ASSUME NEW c, GoodClient(c), NEW p \in Packet
  PROVE  GoodClient(client_tunnel_tun(c, p))
<1> DEFINE out == [pkt |-> p, offset |-> 0, sentlen |-> 0,
                   seqno |-> NextSeqno(c.out.seqno), fragment |-> 0,
                   resent |-> 0]
           started == [c EXCEPT !.out = out]
<1>1. NextSeqno(c.out.seqno) \in Seqnos
  BY NextSeqnoType DEF GoodClient, ClientRecord
<1>2. PacketLen[p] > 0
  BY PacketAssumption
<1>3. GoodClient(started) /\ is_sending(started)
  BY <1>1, <1>2, PacketAssumption DEF GoodClient, ClientRecord, is_sending, Sending
<1> HIDE DEF started
<1>4. GoodClient(send_chunk(started))
  BY <1>3, SendChunkGood
<1> QED
  BY <1>4, SoonGood DEF client_tunnel_tun, NoPing, started

LEMMA TimeoutGood ==
  ASSUME NEW c, GoodClient(c)
  PROVE  GoodClient(Timeout(c))
<1> DEFINE again == [c EXCEPT !.out.resent = c.out.resent + 1]
<1>1. GoodClient(again) /\ (is_sending(again) <=> is_sending(c))
  <2>1. c.out.resent + 1 \in Nat
    BY DEF GoodClient, ClientRecord
  <2>2. /\ again \in ClientRecord /\ again.tx = c.tx
        /\ again.out.pkt = c.out.pkt /\ again.out.offset = c.out.offset
    BY <2>1 DEF GoodClient, ClientRecord
  <2> HIDE DEF again
  <2> QED
    BY <2>2 DEF GoodClient, is_sending, Sending
<1> HIDE DEF again
<1>2. GoodClient(ForgetOutpkt(c))
  <2>1. c.done \subseteq Packet
    BY DEF GoodClient, ClientRecord
  <2> QED
    BY <2>1, ForgetGood
<1>3. /\ GoodClient(send_ping(c)) /\ GoodClient(send_ping(ForgetOutpkt(c)))
      /\ is_sending(c) => GoodClient(send_chunk(again))
  BY <1>1, <1>2, SendPingGood, SendChunkGood
<1> QED
  BY <1>3, SoonGood DEF Timeout, NoPing, again

-----------------------------------------------------------------------------
\* tunnel_dns of the client
LEMMA WrittenPacket ==
  ASSUME NEW buf, NEW p \in Packet, IsPacket(buf, p)
  PROVE  buf[1][1] \in Packet
<1>1. 1 \in 1 .. PacketLen[p]
  BY PacketAssumption
<1> QED
  BY <1>1 DEF IsPacket, CellsOf

LEMMA ReceiveGood ==
  ASSUME NEW c, GoodClient(c), NEW b \in BodyRecord, NEW something \in BOOLEAN
  PROVE  LET r == ReceiveDownstream(c, b, something)
         IN  GoodClient(r[1]) /\ r[2] \in BOOLEAN
<1> DEFINE kept == IF b.down.seqno = c.inp.seqno THEN c.inp.buf ELSE << >>
           all == kept \o b.data
           buf == IF b.last THEN << >> ELSE all
           wrote == \E p \in Packet : IsPacket(all, p)
           inp == [buf |-> buf, seqno |-> b.down.seqno, fragment |-> b.down.fragment]
           written == IF b.last /\ wrote THEN Append(c.written, all[1][1]) ELSE c.written
           d == AppendData(c, b)
<1>1. /\ b.down.seqno \in Seqnos /\ b.down.fragment \in FragNos
      /\ b.data \in Seq(Cells) /\ b.last \in BOOLEAN
  BY DEF BodyRecord, Headers
<1>2. c.inp.buf \in Seq(Cells) /\ c.written \in Seq(Packet)
  BY DEF GoodClient, ClientRecord
<1>3. buf \in Seq(Cells)
  BY <1>1, <1>2
<1>4. written \in Seq(Packet)
  <2> HIDE DEF all
  <2> QED
    BY <1>2, WrittenPacket
<1>5. d = [c EXCEPT !.inp = inp, !.written = written]
  BY DEF AppendData
<1> HIDE DEF buf, written, d
<1>6. GoodClient(d)
  <2>1. d \in ClientRecord /\ d.out = c.out /\ d.tx = c.tx
    BY <1>1, <1>3, <1>4, <1>5 DEF GoodClient, ClientRecord
  <2> QED
    BY <2>1 DEF GoodClient, is_sending
<1>7. GoodClient(SkipToUnseen(c, b))
  <2> DEFINE fresh == [buf |-> << >>, seqno |-> b.down.seqno, fragment |-> b.down.fragment]
             s == [c EXCEPT !.inp = fresh]
  <2>1. << >> \in Seq(Cells)
    OBVIOUS
  <2>2. s \in ClientRecord /\ s.out = c.out /\ s.tx = c.tx
    BY <1>1, <2>1 DEF GoodClient, ClientRecord
  <2>3. GoodClient(s)
    <3> HIDE DEF s
    <3> QED
      BY <2>2 DEF GoodClient, is_sending
  <2> QED
    BY <2>3, SoonGood DEF SkipToUnseen, PingSoon
<1>8. GoodClient(PingSoon(c)) /\ GoodClient(PingSoon(d))
  BY <1>6, SoonGood DEF PingSoon
<1> QED
  BY <1>6, <1>7, <1>8 DEF ReceiveDownstream, d

LEMMA FinishGood ==
  ASSUME NEW c, GoodClient(c), NEW ack, NEW something \in BOOLEAN
  PROVE  GoodClient(FinishAnswer(c, ack, something))
<1> DEFINE offset == c.out.offset + c.out.sentlen
           next == [c EXCEPT !.out.offset = offset,
                             !.out.fragment = c.out.fragment + 1,
                             !.out.resent = 0]
           done == [ForgetOutpkt(c) EXCEPT !.done = c.done \cup {c.out.pkt}]
           pinged == IF something THEN NoPing(send_ping(c)) ELSE c
           d == PingSoon(done)
<1>1. GoodClient(pinged)
  BY SendPingGood, SoonGood DEF NoPing
<1>2. ASSUME is_sending(c) PROVE GoodClient(d) /\ GoodClient(NoPing(send_ping(d)))
  <2>1. c.done \cup {c.out.pkt} \subseteq Packet
    BY <1>2 DEF GoodClient, ClientRecord, is_sending, Sending
  <2>2. GoodClient(done)
    BY <2>1, ForgetGood
  <2> HIDE DEF done
  <2>3. GoodClient(d)
    BY <2>2, SoonGood DEF PingSoon
  <2> HIDE DEF d
  <2> QED
    BY <2>3, SendPingGood, SoonGood DEF NoPing
<1>3. ASSUME is_sending(c), ~ (offset >= PacketLen[c.out.pkt])
      PROVE  GoodClient(NoPing(send_chunk(next)))
  <2>1. /\ offset \in Nat /\ c.out.fragment + 1 \in Nat
        /\ c.out.pkt \in Packet /\ PacketLen[c.out.pkt] \in Nat
    BY <1>3, PacketAssumption DEF GoodClient, ClientRecord, is_sending, Sending
  <2>2. offset < PacketLen[c.out.pkt]
    BY <1>3, <2>1
  <2> HIDE DEF offset
  <2>3. /\ next \in ClientRecord /\ next.tx = c.tx
        /\ next.out.pkt = c.out.pkt /\ next.out.offset = offset
    BY <2>1 DEF GoodClient, ClientRecord
  <2> HIDE DEF next
  <2>4. GoodClient(next) /\ is_sending(next)
    BY <1>3, <2>2, <2>3 DEF GoodClient, is_sending, Sending
  <2> QED
    BY <2>4, SendChunkGood, SoonGood DEF NoPing
<1>4. IsUpstreamAck(c, ack) => is_sending(c)
  BY DEF IsUpstreamAck
<1> QED
  BY <1>1, <1>2, <1>3, <1>4 DEF FinishAnswer

LEMMA ClientDnsGood ==
  ASSUME NEW c, GoodClient(c), NEW ans \in AnswerRecord
  PROVE  GoodClient(client_tunnel_dns(c, ans))
<1> DEFINE b == WithoutStaleData(c, ans.body)
           calm == [c EXCEPT !.soon = IsStaleData(c, ans.body)]
           lazily == IF ans.num = c.num /\ c.lazymode THEN PingSoon(calm) ELSE calm
           received == ReceiveDownstream(lazily, b, c.soon)
<1>1. b \in BodyRecord /\ c.soon \in BOOLEAN
  <2>1. ans.body \in BodyRecord /\ << >> \in Seq(Cells)
    BY DEF AnswerRecord
  <2> QED
    BY <2>1 DEF WithoutStaleData, BodyRecord, GoodClient, ClientRecord
<1>2. GoodClient(calm)
  BY SoonGood DEF IsStaleData
<1>3. GoodClient(lazily)
  <2> HIDE DEF calm
  <2> QED
    BY <1>2, SoonGood DEF PingSoon
<1>4. GoodClient(received[1]) /\ received[2] \in BOOLEAN
  <2> HIDE DEF b, lazily
  <2> QED
    BY <1>1, <1>3, ReceiveGood
<1>5. GoodClient(FinishAnswer(received[1], ans.body.ack, received[2]))
  <2> HIDE DEF received
  <2> QED
    BY <1>4, FinishGood
<1>6. GoodClient(PingSoon(c)) /\ GoodClient(NoPing(send_ping(calm)))
  <2> HIDE DEF calm
  <2> QED
    BY <1>2, SendPingGood, SoonGood DEF PingSoon, NoPing
<1> QED
  BY <1>2, <1>5, <1>6 DEF client_tunnel_dns

-----------------------------------------------------------------------------
(***************************************************************************)
(* An iteration of the select loop of iodined, from u to v: head, handler  *)
(* and end, with the queries qs that came in.                              *)
(***************************************************************************)
Handled(u, v, qs) ==
  /\ GoodUser(v)
  /\ Prompt(u) => Prompt(v)
  /\ \A num, id : InHand(u, num, id) =>
       InHand(v, num, id) \/ (IsSecondCopy(u, num, id) /\ \E qry \in qs : qry.num = num)
  /\ \A qry \in qs : InHand(v, qry.num, qry.id)
  /\ Held(u.soonq) /\ Fading(u, u.soonq.num) => Fading(v, u.soonq.num)

Iterated(u, v, qs) ==
  /\ GoodUser(v)
  /\ Prompt(u) => Prompt(v)
  /\ \A num, id : InHand(u, num, id) =>
       InHand(v, num, id) \/ (IsSecondCopy(u, num, id) /\ \E qry \in qs : qry.num = num)
  /\ \A qry \in qs : InHand(v, qry.num, qry.id)
  /\ Prompt(u) /\ Held(u.soonq) => v.soonq.num # u.soonq.num

\* The number of a query put off
LEMMA SoonNumber ==
  ASSUME NEW u, GoodUser(u), Held(u.soonq)
  PROVE  u.soonq.num \in Nat \ {0}
BY NoQueryType DEF GoodUser, HeldOrNone, UserRecord, QueryRecord

LEMMA IterationOf ==
  ASSUME NEW u, GoodUser(u), NEW m, NEW qs, Handled(LoopHead(u), m, qs)
  PROVE  Iterated(u, LoopEnd(m), qs)
<1> DEFINE h == LoopHead(u)
           v == LoopEnd(m)
<1>1. /\ Carries(u, h, {}, {}) /\ GoodUser(h)
      /\ h.q = u.q /\ h.soonq = u.soonq /\ h.out = u.out /\ ~ h.soonnew
  BY LoopHeadCarries DEF Carries
<1>2. Handled(h, m, qs) /\ GoodUser(m)
  BY DEF Handled
<1>3. /\ Carries(m, v, {}, {})
      /\ Prompt(m) => Prompt(v)
      /\ \A num : num # 0 /\ Fading(m, num) => v.soonq.num # num
  BY <1>2, LoopEndHandled
<1> HIDE DEF h, v
<1>4. Prompt(u) => Prompt(v)
  <2>1. Prompt(u) => Prompt(h)
    BY <1>1 DEF Prompt
  <2> QED
    BY <1>2, <1>3, <2>1 DEF Handled
<1>5. ASSUME NEW num, NEW id, InHand(u, num, id)
      PROVE  InHand(v, num, id) \/ (IsSecondCopy(u, num, id) /\ \E qry \in qs : qry.num = num)
  <2>1. InHand(h, num, id)
    BY <1>1, <1>5 DEF Carries
  <2>2. IsSecondCopy(h, num, id) => IsSecondCopy(u, num, id)
    BY <1>1 DEF IsSecondCopy
  <2>3. InHand(m, num, id) => InHand(v, num, id)
    BY <1>3 DEF Carries
  <2> QED
    BY <1>2, <2>1, <2>2, <2>3 DEF Handled
<1>6. ASSUME NEW qry \in qs PROVE InHand(v, qry.num, qry.id)
  <2>1. InHand(m, qry.num, qry.id)
    BY <1>2 DEF Handled
  <2> QED
    BY <1>3, <2>1 DEF Carries
<1>7. ASSUME Prompt(u), Held(u.soonq) PROVE v.soonq.num # u.soonq.num
  <2> DEFINE num == u.soonq.num
  <2>1. num \in Nat \ {0}
    BY <1>7, SoonNumber
  <2>2. u.q.num # num
    BY <1>7, <2>1, NoQueryType DEF Prompt, GoodUser, HeldOrNone
  <2>3. Fading(h, num)
    BY <1>1, <2>2 DEF Fading
  <2>4. Fading(m, num)
    BY <1>1, <1>2, <1>7, <2>3 DEF Handled
  <2> QED
    BY <1>3, <2>1, <2>4
<1> QED
  BY <1>3, <1>4, <1>5, <1>6, <1>7 DEF Iterated, Carries, v

LEMMA NothingHandled ==
  ASSUME NEW u, GoodUser(u)
  PROVE  Handled(u, u, {})
BY DEF Handled

LEMMA TunHandled ==
  ASSUME NEW u, GoodUser(u), NEW p \in Packet
  PROVE  Handled(u, iodined_tunnel_tun(u, p), {})
<1> DEFINE v == iodined_tunnel_tun(u, p)
<1>1. Carries(u, v, {}, {p}) /\ (Prompt(u) => Prompt(v))
  BY PacketHandled
<1> HIDE DEF v
<1>2. \A num, id : InHand(u, num, id) => InHand(v, num, id)
  BY <1>1 DEF Carries
<1>3. Held(u.soonq) /\ Fading(u, u.soonq.num) => Fading(v, u.soonq.num)
  BY <1>1, SoonNumber DEF Carries
<1> QED
  BY <1>1, <1>2, <1>3 DEF Handled, Carries, v

LEMMA QueryHandled ==
  ASSUME NEW u, GoodUser(u), NEW qry, NewQuery(qry)
  PROVE  Handled(u, iodined_tunnel_dns(u, qry), {qry})
<1> DEFINE v == iodined_tunnel_dns(u, qry)
<1>1. /\ GoodUser(v)
      /\ Prompt(u) => Prompt(v)
      /\ InHand(v, qry.num, qry.id)
      /\ \A num, id : InHand(u, num, id) =>
           InHand(v, num, id) \/ (num = qry.num /\ IsSecondCopy(u, num, id))
      /\ \A num \in Nat \ {0} :
           Fading(u, num) /\ (num = qry.num => SeenBefore(u, qry)) => Fading(v, num)
  BY DnsHandled
<1> HIDE DEF v
<1>2. Held(u.soonq) /\ u.soonq.num = qry.num => SeenBefore(u, qry)
  BY DEF SeenBefore, IsDuplicateOf
<1>3. Held(u.soonq) /\ Fading(u, u.soonq.num) => Fading(v, u.soonq.num)
  BY <1>1, <1>2, SoonNumber
<1> QED
  BY <1>1, <1>3 DEF Handled, v

\* The query put off may be answered with the packet; then it is in the cache.
LEMMA BothHandled ==
  ASSUME NEW u, GoodUser(u), NEW p \in Packet, NEW qry, NewQuery(qry)
  PROVE  Handled(u, iodined_tunnel_dns(iodined_tunnel_tun(u, p), qry), {qry})
<1> DEFINE t == iodined_tunnel_tun(u, p)
           v == iodined_tunnel_dns(t, qry)
<1>1. /\ Carries(u, t, {}, {p}) /\ GoodUser(t)
      /\ Prompt(u) => Prompt(t)
      /\ t.soonq = u.soonq \/ InCache(t, u.soonq.num)
      /\ t.q \in {u.q, NoQuery} /\ t.soonq \in {u.soonq, NoQuery}
  BY PacketHandled DEF Carries
<1> HIDE DEF t
<1>2. /\ GoodUser(v)
      /\ Prompt(t) => Prompt(v)
      /\ InHand(v, qry.num, qry.id)
      /\ \A num, id : InHand(t, num, id) =>
           InHand(v, num, id) \/ (num = qry.num /\ IsSecondCopy(t, num, id))
      /\ \A num \in Nat \ {0} :
           Fading(t, num) /\ (num = qry.num => SeenBefore(t, qry)) => Fading(v, num)
  BY <1>1, DnsHandled
<1> HIDE DEF v
<1>3. ASSUME NEW num, NEW id, InHand(u, num, id)
      PROVE  InHand(v, num, id) \/ (IsSecondCopy(u, num, id) /\ qry.num = num)
  <2>1. InHand(t, num, id)
    BY <1>1, <1>3 DEF Carries
  <2>2. IsSecondCopy(t, num, id) => IsSecondCopy(u, num, id)
    BY <1>1, NoQueryType DEF IsSecondCopy
  <2> QED
    BY <1>2, <2>1, <2>2
<1>4. ASSUME Held(u.soonq), Fading(u, u.soonq.num)
      PROVE  Fading(v, u.soonq.num)
  <2>1. u.soonq.num \in Nat \ {0}
    BY <1>4, SoonNumber
  <2>2. Fading(t, u.soonq.num)
    BY <1>1, <1>4, <2>1 DEF Carries
  <2>3. u.soonq.num = qry.num => SeenBefore(t, qry)
    BY <1>1, <1>4 DEF SeenBefore, IsDuplicateOf
  <2> QED
    BY <1>2, <2>1, <2>2, <2>3
<1> QED
  BY <1>1, <1>2, <1>3, <1>4 DEF Handled, v, t

\* The answers are sent.
LEMMA AnswersSent ==
  ASSUME NEW u, GoodUser(u)
  PROVE  LET v == [u EXCEPT !.tx = {}]
         IN  /\ GoodUser(v) /\ v.tx = {} /\ v.q = u.q /\ v.soonq = u.soonq
             /\ Prompt(u) => Prompt(v)
             /\ \A num, id : HasCopy(u, num, id) => HasCopy(v, num, id)
<1> DEFINE v == [u EXCEPT !.tx = {}]
<1>1. /\ v \in UserRecord /\ v.tx = {} /\ v.q = u.q /\ v.soonq = u.soonq
      /\ v.out = u.out
  BY DEF GoodUser, UserRecord
<1> HIDE DEF v
<1>2. GoodUser(v)
  BY <1>1 DEF GoodUser
<1>3. Prompt(u) => Prompt(v)
  BY <1>1 DEF Prompt
<1>4. \A num, id : HasCopy(u, num, id) => HasCopy(v, num, id)
  BY <1>1 DEF HasCopy
<1> QED
  BY <1>1, <1>2, <1>3, <1>4 DEF v

-----------------------------------------------------------------------------
(***************************************************************************)
(* The invariant of the tunnel: the records of both ends are such as their *)
(* handlers leave them, the relays carry queries and answers, and no       *)
(* packet waits beside a query (Prompt).                                   *)
(***************************************************************************)
TunnelInvariant ==
  /\ scenario \in Scenarios
  /\ GoodClient(client) /\ client.tx = {}
  /\ GoodUser(user) /\ user.tx = {} /\ Prompt(user)
  /\ \A qry \in queries : NewQuery(qry)
  /\ answers \subseteq AnswerRecord
  /\ copies \in 0 .. MaxDups

\* What tun has to offer
LEMMA NextPacketType ==
  ASSUME TunnelInvariant
  PROVE  UpNext \subseteq Packet /\ DownNext \subseteq Packet
<1>1. scenario.up \in Seq(Packet) /\ scenario.down \in Seq(Packet)
  BY TunnelAssumption DEF TunnelInvariant
<1> QED
  BY <1>1 DEF UpNext, DownNext, NextPackets

\* A step of the client
LEMMA ClientStep ==
  ASSUME TunnelInvariant, NEW c, GoodClient(c), ClientBecomes(c)
  PROVE  /\ GoodClient(client') /\ client'.tx = {}
         /\ \A qry \in queries' : NewQuery(qry)
<1> DEFINE d == [c EXCEPT !.tx = {}]
<1>1. d \in ClientRecord /\ d.tx = {} /\ d.out = c.out
  BY DEF GoodClient, ClientRecord
<1>2. client' = d
  BY DEF ClientBecomes
<1> HIDE DEF d
<1>3. GoodClient(d)
  BY <1>1 DEF GoodClient, is_sending
<1>4. \A qry \in queries' : NewQuery(qry)
  BY DEF ClientBecomes, TunnelInvariant, GoodClient, Fresh
<1> QED
  BY <1>1, <1>2, <1>3, <1>4

LEMMA ClientNextKeeps ==
  ASSUME TunnelInvariant, ClientNext, UNCHANGED scenario
  PROVE  TunnelInvariant'
<1>1. ASSUME NEW c, GoodClient(c), ClientBecomes(c), answers' \subseteq answers,
             UNCHANGED << user, copies >>
      PROVE  TunnelInvariant'
  BY <1>1, ClientStep DEF TunnelInvariant
<1>2. \A num : Fresh(answers, num) \subseteq answers
  BY DEF Fresh
<1>3. \A ans, num : Fresh(answers \ {ans}, num) \subseteq answers
  BY DEF Fresh
<1>4. GoodClient(client) /\ answers \subseteq AnswerRecord
  BY DEF TunnelInvariant
<1>5. CASE \E p \in UpNext : ClientTun(p)
  BY <1>1, <1>2, <1>4, <1>5, NextPacketType, ClientTunGood DEF ClientTun
<1>6. CASE ClientDiscards
  BY <1>6 DEF ClientDiscards, TunnelInvariant
<1>7. CASE \E ans \in answers : ClientDns(ans)
  BY <1>1, <1>3, <1>4, <1>7, ClientDnsGood DEF ClientDns
<1>8. CASE \E p \in UpNext, ans \in answers : ClientTunAndDns(p, ans)
  <2>1. PICK p \in UpNext, ans \in answers : ClientTunAndDns(p, ans)
    BY <1>8
  <2>2. GoodClient(client_tunnel_tun(client, p))
    BY <1>4, NextPacketType, ClientTunGood
  <2>3. GoodClient(client_tunnel_dns(client_tunnel_tun(client, p), ans))
    BY <1>4, <2>2, ClientDnsGood
  <2> QED
    BY <1>1, <1>3, <2>1, <2>3 DEF ClientTunAndDns
<1>9. CASE ClientTimeout
  BY <1>1, <1>2, <1>4, <1>9, TimeoutGood DEF ClientTimeout
<1>10. CASE ClientError
  BY <1>1, <1>4, <1>10, SoonGood DEF ClientError, PingSoon
<1> QED
  BY <1>5, <1>6, <1>7, <1>8, <1>9, <1>10 DEF ClientNext

\* A step of iodined is an iteration of its loop.
LEMMA IodinedIterates ==
  ASSUME TunnelInvariant, IodinedNext
  PROVE  \E v : /\ Iterated(user, v, queries \ queries')
               /\ UserBecomes(v)
               /\ queries' \subseteq queries
               /\ UNCHANGED << client, copies >>
<1> DEFINE h == LoopHead(user)
           Good(m, qs) == /\ Handled(h, m, qs)
                          /\ UserBecomes(LoopEnd(m))
                          /\ queries \ queries' = qs
                          /\ queries' \subseteq queries
                          /\ UNCHANGED << client, copies >>
<1>1. GoodUser(user) /\ GoodUser(h)
  BY LoopHeadCarries DEF TunnelInvariant, Carries
<1>2. \A qry \in queries : NewQuery(qry)
  BY DEF TunnelInvariant
<1>3. \A qry \in queries : queries \ (queries \ {qry}) = {qry}
  OBVIOUS
<1>4. ASSUME NEW m, NEW qs, Good(m, qs)
      PROVE  \E v : /\ Iterated(user, v, queries \ queries')
                   /\ UserBecomes(v)
                   /\ queries' \subseteq queries
                   /\ UNCHANGED << client, copies >>
  BY <1>1, <1>4, IterationOf
<1> HIDE DEF h
<1>5. ASSUME NEW p \in DownNext, IodinedTun(p)
      PROVE  Good(iodined_tunnel_tun(h, p), {})
  BY <1>1, <1>5, NextPacketType, TunHandled DEF IodinedTun, h
<1>6. ASSUME NEW qry \in queries, IodinedDns(qry)
      PROVE  Good(iodined_tunnel_dns(h, qry), {qry})
  BY <1>1, <1>2, <1>3, <1>6, QueryHandled DEF IodinedDns, h
<1>7. ASSUME NEW p \in DownNext, NEW qry \in queries, IodinedTunAndDns(p, qry)
      PROVE  Good(iodined_tunnel_dns(iodined_tunnel_tun(h, p), qry), {qry})
  BY <1>1, <1>2, <1>3, <1>7, NextPacketType, BothHandled DEF IodinedTunAndDns, h
<1>8. IodinedIdle => Good(h, {})
  BY <1>1, NothingHandled DEF IodinedIdle, h
<1> QED
  BY <1>4, <1>5, <1>6, <1>7, <1>8 DEF IodinedNext

LEMMA IodinedNextKeeps ==
  ASSUME TunnelInvariant, IodinedNext, UNCHANGED scenario
  PROVE  TunnelInvariant'
<1>1. PICK v : /\ Iterated(user, v, queries \ queries')
               /\ UserBecomes(v)
               /\ queries' \subseteq queries
               /\ UNCHANGED << client, copies >>
  BY IodinedIterates
<1>2. GoodUser(v) /\ Prompt(v)
  BY <1>1 DEF Iterated, TunnelInvariant
<1>3. GoodUser(user') /\ user'.tx = {} /\ Prompt(user')
  BY <1>1, <1>2, AnswersSent DEF UserBecomes
<1>4. answers' \subseteq AnswerRecord
  BY <1>1, <1>2 DEF UserBecomes, Fresh, GoodUser, UserRecord, TunnelInvariant
<1> QED
  BY <1>1, <1>3, <1>4 DEF TunnelInvariant

LEMMA RepeatKeeps ==
  ASSUME TunnelInvariant, NEW qry \in queries, Repeat(qry), UNCHANGED scenario
  PROVE  TunnelInvariant'
<1> DEFINE copy == [qry EXCEPT !.id = copies + 1]
<1>1. copies + 1 \in Ids /\ copies' \in 0 .. MaxDups
  BY QueryBoundAssumption DEF TunnelInvariant, Repeat, Ids
<1>2. NewQuery(qry)
  BY DEF TunnelInvariant
<1>3. NewQuery(copy)
  BY <1>1, <1>2 DEF NewQuery, QueryRecord
<1>4. queries' = queries \cup {copy}
  BY DEF Repeat
<1> HIDE DEF copy
<1> QED
  BY <1>1, <1>3, <1>4 DEF TunnelInvariant, Repeat

LEMMA TunnelInvariantHolds == Spec => []TunnelInvariant
<1>1. Init => TunnelInvariant
  <2> SUFFICES ASSUME Init PROVE TunnelInvariant
    OBVIOUS
  <2>1. scenario.lazy \in BOOLEAN
    BY TunnelAssumption DEF Init
  <2> QED
    BY <2>1, FreshClientGood, FreshUserGood, QueryBoundAssumption
    DEF Init, TunnelInvariant
<1>2. TunnelInvariant /\ [Next]_vars => TunnelInvariant'
  <2>1. CASE UNCHANGED vars
    BY <2>1 DEF vars, TunnelInvariant
  <2>2. CASE Next
    BY <2>2, ClientNextKeeps, IodinedNextKeeps, RepeatKeeps DEF Next
  <2> QED
    BY <2>1, <2>2
<1> QED
  BY <1>1, <1>2, PTL DEF Spec

-----------------------------------------------------------------------------
\* Whatever the client and the relays do, a packet that was not sent yet and
\* a query it could go out on are never left side by side (tunnel_tun,
\* handle_null_request).
THEOREM NothingWaitsBesideQuery == Spec => []NoPacketWaitsBesideQuery
<1>1. TunnelInvariant => NoPacketWaitsBesideQuery
  BY DEF TunnelInvariant, Prompt, Begun, NoPacketWaitsBesideQuery
<1> QED
  BY <1>1, TunnelInvariantHolds, PTL

\* No handler forgets a query it owes an answer, of however many copies and
\* in whatever order they come: only a third copy takes the second one's place.
THEOREM QueriesAreNotDropped == Spec => NoQueryIsDropped
<1> DEFINE Kept(m) == \/ HasCopy(user', m[1], m[2])
                      \/ \E a \in answers' : a.num = m[1] /\ a.id = m[2]
                      \/ m[1] + MaxLag < client.num
                      \/ m \in CopiesHeld /\ GivesWay(m)
<1>1. ASSUME TunnelInvariant, IodinedNext, NEW m \in CopiesHeld \cup CopiesTaken
      PROVE  Kept(m)
  <2>1. PICK v : Iterated(user, v, queries \ queries') /\ UserBecomes(v)
    BY <1>1, IodinedIterates
  <2>2. GoodUser(v) /\ client.num \in Nat
    BY <1>1, <2>1 DEF Iterated, TunnelInvariant, GoodClient, ClientRecord
  <2>3. ASSUME InHand(v, m[1], m[2]) PROVE Kept(m)
    <3>1. CASE HasCopy(v, m[1], m[2])
      BY <2>1, <2>2, <3>1, AnswersSent DEF UserBecomes
    <3>2. ASSUME NEW a \in v.tx, a.num = m[1], a.id = m[2] PROVE Kept(m)
      <4>1. a.num \in Nat
        BY <2>2 DEF GoodUser, UserRecord, AnswerRecord
      <4>2. a \in answers' \/ ~ (a.num + MaxLag >= client.num)
        BY <2>1 DEF UserBecomes, Fresh
      <4>3. a \in answers' \/ m[1] + MaxLag < client.num
        BY <2>2, <3>2, <4>1, <4>2, TunnelAssumption
      <4> QED
        BY <3>2, <4>3
    <3> QED
      BY <2>3, <3>1, <3>2 DEF InHand
  <2>4. CASE m \in CopiesTaken
    <3>1. InHand(v, m[1], m[2])
      BY <2>1, <2>4 DEF CopiesTaken, Iterated
    <3> QED
      BY <2>3, <3>1
  <2>5. CASE m \in CopiesHeld
    <3>1. InHand(user, m[1], m[2])
      BY <2>5 DEF CopiesHeld, InHand
    <3>2. \/ InHand(v, m[1], m[2])
          \/ /\ IsSecondCopy(user, m[1], m[2])
             /\ \E qry \in queries \ queries' : qry.num = m[1]
      BY <2>1, <3>1 DEF Iterated
    <3>3. ASSUME NEW qry \in queries \ queries', qry.num = m[1]
          PROVE  \E n \in CopiesTaken : n[1] = m[1]
      <4>1. << qry.num, qry.id >> \in CopiesTaken
        BY DEF CopiesTaken
      <4>2. << qry.num, qry.id >>[1] = m[1]
        BY <3>3
      <4> QED
        BY <4>1, <4>2
    <3> QED
      BY <2>3, <2>5, <3>2, <3>3 DEF GivesWay
  <2> QED
    BY <1>1, <2>4, <2>5
<1>2. TunnelInvariant /\ [Next]_vars =>
        [IodinedNext => \A m \in CopiesHeld \cup CopiesTaken : Kept(m)]_vars
  BY <1>1
<1> QED
  BY <1>2, TunnelInvariantHolds, PTL DEF Spec, NoQueryIsDropped

\* A query is put off for one iteration of the loop and no longer.
THEOREM PutOffOnlyOnce == Spec => PutOffForOneIteration
<1>1. ASSUME TunnelInvariant, IodinedNext, Held(user.soonq)
      PROVE  user'.soonq.num # user.soonq.num
  <2>1. PICK v : Iterated(user, v, queries \ queries') /\ UserBecomes(v)
    BY <1>1, IodinedIterates
  <2>2. v.soonq.num # user.soonq.num /\ GoodUser(v)
    BY <1>1, <2>1 DEF Iterated, TunnelInvariant
  <2>3. user'.soonq = v.soonq
    BY <2>1, <2>2, AnswersSent DEF UserBecomes
  <2> QED
    BY <2>2, <2>3
<1>2. TunnelInvariant /\ [Next]_vars =>
        [IodinedNext /\ Held(user.soonq) => user'.soonq.num # user.soonq.num]_vars
  BY <1>1
<1> QED
  BY <1>2, TunnelInvariantHolds, PTL DEF Spec, PutOffForOneIteration

-----------------------------------------------------------------------------
(***************************************************************************)
(* The packets to iodined.  The three-bit numbers of the code do not tell  *)
(* the packets apart, so the invariant speaks of a history h: the packets  *)
(* the client has started to send, the one of them the server's inpacket   *)
(* is about, and the last one the server wrote to tun; 0 is none.          *)
(***************************************************************************)
UpHistory == [sent : Seq(Packet), at : Nat, wrote : Nat]

GoodHistory(h, read) ==
  /\ h \in UpHistory
  /\ h.wrote <= h.at /\ h.at <= Len(h.sent)
  /\ \A k \in 1 .. Len(h.sent) :
       /\ h.sent[k][1] \in 1 .. read
       /\ \A j \in 1 .. k - 1 : h.sent[j][1] < h.sent[k][1]

\* The first byte of fragment f
UpBytes(f) == f * ChunkLen

\* The server, its inpacket at fragment frag, has had fragment f of packet k.
Got(h, frag, k, f) == k < h.at \/ (k = h.at /\ f <= frag)

\* A data query carries a fragment, and the one before it was acknowledged.
\* No packet was started since but by another query.
Carried(h, frag, num, qry, k, f) ==
  LET p == h.sent[k]
      avail == PacketLen[p] - UpBytes(f)
      len == Smaller(ChunkLen, avail)
  IN  /\ qry.up = [seqno |-> k % SeqCount, fragment |-> f]
      /\ Len(h.sent) - k <= num - qry.num
      /\ avail > 0
      /\ qry.data = CellsOf(p, UpBytes(f), len)
      /\ qry.last = (len = avail)
      /\ f > 0 => Got(h, frag, k, f - 1)

UpQuery(h, frag, num, qry) ==
  /\ qry.num <= num
  /\ qry.kind = "data" =>
       \E k \in 1 .. Len(h.sent), f \in FragNos : Carried(h, frag, num, qry, k, f)

\* The ack in an answer is of something the server has, and of a packet so
\* young that its number is not that of another.
Acks(h, frag, num, n, ack, t) ==
  /\ ack.seqno = t % SeqCount
  /\ t < h.at \/ ack.fragment <= frag
  /\ 2 * (Len(h.sent) - t) <= 2 * num - n + 1

UpBody(h, frag, num, n, body) ==
  body.legal => \E t \in 0 .. h.at : Acks(h, frag, num, n, body.ack, t)

\* A packet the client is about to send a fragment of: the one before it
\* was acknowledged.  A packet the server does not have cost the client two
\* queries at least, the one that comes next counted.
Ready(h, frag, num, o) ==
  LET k == Len(h.sent)
  IN  /\ Sending(o) /\ k > 0 /\ o.pkt = h.sent[k]
      /\ o.offset = UpBytes(o.fragment)
      /\ o.fragment <= num
      /\ o.fragment > 0 => Got(h, frag, k, o.fragment - 1)
      /\ 2 * (k - h.at) <= num + 2

ClientOut(h, frag, num, o) ==
  /\ o.seqno = Len(h.sent) % SeqCount
  /\ Sending(o) =>
       /\ Ready(h, frag, num - 1, o)
       /\ o.sentlen = Smaller(ChunkLen, PacketLen[o.pkt] - o.offset)
  /\ ~ Sending(o) => o.offset = 0 /\ 2 * (Len(h.sent) - h.at) <= num

ClientUp(h, frag, c) ==
  /\ ClientOut(h, frag, c.num, c.out)
  /\ \A qry \in c.tx : UpQuery(h, frag, c.num, qry)

\* What the server has of packet h.at, whole and written or not
Assembled(h, inp) ==
  LET n == UpBytes(inp.fragment + 1)
      p == h.sent[h.at]
  IN  IF h.wrote = h.at THEN inp.buf = << >> /\ n >= PacketLen[p]
      ELSE inp.buf = CellsOf(p, 0, n) /\ n < PacketLen[p]

Wrote(h, written) ==
  IF h.wrote = 0 THEN written = << >>
  ELSE written # << >> /\ written[Len(written)] = h.sent[h.wrote]

ServerUp(h, num, u) ==
  /\ u.inp.seqno = h.at % SeqCount
  /\ h.at > 0 => Assembled(h, u.inp)
  /\ Wrote(h, u.written)
  /\ u.q.num <= num /\ u.soonq.num <= num
  /\ 2 * (Len(h.sent) - h.at) <= num + 1
  /\ \A i \in DOMAIN u.cache :
       UpBody(h, u.inp.fragment, num, u.cache[i].num, u.cache[i].body)
  /\ \A a \in u.tx : UpBody(h, u.inp.fragment, num, a.num, a.body)

\* The client has sent more, or the server has received more.
Later(h, frag, num, g, frag2, num2) ==
  /\ g.sent \in Seq(Packet)
  /\ Len(h.sent) <= Len(g.sent)
  /\ \A k \in 1 .. Len(h.sent) : g.sent[k] = h.sent[k]
  /\ Len(g.sent) - Len(h.sent) <= num2 - num
  /\ g.at \in Nat
  /\ h.at < g.at \/ (h.at = g.at /\ frag <= frag2)

-----------------------------------------------------------------------------
LEMMA BytesType ==
  ASSUME NEW f \in Nat
  PROVE  UpBytes(f) \in Nat /\ UpBytes(f + 1) = UpBytes(f) + ChunkLen /\ UpBytes(0) = 0
BY ClientAssumption DEF UpBytes

LEMMA BytesGrow ==
  ASSUME NEW f \in Nat, NEW g \in Nat, f <= g
  PROVE  UpBytes(f) <= UpBytes(g)
<1> DEFINE d == g - f
<1>1. d \in Nat /\ g = f + d
  OBVIOUS
<1> HIDE DEF d
<1>2. ChunkLen \in Nat /\ d * ChunkLen \in Nat
  BY <1>1, ClientAssumption
<1>3. g * ChunkLen = f * ChunkLen + d * ChunkLen
  BY <1>1, <1>2
<1> QED
  BY <1>2, <1>3 DEF UpBytes

\* Two packets less than eight apart have different numbers.
LEMMA SeqnosDiffer ==
  ASSUME NEW k \in Nat, NEW t \in Nat, k % SeqCount = t % SeqCount, k - t \in -7 .. 7
  PROVE  k = t
OBVIOUS

\* One that is up to three packets old looks it.
LEMMA RecentLooksOld ==
  ASSUME NEW k \in Nat, NEW t \in Nat, k - t \in 1 .. RecentSpan - 1
  PROVE  recent_seqno(k % SeqCount, t % SeqCount)
<1>1. k - t \in 0 .. RecentSpan - 1
  BY DEF RecentSpan
<1>2. t % SeqCount = ((k % SeqCount) - (k - t)) % SeqCount
  OBVIOUS
<1> QED
  BY <1>1, <1>2 DEF recent_seqno

\* What is cut from a packet in two pieces is cut in one.
LEMMA CellsJoin ==
  ASSUME NEW p, NEW n \in Nat, NEW m \in Nat
  PROVE  CellsOf(p, 0, n) \o CellsOf(p, n, m) = CellsOf(p, 0, n + m)
<1> DEFINE a == CellsOf(p, 0, n)
           b == CellsOf(p, n, m)
           c == CellsOf(p, 0, n + m)
           S == {<< p, i >> : i \in Nat}
<1>1. a \in Seq(S) /\ Len(a) = n /\ \A i \in 1 .. n : a[i] = << p, i >>
  BY DEF CellsOf
<1>2. b \in Seq(S) /\ Len(b) = m /\ \A i \in 1 .. m : b[i] = << p, n + i >>
  BY DEF CellsOf
<1>3. c \in Seq(S) /\ Len(c) = n + m /\ \A i \in 1 .. n + m : c[i] = << p, i >>
  BY DEF CellsOf
<1> HIDE DEF a, b, c, S
<1>4. /\ a \o b \in Seq(S) /\ Len(a \o b) = n + m
      /\ \A i \in 1 .. n + m :
           (a \o b)[i] = IF i <= n THEN a[i] ELSE b[i - n]
  BY <1>1, <1>2, ConcatProperties
<1>5. \A i \in 1 .. n + m : (a \o b)[i] = << p, i >>
  <2> TAKE i \in 1 .. n + m
  <2>1. CASE i <= n
    BY <1>1, <1>4, <2>1
  <2>2. CASE i > n
    <3>1. i - n \in 1 .. m /\ n + (i - n) = i
      BY <2>2
    <3>2. b[i - n] = << p, n + (i - n) >>
      BY <1>2, <3>1
    <3> QED
      BY <1>4, <2>2, <3>1, <3>2
  <2>3. i <= n \/ i > n
    OBVIOUS
  <2> QED
    BY <2>1, <2>2, <2>3
<1>6. Len(a \o b) = Len(c) /\ \A i \in 1 .. Len(c) : (a \o b)[i] = c[i]
  BY <1>3, <1>4, <1>5
<1>7. a \o b = c
  BY <1>3, <1>4, <1>6, SeqEqual
<1> QED
  BY <1>7 DEF a, b, c

LEMMA GapsAdd ==
  ASSUME NEW a \in Int, NEW b \in Int, NEW k \in Int, NEW m \in Int,
         NEW n \in Int, NEW i \in Int, b - a <= n - m
  PROVE  /\ a - k <= m - i => b - k <= n - i
         /\ 2 * (a - k) <= 2 * m - i + 1 => 2 * (b - k) <= 2 * n - i + 1
OBVIOUS

\* Queries and answers stay what they are.
LEMMA QueryLater ==
  ASSUME NEW h \in UpHistory, NEW g, NEW frag \in Nat, NEW frag2 \in Nat,
         NEW num \in Nat, NEW num2 \in Nat, Later(h, frag, num, g, frag2, num2),
         NEW qry, qry.num \in Nat, UpQuery(h, frag, num, qry)
  PROVE  UpQuery(g, frag2, num2, qry)
<1> DEFINE m == Len(h.sent)
           n2 == Len(g.sent)
<1>1. /\ m \in Nat /\ n2 \in Nat /\ m <= n2 /\ n2 - m <= num2 - num
      /\ h.at \in Nat /\ g.at \in Nat
      /\ \A k \in 1 .. m : g.sent[k] = h.sent[k]
      /\ h.at < g.at \/ (h.at = g.at /\ frag <= frag2)
  BY DEF Later, UpHistory
<1> HIDE DEF m, n2
<1>2. qry.num <= num2
  BY <1>1 DEF UpQuery, m, n2
<1>3. ASSUME NEW k \in 1 .. m, NEW f \in FragNos,
             Carried(h, frag, num, qry, k, f)
      PROVE  k \in 1 .. n2 /\ Carried(g, frag2, num2, qry, k, f)
  <2>1. k \in 1 .. n2 /\ g.sent[k] = h.sent[k]
    BY <1>1
  <2>4. m - k <= num - qry.num /\ (f > 0 => Got(h, frag, k, f - 1))
    BY <1>3 DEF Carried, m
  <2>5. k \in Int /\ qry.num \in Int
    BY <1>1
  <2>2. n2 - k <= num2 - qry.num
    BY <1>1, <2>4, <2>5
  <2>3. f > 0 => Got(g, frag2, k, f - 1)
    BY <1>1, <2>4 DEF Got
  <2> QED
    BY <1>3, <2>1, <2>2, <2>3 DEF Carried, m, n2
<1> QED
  BY <1>2, <1>3 DEF UpQuery, m, n2

LEMMA BodyLater ==
  ASSUME NEW h \in UpHistory, NEW g, NEW frag \in Nat, NEW frag2 \in Nat,
         NEW num \in Nat, NEW num2 \in Nat, Later(h, frag, num, g, frag2, num2),
         NEW n \in Nat, NEW body \in BodyRecord, UpBody(h, frag, num, n, body)
  PROVE  UpBody(g, frag2, num2, n, body)
<1> DEFINE m == Len(h.sent)
           n2 == Len(g.sent)
<1>1. /\ m \in Nat /\ n2 \in Nat /\ m <= n2 /\ n2 - m <= num2 - num
      /\ h.at \in Nat /\ g.at \in Nat
      /\ h.at < g.at \/ (h.at = g.at /\ frag <= frag2)
  BY DEF Later, UpHistory
<1> HIDE DEF m, n2
<1>2. body.ack.fragment \in Nat
  BY DEF BodyRecord, Headers
<1>3. ASSUME NEW t \in 0 .. h.at, Acks(h, frag, num, n, body.ack, t)
      PROVE  t \in 0 .. g.at /\ Acks(g, frag2, num2, n, body.ack, t)
  <2>1. /\ 2 * (m - t) <= 2 * num - n + 1
        /\ t < h.at \/ body.ack.fragment <= frag
        /\ body.ack.seqno = t % SeqCount
    BY <1>3 DEF Acks, m
  <2>2. 2 * (n2 - t) <= 2 * num2 - n + 1
    BY <1>1, <2>1, GapsAdd
  <2>3. t < g.at \/ body.ack.fragment <= frag2
    BY <1>1, <1>2, <2>1
  <2>4. t \in 0 .. g.at
    BY <1>1
  <2> QED
    BY <2>1, <2>2, <2>3, <2>4 DEF Acks, n2
<1> QED
  BY <1>3 DEF UpBody

LEMMA LaterSame ==
  ASSUME NEW h \in UpHistory, NEW frag \in Nat, NEW num \in Int, NEW num2 \in Int,
         num <= num2
  PROVE  Later(h, frag, num, h, frag, num2)
BY DEF Later, UpHistory

-----------------------------------------------------------------------------
(***************************************************************************)
(* What the client does with the packets to iodined.                       *)
(***************************************************************************)
LEMMA OutLater ==
  ASSUME NEW h \in UpHistory, NEW frag \in Nat, NEW num \in Nat, NEW num2 \in Nat,
         num <= num2, NEW o, o.fragment \in Nat, ClientOut(h, frag, num, o)
  PROVE  ClientOut(h, frag, num2, o)
<1> DEFINE k == Len(h.sent)
<1>1. k \in Nat /\ h.at \in Nat
  BY DEF UpHistory
<1>2. ASSUME Ready(h, frag, num - 1, o) PROVE Ready(h, frag, num2 - 1, o)
  <2>1. o.fragment <= num - 1 /\ 2 * (k - h.at) <= (num - 1) + 2
    BY <1>2 DEF Ready
  <2> HIDE DEF k
  <2>2. o.fragment <= num2 - 1 /\ 2 * (k - h.at) <= (num2 - 1) + 2
    BY <1>1, <2>1
  <2> QED
    BY <1>2, <2>2 DEF Ready, k
<1>3. ASSUME 2 * (k - h.at) <= num PROVE 2 * (k - h.at) <= num2
  <2> HIDE DEF k
  <2> QED
    BY <1>1, <1>3
<1> QED
  BY <1>2, <1>3 DEF ClientOut

LEMMA QuerySent ==
  ASSUME NEW h \in UpHistory, NEW frag \in Nat,
         NEW c, GoodClient(c), NEW qry, UpQuery(h, frag, c.num + 1, qry),
         \A x \in c.tx : UpQuery(h, frag, c.num, x),
         ClientOut(h, frag, c.num + 1, c.out)
  PROVE  LET d == send_query(c, qry)
         IN  ClientUp(h, frag, d) /\ d.num = c.num + 1 /\ d.done = c.done
<1> DEFINE n == c.num + 1
           tx == c.tx \cup {qry}
           d == [c EXCEPT !.num = n, !.tx = tx]
<1>1. send_query(c, qry) = d
  BY DEF send_query
<1>2. c.num \in Nat /\ n \in Nat /\ c.num <= n /\ c \in ClientRecord
  BY DEF GoodClient, ClientRecord
<1>3. \A x \in c.tx : x.num \in Nat
  BY DEF GoodClient, NewQuery, QueryRecord
<1>4. Later(h, frag, c.num, h, frag, n)
  BY <1>2, LaterSame
<1> HIDE DEF n
<1>5. \A x \in tx : UpQuery(h, frag, n, x)
  BY <1>2, <1>3, <1>4, QueryLater DEF n
<1> HIDE DEF tx
<1>6. d.num = n /\ d.tx = tx /\ d.out = c.out /\ d.done = c.done
  BY <1>2 DEF ClientRecord
<1> HIDE DEF d
<1>7. ClientUp(h, frag, d)
  BY <1>5, <1>6 DEF ClientUp, n
<1> QED
  BY <1>1, <1>6, <1>7 DEF n

LEMMA PingUp ==
  ASSUME NEW h \in UpHistory, NEW frag \in Nat, NEW c, GoodClient(c),
         \A x \in c.tx : UpQuery(h, frag, c.num, x),
         ClientOut(h, frag, c.num + 1, c.out)
  PROVE  LET d == send_ping(c)
         IN  ClientUp(h, frag, d) /\ d.num = c.num + 1 /\ d.done = c.done
<1> DEFINE qry == Query(c.num + 1, "ping", Header(c.inp), NoHeader, FALSE, << >>)
<1>1. c.num \in Nat
  BY DEF GoodClient, ClientRecord
<1>2. qry.num = c.num + 1 /\ qry.kind = "ping"
  BY DEF Query
<1> HIDE DEF qry
<1>3. UpQuery(h, frag, c.num + 1, qry)
  BY <1>1, <1>2 DEF UpQuery
<1> QED
  BY <1>3, QuerySent DEF send_ping, qry

LEMMA ChunkUp ==
  ASSUME NEW h \in UpHistory, NEW frag \in Nat, NEW c, GoodClient(c),
         c.num <= MaxQueries, c.out.seqno = Len(h.sent) % SeqCount,
         Ready(h, frag, c.num, c.out),
         \A x \in c.tx : UpQuery(h, frag, c.num, x)
  PROVE  LET d == send_chunk(c)
         IN  ClientUp(h, frag, d) /\ d.num = c.num + 1 /\ d.done = c.done
<1> DEFINE o == c.out
           k == Len(h.sent)
           f == o.fragment
           avail == PacketLen[o.pkt] - o.offset
           len == Smaller(ChunkLen, avail)
           cut == [c EXCEPT !.out.sentlen = len]
           data == CellsOf(o.pkt, o.offset, len)
           last == len = avail
           qry == Query(c.num + 1, "data", Header(c.inp), Header(o), last, data)
<1>a. /\ c \in ClientRecord /\ c.num \in Nat /\ f \in Nat
      /\ o.offset \in Nat /\ o.pkt \in Packet \cup {NoPacket}
  BY DEF GoodClient, ClientRecord
<1>b. /\ Sending(o) /\ k > 0 /\ o.pkt = h.sent[k] /\ o.offset = UpBytes(f)
      /\ f <= c.num /\ (f > 0 => Got(h, frag, k, f - 1))
  BY DEF Ready
<1>c. k \in Nat
  BY DEF UpHistory
<1>d. o.pkt \in Packet /\ PacketLen[o.pkt] \in Nat /\ o.offset < PacketLen[o.pkt]
  BY <1>a, <1>b, PacketAssumption DEF GoodClient, is_sending, Sending
<1>1. /\ c \in ClientRecord /\ c.num \in Nat /\ f \in Nat /\ k \in Nat
      /\ o.pkt \in Packet /\ o.offset \in Nat /\ PacketLen[o.pkt] \in Nat
      /\ Sending(o) /\ k > 0 /\ o.pkt = h.sent[k] /\ o.offset = UpBytes(f)
      /\ f <= c.num /\ (f > 0 => Got(h, frag, k, f - 1))
      /\ o.offset < PacketLen[o.pkt]
  BY <1>a, <1>b, <1>c, <1>d
<1> HIDE DEF f
<1>2. f \in FragNos /\ FragField(f) = f
  <2>1. f <= MaxQueries /\ MaxQueries < 13 /\ MaxQueries \in Nat
    BY <1>1, ClientAssumption, QueryBoundAssumption
  <2>2. f \in 0 .. 12
    BY <1>1, <2>1
  <2> QED
    BY <2>2 DEF FragField
<1>3. avail > 0 /\ len \in Nat
  BY <1>1, ClientAssumption DEF Smaller
<1> HIDE DEF k
<1>4. Header(o) = [seqno |-> k % SeqCount, fragment |-> f]
  BY <1>2 DEF Header, k, f
<1>5. k \in 1 .. k /\ k - k <= (c.num + 1) - (c.num + 1)
  BY <1>1
<1>6. qry.num = c.num + 1 /\ qry.up = Header(o) /\ qry.data = data
  BY DEF Query
<1>7. qry.last = last
  BY DEF Query
<1> HIDE DEF qry
<1>8. Carried(h, frag, c.num + 1, qry, k, f)
  <2>1. avail = PacketLen[h.sent[k]] - UpBytes(f)
    BY <1>1
  <2>2. data = CellsOf(h.sent[k], UpBytes(f), len)
    BY <1>1
  <2>3. Len(h.sent) - k <= (c.num + 1) - qry.num
    BY <1>1, <1>5, <1>6 DEF k
  <2> HIDE DEF avail, data
  <2>4. qry.data = CellsOf(h.sent[k], UpBytes(f), Smaller(ChunkLen, avail))
    BY <1>6, <2>2
  <2>5. qry.last = (Smaller(ChunkLen, avail) = avail)
    BY <1>7
  <2> HIDE DEF last, len
  <2>6. /\ qry.up = [seqno |-> k % SeqCount, fragment |-> f]
        /\ f > 0 => Got(h, frag, k, f - 1)
        /\ avail > 0
    BY <1>1, <1>3, <1>4, <1>6
  <2> QED
    BY <2>1, <2>3, <2>4, <2>5, <2>6 DEF Carried
<1>9. UpQuery(h, frag, c.num + 1, qry)
  <2>1. k \in 1 .. Len(h.sent) /\ qry.num <= c.num + 1
    BY <1>1, <1>5, <1>6 DEF k
  <2> QED
    BY <1>2, <1>8, <2>1 DEF UpQuery
<1> HIDE DEF len
<1>10. GoodClient(cut) /\ cut.num = c.num /\ cut.tx = c.tx /\ cut.done = c.done
  BY <1>1, <1>3 DEF GoodClient, ClientRecord, is_sending, Sending
<1>e. o.fragment = f
  BY DEF f
<1>11. /\ cut.out.sentlen = len /\ cut.out.pkt = o.pkt /\ cut.out.offset = o.offset
       /\ cut.out.fragment = f /\ cut.out.seqno = o.seqno
  BY <1>1, <1>e DEF ClientRecord
<1> HIDE DEF cut
<1>12. Ready(h, frag, c.num, cut.out)
  BY <1>11, <1>e DEF Ready, Sending
<1>13. (c.num + 1) - 1 = c.num
  BY <1>1
<1>14. ClientOut(h, frag, cut.num + 1, cut.out)
  BY <1>1, <1>10, <1>11, <1>12, <1>13 DEF ClientOut, Sending, len
<1>15. send_chunk(c) = send_query(cut, qry)
  BY DEF send_chunk, cut, qry, len
<1> QED
  BY <1>9, <1>10, <1>14, <1>15, QuerySent

\* tunnel_tun starts the next packet.
LEMMA ClientTunUp ==
  ASSUME NEW h, NEW read \in Nat, GoodHistory(h, read), NEW frag \in Nat,
         NEW c, GoodClient(c), c.tx = {}, ~ is_sending(c), c.num <= MaxQueries,
         ClientUp(h, frag, c), NEW p \in Packet, p[1] = read + 1
  PROVE  LET g == [sent |-> Append(h.sent, p), at |-> h.at, wrote |-> h.wrote]
             d == client_tunnel_tun(c, p)
         IN  /\ GoodHistory(g, read + 1) /\ ClientUp(g, frag, d)
             /\ d.num = c.num + 1 /\ d.done = c.done
             /\ Later(h, frag, c.num, g, frag, d.num)
<1> DEFINE k == Len(h.sent)
           sent == Append(h.sent, p)
           g == [sent |-> sent, at |-> h.at, wrote |-> h.wrote]
           out == [pkt |-> p, offset |-> 0, sentlen |-> 0,
                   seqno |-> NextSeqno(c.out.seqno), fragment |-> 0, resent |-> 0]
           started == [c EXCEPT !.out = out]
           cut == send_chunk(started)
<1>1. /\ h \in UpHistory /\ h.sent \in Seq(Packet) /\ k \in Nat
      /\ h.at \in Nat /\ h.wrote \in Nat /\ h.wrote <= h.at /\ h.at <= k
      /\ \A j \in 1 .. k : h.sent[j][1] \in 1 .. read
      /\ \A j \in 1 .. k : \A i \in 1 .. j - 1 : h.sent[i][1] < h.sent[j][1]
  BY DEF GoodHistory, UpHistory
<1>2. /\ sent \in Seq(Packet) /\ Len(sent) = k + 1 /\ sent[k + 1] = p
      /\ \A j \in 1 .. k : sent[j] = h.sent[j]
  BY <1>1, AppendProperties
<1> HIDE DEF k, sent
<1>3. g \in UpHistory /\ g.sent = sent /\ g.at = h.at /\ g.wrote = h.wrote
  BY <1>1, <1>2 DEF UpHistory
<1> HIDE DEF g
<1>4. GoodHistory(g, read + 1)
  <2>1. ASSUME NEW j \in 1 .. k + 1
        PROVE  /\ sent[j][1] \in 1 .. read + 1
               /\ \A i \in 1 .. j - 1 : sent[i][1] < sent[j][1]
    <3>1. CASE j = k + 1
      BY <1>1, <1>2, <3>1
    <3>2. CASE j # k + 1
      <4>1. j \in 1 .. k /\ \A i \in 1 .. j - 1 : i \in 1 .. k
        BY <1>1, <3>2
      <4>2. /\ sent[j] = h.sent[j] /\ \A i \in 1 .. j - 1 : sent[i] = h.sent[i]
            /\ h.sent[j][1] \in 1 .. read
            /\ \A i \in 1 .. j - 1 : h.sent[i][1] < h.sent[j][1]
        BY <1>1, <1>2, <4>1
      <4> QED
        BY <4>2
    <3> QED
      BY <3>1, <3>2
  <2> QED
    BY <1>1, <1>2, <1>3, <2>1 DEF GoodHistory
<1>5. /\ c \in ClientRecord /\ c.num \in Nat /\ c.out.seqno = k % SeqCount
      /\ 2 * (k - h.at) <= c.num
  BY DEF GoodClient, ClientRecord, ClientUp, ClientOut, is_sending, k
<1>6. Later(h, frag, c.num, g, frag, c.num + 1)
  <2>1. (k + 1) - k <= (c.num + 1) - c.num /\ k <= k + 1
    BY <1>1, <1>5
  <2> QED
    BY <1>1, <1>2, <1>3, <2>1 DEF Later, k
<1>7. NextSeqno(c.out.seqno) = (k + 1) % SeqCount
  BY <1>1, <1>5 DEF NextSeqno
<1>8. NextSeqno(c.out.seqno) \in Seqnos
  BY <1>5, NextSeqnoType DEF ClientRecord
<1>9. /\ out.pkt = p /\ out.offset = 0 /\ out.fragment = 0
      /\ out.seqno = NextSeqno(c.out.seqno)
      /\ out \in [pkt : Packet \cup {NoPacket}, offset : Nat, sentlen : Nat,
                  seqno : Seqnos, fragment : Nat, resent : Nat]
  BY <1>8
<1> HIDE DEF out
<1>10. /\ started \in ClientRecord /\ started.out = out /\ started.num = c.num
       /\ started.tx = {} /\ started.done = c.done
  BY <1>5, <1>9 DEF ClientRecord
<1>11. p # NoPacket /\ PacketLen[p] > 0
  BY PacketAssumption
<1> HIDE DEF started
<1>12. GoodClient(started)
  BY <1>9, <1>10, <1>11 DEF GoodClient, is_sending
<1>13. Ready(g, frag, c.num, out)
  <2>1. 2 * ((k + 1) - h.at) <= c.num + 2
    <3>1. k \in Nat /\ h.at \in Nat
      BY <1>1
    <3>2. c.num \in Nat /\ 2 * (k - h.at) <= c.num
      BY <1>5
    <3> QED
      BY <3>1, <3>2
  <2>2. 0 = UpBytes(0)
    BY BytesType
  <2>3. 0 <= c.num /\ k + 1 > 0 /\ ~ (0 > 0)
    BY <1>1, <1>5
  <2>4. Len(g.sent) = k + 1 /\ g.sent[k + 1] = p /\ g.at = h.at
    BY <1>2, <1>3
  <2>5. /\ out.pkt = p /\ out.offset = UpBytes(out.fragment)
        /\ out.fragment <= c.num /\ ~ (out.fragment > 0)
    BY <1>9, <2>2, <2>3
  <2>6. 2 * (Len(g.sent) - g.at) <= c.num + 2
    BY <2>1, <2>4
  <2> QED
    BY <1>11, <2>3, <2>4, <2>5, <2>6 DEF Ready, Sending
<1>14. ClientUp(g, frag, cut) /\ cut.num = c.num + 1 /\ cut.done = c.done
  <2>1. started.num <= MaxQueries /\ started.out.seqno = Len(g.sent) % SeqCount
    BY <1>2, <1>3, <1>7, <1>9, <1>10
  <2>2. /\ Ready(g, frag, started.num, started.out)
        /\ \A x \in started.tx : UpQuery(g, frag, started.num, x)
    BY <1>10, <1>13
  <2>3. /\ ClientUp(g, frag, cut) /\ cut.num = started.num + 1
        /\ cut.done = started.done
    BY <1>3, <1>12, <2>1, <2>2, ChunkUp
  <2> QED
    BY <1>10, <2>3
<1> HIDE DEF cut
<1>15. /\ client_tunnel_tun(c, p) = [cut EXCEPT !.soon = FALSE]
       /\ GoodClient(cut)
  <2>1. client_tunnel_tun(c, p) = [cut EXCEPT !.soon = FALSE]
    BY DEF client_tunnel_tun, NoPing, cut, started, out
  <2>2. is_sending(started)
    BY <1>9, <1>10, <1>11 DEF is_sending, Sending
  <2> QED
    BY <1>12, <2>1, <2>2, SendChunkGood DEF cut
<1>16. LET d == client_tunnel_tun(c, p)
       IN  d.num = cut.num /\ d.done = cut.done /\ d.out = cut.out /\ d.tx = cut.tx
  BY <1>15 DEF GoodClient, ClientRecord
<1> QED
  BY <1>4, <1>6, <1>14, <1>16 DEF ClientUp, g, sent

\* What send_ping_soon is makes no difference to the packets.
SameUp(c, d) ==
  d.num = c.num /\ d.done = c.done /\ d.out = c.out /\ d.tx = c.tx

LEMMA SoonUp ==
  ASSUME NEW c, GoodClient(c), NEW soon
  PROVE  SameUp(c, [c EXCEPT !.soon = soon])
BY DEF GoodClient, ClientRecord, SameUp

LEMMA SameUpKeeps ==
  ASSUME NEW h, NEW frag, NEW c, NEW d, SameUp(c, d), ClientUp(h, frag, c)
  PROVE  ClientUp(h, frag, d)
BY DEF SameUp, ClientUp

LEMMA ForgetUp ==
  ASSUME NEW h \in UpHistory, NEW frag, NEW c, GoodClient(c), NEW num \in Int,
         c.out.seqno = Len(h.sent) % SeqCount, 2 * (Len(h.sent) - h.at) <= num
  PROVE  LET d == ForgetOutpkt(c)
         IN  /\ ClientOut(h, frag, num, d.out) /\ ~ is_sending(d)
             /\ d.num = c.num /\ d.done = c.done /\ d.tx = c.tx
<1> DEFINE d == ForgetOutpkt(c)
<1>1. /\ d.out.pkt = NoPacket /\ d.out.offset = 0 /\ d.out.seqno = c.out.seqno
      /\ d.num = c.num /\ d.done = c.done /\ d.tx = c.tx
  BY DEF ForgetOutpkt, GoodClient, ClientRecord
<1> HIDE DEF d
<1>2. ~ Sending(d.out)
  BY <1>1 DEF Sending
<1> QED
  BY <1>1, <1>2 DEF ClientOut, is_sending, d

LEMMA TimeoutUp ==
  ASSUME NEW h \in UpHistory, NEW frag \in Nat, NEW c, GoodClient(c),
         c.num <= MaxQueries, ClientUp(h, frag, c)
  PROVE  LET d == Timeout(c)
         IN  ClientUp(h, frag, d) /\ d.num = c.num + 1 /\ d.done = c.done
<1> DEFINE again == [c EXCEPT !.out.resent = c.out.resent + 1]
           forgot == ForgetOutpkt(c)
           e == IF ~ is_sending(c) THEN send_ping(c)
                ELSE IF c.out.resent < DataResends THEN send_chunk(again)
                     ELSE send_ping(forgot)
           Done(d) == /\ GoodClient(d) /\ ClientUp(h, frag, d)
                      /\ d.num = c.num + 1 /\ d.done = c.done
<1>1. /\ c \in ClientRecord /\ c.num \in Nat /\ c.out.fragment \in Nat
      /\ c.out.seqno = Len(h.sent) % SeqCount
      /\ ClientOut(h, frag, c.num, c.out)
      /\ \A x \in c.tx : UpQuery(h, frag, c.num, x)
  BY DEF GoodClient, ClientRecord, ClientUp, ClientOut
<1>2. c.num + 1 \in Nat /\ c.num <= c.num + 1 /\ c.num - 1 \in Int
  BY <1>1
<1>3. ASSUME ~ is_sending(c) PROVE Done(e)
  <2>1. ClientOut(h, frag, c.num + 1, c.out)
    BY <1>1, <1>2, OutLater
  <2> DEFINE d == send_ping(c)
  <2>2. ClientUp(h, frag, d) /\ d.num = c.num + 1 /\ d.done = c.done
    BY <1>1, <2>1, PingUp
  <2>3. GoodClient(d)
    BY SendPingGood
  <2>4. e = d
    BY <1>3
  <2> QED
    BY <2>2, <2>3, <2>4
<1>4. ASSUME is_sending(c) PROVE Done(send_chunk(again)) /\ Done(send_ping(forgot))
  <2>1. Ready(h, frag, c.num - 1, c.out)
    BY <1>1, <1>4 DEF ClientOut, is_sending
  <2>2. /\ c.out.fragment <= c.num - 1
        /\ 2 * (Len(h.sent) - h.at) <= (c.num - 1) + 2
    BY <2>1 DEF Ready
  <2>3. Len(h.sent) \in Nat /\ h.at \in Nat
    BY DEF UpHistory
  <2>4. /\ c.out.fragment <= c.num
        /\ 2 * (Len(h.sent) - h.at) <= c.num + 2
        /\ 2 * (Len(h.sent) - h.at) <= c.num + 1
    <3> DEFINE m == Len(h.sent)
    <3> HIDE DEF m
    <3>1. m \in Nat /\ 2 * (m - h.at) <= (c.num - 1) + 2
      BY <2>2, <2>3 DEF m
    <3>2. 2 * (m - h.at) <= c.num + 2 /\ 2 * (m - h.at) <= c.num + 1
      BY <1>1, <2>3, <3>1
    <3> QED
      BY <1>1, <2>2, <3>2 DEF m
  <2>a. c.out.resent + 1 \in Nat
    BY <1>1 DEF ClientRecord
  <2>5. /\ again \in ClientRecord /\ again.num = c.num /\ again.done = c.done
        /\ again.tx = c.tx /\ again.out.pkt = c.out.pkt
        /\ again.out.offset = c.out.offset /\ again.out.seqno = c.out.seqno
        /\ again.out.fragment = c.out.fragment
    BY <1>1, <2>a DEF ClientRecord
  <2> HIDE DEF again
  <2>6. GoodClient(again) /\ is_sending(again)
    BY <1>4, <2>5 DEF GoodClient, is_sending, Sending
  <2>7. Ready(h, frag, c.num, again.out)
    BY <2>1, <2>4, <2>5 DEF Ready, Sending
  <2>8. Done(send_chunk(again))
    <3> DEFINE d == send_chunk(again)
    <3>1. /\ again.num <= MaxQueries /\ again.out.seqno = Len(h.sent) % SeqCount
          /\ Ready(h, frag, again.num, again.out)
          /\ \A x \in again.tx : UpQuery(h, frag, again.num, x)
      BY <1>1, <2>5, <2>7
    <3>2. ClientUp(h, frag, d) /\ d.num = again.num + 1 /\ d.done = again.done
      BY <2>6, <3>1, ChunkUp
    <3>3. GoodClient(d)
      BY <2>6, SendChunkGood
    <3> QED
      BY <2>5, <3>2, <3>3
  <2>9. /\ ClientOut(h, frag, c.num + 1, forgot.out) /\ forgot.num = c.num
        /\ forgot.done = c.done /\ forgot.tx = c.tx
    <3>1. c.num + 1 \in Int /\ 2 * (Len(h.sent) - h.at) <= c.num + 1
      BY <1>2, <2>4
    <3> QED
      BY <1>1, <3>1, ForgetUp
  <2>10. c.done \subseteq Packet
    BY <1>1 DEF ClientRecord
  <2>11. GoodClient(forgot)
    BY <2>10, ForgetGood
  <2> HIDE DEF forgot
  <2>12. Done(send_ping(forgot))
    <3> DEFINE d == send_ping(forgot)
    <3>1. /\ ClientOut(h, frag, forgot.num + 1, forgot.out)
          /\ \A x \in forgot.tx : UpQuery(h, frag, forgot.num, x)
      BY <1>1, <2>9
    <3>2. ClientUp(h, frag, d) /\ d.num = forgot.num + 1 /\ d.done = forgot.done
      BY <2>11, <3>1, PingUp
    <3>3. GoodClient(d)
      BY <2>11, SendPingGood
    <3> QED
      BY <2>9, <3>2, <3>3
  <2> QED
    BY <2>8, <2>12
<1>5. Done(e)
  <2> HIDE DEF Done, again, forgot
  <2> QED
    BY <1>3, <1>4
<1> HIDE DEF e
<1>6. Timeout(c) = [e EXCEPT !.soon = FALSE]
  BY DEF Timeout, NoPing, e
<1>7. SameUp(e, Timeout(c))
  BY <1>5, <1>6, SoonUp
<1>8. ClientUp(h, frag, Timeout(c))
  BY <1>5, <1>7, SameUpKeeps
<1> QED
  BY <1>5, <1>7, <1>8 DEF SameUp

\* tunnel_dns: what comes downstream changes nothing here.
LEMMA ReceiveUp ==
  ASSUME NEW c, GoodClient(c), NEW b, NEW something
  PROVE  SameUp(c, ReceiveDownstream(c, b, something)[1])
<1>1. SameUp(c, PingSoon(c)) /\ SameUp(c, c)
  BY SoonUp DEF PingSoon, SameUp
<1>2. SameUp(c, SkipToUnseen(c, b))
  BY DEF SkipToUnseen, PingSoon, SameUp, GoodClient, ClientRecord
<1>3. SameUp(c, AppendData(c, b)) /\ SameUp(c, PingSoon(AppendData(c, b)))
  <2> DEFINE d == AppendData(c, b)
  <2>1. SameUp(c, d) /\ d.soon = c.soon
    BY DEF AppendData, SameUp, GoodClient, ClientRecord
  <2>2. SameUp(c, [d EXCEPT !.soon = TRUE])
    BY DEF AppendData, SameUp, GoodClient, ClientRecord
  <2> QED
    BY <2>1, <2>2 DEF PingSoon
<1> QED
  BY <1>1, <1>2, <1>3 DEF ReceiveDownstream

\* The last packet written
Arrived(h) == IF h.wrote > 0 THEN {h.sent[h.wrote]} ELSE {}

\* An ack of the fragment that is being sent is an ack of this fragment.
LEMMA AckIsTrue ==
  ASSUME NEW h, NEW read, GoodHistory(h, read), NEW frag \in Nat,
         NEW c, GoodClient(c), c.num <= MaxQueries, ClientUp(h, frag, c),
         NEW n \in Nat, n >= c.num - 2, NEW ack, NEW t \in 0 .. h.at,
         Acks(h, frag, c.num, n, ack, t), IsUpstreamAck(c, ack)
  PROVE  h.at = Len(h.sent) /\ c.out.fragment <= frag
<1> DEFINE k == Len(h.sent)
<1>1. k \in Nat /\ h.at \in Nat /\ h.at <= k
  BY DEF GoodHistory, UpHistory
<1>2. /\ ack.seqno = c.out.seqno /\ ack.fragment = c.out.fragment
      /\ c.out.seqno = k % SeqCount
  BY DEF IsUpstreamAck, ClientUp, ClientOut
<1>3. /\ ack.seqno = t % SeqCount
      /\ t < h.at \/ ack.fragment <= frag
      /\ 2 * (k - t) <= 2 * c.num - n + 1
  BY DEF Acks
<1>4. c.num \in Nat /\ MaxQueries \in Nat /\ MaxQueries < 13
  BY ClientAssumption, QueryBoundAssumption DEF GoodClient, ClientRecord
<1> HIDE DEF k
<1>5. 2 * (k - t) <= 15 /\ t <= k /\ t \in Nat
  BY <1>1, <1>3, <1>4
<1>6. k - t \in -7 .. 7
  BY <1>1, <1>5
<1>7. k = t
  <2>1. k % SeqCount = t % SeqCount
    BY <1>2, <1>3
  <2> QED
    BY <1>1, <1>5, <1>6, <2>1, SeqnosDiffer
<1>8. h.at = k /\ ~ (t < h.at)
  BY <1>1, <1>7
<1> QED
  BY <1>2, <1>3, <1>8 DEF k

LEMMA FinishUp ==
  ASSUME NEW h, NEW read, GoodHistory(h, read), NEW inp, inp.fragment \in Nat,
         h.at > 0 => Assembled(h, inp),
         NEW c, GoodClient(c), c.num <= MaxQueries, ClientUp(h, inp.fragment, c),
         NEW n \in Nat, n >= c.num - 2, NEW ack, NEW t \in 0 .. h.at,
         Acks(h, inp.fragment, c.num, n, ack, t), NEW something \in BOOLEAN
  PROVE  LET d == FinishAnswer(c, ack, something)
         IN  /\ ClientUp(h, inp.fragment, d) /\ d.num \in {c.num, c.num + 1}
             /\ d.done \subseteq c.done \cup Arrived(h)
<1> DEFINE frag == inp.fragment
           k == Len(h.sent)
           o == c.out
           offset == o.offset + o.sentlen
           next == [c EXCEPT !.out.offset = offset,
                             !.out.fragment = c.out.fragment + 1,
                             !.out.resent = 0]
           forgot == ForgetOutpkt(c)
           done == c.done \cup {o.pkt}
           over == [forgot EXCEPT !.done = done]
           soon == [over EXCEPT !.soon = TRUE]
           pl == PacketLen[o.pkt]
           Acked == /\ h.at = k /\ o.fragment <= frag /\ Sending(o) /\ k > 0
                    /\ o.pkt = h.sent[k] /\ o.offset = UpBytes(o.fragment)
                    /\ o.fragment <= c.num - 1
                    /\ o.sentlen = Smaller(ChunkLen, pl - o.offset)
                    /\ o.pkt \in Packet /\ pl \in Nat /\ o.offset < pl
           Ok(d) == /\ GoodClient(d) /\ ClientUp(h, frag, d)
                    /\ d.num \in {c.num, c.num + 1}
                    /\ d.done \subseteq c.done \cup Arrived(h)
<1>1. /\ h \in UpHistory /\ k \in Nat /\ h.at \in Nat /\ h.at <= k
      /\ h.wrote \in Nat /\ h.wrote <= h.at
  BY DEF GoodHistory, UpHistory
<1>2. /\ c \in ClientRecord /\ c.num \in Nat /\ o.fragment \in Nat
      /\ o.offset \in Nat /\ o.sentlen \in Nat /\ c.done \subseteq Packet
      /\ o.seqno = k % SeqCount /\ ClientOut(h, frag, c.num, o)
      /\ \A x \in c.tx : UpQuery(h, frag, c.num, x)
  BY DEF GoodClient, ClientRecord, ClientUp, ClientOut
<1>3. Ok(c)
  BY DEF ClientUp
<1>4. ASSUME NEW d, Ok(d), d.num = c.num, ClientOut(h, frag, c.num + 1, d.out)
      PROVE  Ok(NoPing(send_ping(d)))
  <2> DEFINE e == send_ping(d)
  <2>1. ClientUp(h, frag, e) /\ e.num = c.num + 1 /\ e.done = d.done
    BY <1>1, <1>4, PingUp DEF ClientUp
  <2>2. GoodClient(e)
    BY <1>4, SendPingGood
  <2> HIDE DEF e
  <2>3. SameUp(e, [e EXCEPT !.soon = FALSE]) /\ GoodClient([e EXCEPT !.soon = FALSE])
    BY <2>2, SoonUp, SoonGood
  <2>4. ClientUp(h, frag, [e EXCEPT !.soon = FALSE])
    BY <2>1, <2>3, SameUpKeeps
  <2>5. Ok([e EXCEPT !.soon = FALSE])
    BY <1>4, <2>1, <2>3, <2>4 DEF SameUp
  <2> QED
    BY <2>5 DEF NoPing, e
<1>5. Ok(NoPing(send_ping(c)))
  <2>1. ClientOut(h, frag, c.num + 1, o)
    BY <1>1, <1>2, OutLater
  <2> QED
    BY <1>3, <1>4, <2>1
<1>6. ASSUME IsUpstreamAck(c, ack)
      PROVE  Acked
  <2>1. h.at = k /\ o.fragment <= frag
    BY <1>6, AckIsTrue
  <2>2. Sending(o)
    BY <1>6 DEF IsUpstreamAck, is_sending
  <2>3. /\ k > 0 /\ o.pkt = h.sent[k] /\ o.offset = UpBytes(o.fragment)
        /\ o.fragment <= c.num - 1
        /\ o.sentlen = Smaller(ChunkLen, PacketLen[o.pkt] - o.offset)
    BY <1>2, <2>2 DEF ClientOut, Ready
  <2>4. o.pkt \in Packet /\ PacketLen[o.pkt] \in Nat /\ o.offset < pl
    BY <1>2, <2>2, PacketAssumption DEF GoodClient, ClientRecord, is_sending, Sending
  <2> QED
    BY <2>1, <2>2, <2>3, <2>4
<1>7. ASSUME Acked, offset >= pl
      PROVE  Ok(soon) /\ Ok(NoPing(send_ping(soon)))
  <2>1. h.wrote = h.at
    <3>1. UpBytes(o.fragment + 1) >= pl
      <4>1. UpBytes(o.fragment + 1) = o.offset + ChunkLen /\ ChunkLen \in Nat
        BY <1>2, <1>7, BytesType, ClientAssumption
      <4>2. o.sentlen = Smaller(ChunkLen, pl - o.offset) /\ pl \in Nat /\ o.offset < pl
        BY <1>7
      <4>3. o.offset + o.sentlen >= pl
        BY <1>7
      <4> HIDE DEF pl, o
      <4>4. o.sentlen <= ChunkLen
        BY <1>2, <4>1, <4>2 DEF Smaller
      <4> QED
        BY <1>2, <4>1, <4>2, <4>3, <4>4
    <3>2. UpBytes(o.fragment + 1) <= UpBytes(frag + 1)
      <4>1. o.fragment + 1 \in Nat /\ frag + 1 \in Nat
        BY <1>2
      <4>2. o.fragment + 1 <= frag + 1
        <5>1. o.fragment <= frag
          BY <1>7
        <5>2. o.fragment \in Nat /\ frag \in Nat
          BY <1>2
        <5> HIDE DEF frag, o
        <5> QED
          BY <5>1, <5>2
      <4> HIDE DEF frag, o
      <4> QED
        BY <4>1, <4>2, BytesGrow
    <3>3. UpBytes(o.fragment + 1) \in Nat /\ UpBytes(frag + 1) \in Nat
      <4>1. o.fragment + 1 \in Nat /\ frag + 1 \in Nat
        BY <1>2
      <4> HIDE DEF frag, o
      <4> QED
        BY <4>1, BytesType
    <3>4. UpBytes(frag + 1) >= PacketLen[h.sent[h.at]] /\ h.at > 0
      BY <1>7, <3>1, <3>2, <3>3
    <3>5. PacketLen[h.sent[h.at]] \in Nat
      BY <1>7
    <3> QED
      BY <3>3, <3>4, <3>5 DEF Assembled
  <2>2. o.pkt \in Arrived(h)
    BY <1>1, <1>7, <2>1 DEF Arrived
  <2>3. done \subseteq c.done \cup Arrived(h) /\ done \subseteq Packet
    BY <1>2, <1>7, <2>2
  <2>4. GoodClient(over)
    BY <2>3, ForgetGood
  <2>5. 2 * (k - h.at) <= c.num /\ 2 * (k - h.at) <= c.num + 1
    BY <1>1, <1>2, <1>7
  <2>6. /\ ClientOut(h, frag, c.num, forgot.out)
        /\ ClientOut(h, frag, c.num + 1, forgot.out)
        /\ forgot.num = c.num /\ forgot.done = c.done /\ forgot.tx = c.tx
    <3>1. c.num \in Int /\ c.num + 1 \in Int
      BY <1>2
    <3> QED
      BY <1>1, <1>2, <2>5, <3>1, ForgetUp
  <2> HIDE DEF done
  <2>7. /\ over.out = forgot.out /\ over.num = c.num /\ over.tx = c.tx
        /\ over.done = done
    BY <2>6 DEF ForgetOutpkt, GoodClient, ClientRecord
  <2> HIDE DEF over
  <2>8. GoodClient(soon) /\ SameUp(over, soon)
    BY <2>4, SoonGood, SoonUp
  <2> HIDE DEF soon
  <2>9. ClientUp(h, frag, over)
    BY <1>2, <2>6, <2>7 DEF ClientUp
  <2>10. ClientUp(h, frag, soon)
    BY <2>8, <2>9, SameUpKeeps
  <2>11. Ok(soon) /\ soon.num = c.num
    BY <1>3, <2>3, <2>7, <2>8, <2>10 DEF SameUp
  <2>12. ClientOut(h, frag, c.num + 1, soon.out)
    BY <2>6, <2>7, <2>8 DEF SameUp
  <2> QED
    BY <1>4, <2>11, <2>12
<1>8. ASSUME Acked, ~ (offset >= pl)
      PROVE  Ok(NoPing(send_chunk(next)))
  <2>1. offset \in Nat /\ offset < pl /\ o.fragment + 1 \in Nat
    <3>1. pl \in Nat /\ ~ (o.offset + o.sentlen >= pl)
      BY <1>8
    <3> HIDE DEF pl, o
    <3> QED
      BY <1>2, <3>1
  <2>2. offset = UpBytes(o.fragment + 1)
    <3>1. o.sentlen = ChunkLen
      <4>1. o.sentlen = Smaller(ChunkLen, pl - o.offset) /\ pl \in Nat
        BY <1>8
      <4>2. ~ (o.offset + o.sentlen >= pl)
        BY <1>8
      <4> HIDE DEF pl, o
      <4> QED
        BY <1>2, <4>1, <4>2, ClientAssumption DEF Smaller
    <3> QED
      BY <1>2, <1>8, <3>1, BytesType
  <2> HIDE DEF offset
  <2>3. /\ next \in ClientRecord /\ next.tx = c.tx /\ next.num = c.num
        /\ next.done = c.done /\ next.out.seqno = o.seqno
        /\ next.out.pkt = o.pkt /\ next.out.offset = offset
        /\ next.out.fragment = o.fragment + 1
    BY <1>2, <2>1 DEF ClientRecord
  <2> HIDE DEF next
  <2>4. GoodClient(next) /\ is_sending(next)
    BY <1>8, <2>1, <2>3 DEF GoodClient, is_sending, Sending
  <2>5. Ready(h, frag, next.num, next.out)
    <3>1. o.fragment + 1 <= c.num /\ (o.fragment + 1) - 1 <= frag
      BY <1>2, <1>8
    <3>2. Got(h, frag, k, (o.fragment + 1) - 1)
      BY <1>8, <3>1 DEF Got
    <3>3. 2 * (k - h.at) <= c.num + 2
      BY <1>1, <1>2, <1>8
    <3> QED
      BY <1>8, <2>2, <2>3, <3>1, <3>2, <3>3 DEF Ready, Sending
  <2> DEFINE e == send_chunk(next)
  <2>6. ClientUp(h, frag, e) /\ e.num = c.num + 1 /\ e.done = c.done
    <3>1. /\ next.num <= MaxQueries /\ next.out.seqno = k % SeqCount
          /\ \A x \in next.tx : UpQuery(h, frag, next.num, x)
      BY <1>2, <2>3
    <3> QED
      BY <1>1, <2>3, <2>4, <2>5, <3>1, ChunkUp
  <2>7. GoodClient(e)
    BY <2>4, SendChunkGood
  <2> HIDE DEF e
  <2>8. SameUp(e, [e EXCEPT !.soon = FALSE]) /\ GoodClient([e EXCEPT !.soon = FALSE])
    BY <2>7, SoonUp, SoonGood
  <2>9. ClientUp(h, frag, [e EXCEPT !.soon = FALSE])
    BY <2>6, <2>8, SameUpKeeps
  <2>10. Ok([e EXCEPT !.soon = FALSE])
    BY <2>6, <2>8, <2>9 DEF SameUp
  <2> QED
    BY <2>10 DEF NoPing, e
<1> DEFINE d == FinishAnswer(c, ack, something)
<1>9. d \in {c, NoPing(send_ping(c))} \/ (IsUpstreamAck(c, ack) /\ ((offset >= pl /\ d \in {soon, NoPing(send_ping(soon))}) \/ (~ (offset >= pl) /\ d = NoPing(send_chunk(next)))))
  BY DEF FinishAnswer, PingSoon
<1> HIDE DEF d, Ok, offset, next, soon, over, Acked
<1>10. Ok(d)
  BY <1>3, <1>5, <1>6, <1>7, <1>8, <1>9
<1> QED
  BY <1>10 DEF Ok, d

LEMMA ClientDnsUp ==
  ASSUME NEW h, NEW read, GoodHistory(h, read), NEW inp, inp.fragment \in Nat,
         h.at > 0 => Assembled(h, inp),
         NEW c, GoodClient(c), c.num <= MaxQueries, ClientUp(h, inp.fragment, c),
         NEW ans \in AnswerRecord,
         UpBody(h, inp.fragment, c.num, ans.num, ans.body)
  PROVE  LET d == client_tunnel_dns(c, ans)
         IN  /\ ClientUp(h, inp.fragment, d) /\ d.num \in {c.num, c.num + 1}
             /\ d.done \subseteq c.done \cup Arrived(h)
<1> DEFINE b == WithoutStaleData(c, ans.body)
           calm == [c EXCEPT !.soon = IsStaleData(c, ans.body)]
           lazily == IF ans.num = c.num /\ c.lazymode THEN PingSoon(calm) ELSE calm
           received == ReceiveDownstream(lazily, b, c.soon)
           Ok(d) == /\ ClientUp(h, inp.fragment, d) /\ d.num \in {c.num, c.num + 1}
                    /\ d.done \subseteq c.done \cup Arrived(h)
           Plain(d) == GoodClient(d) /\ SameUp(c, d)
<1>1. /\ h \in UpHistory /\ c.num \in Nat /\ c.out.fragment \in Nat
      /\ ans.num \in Nat /\ ans.body \in BodyRecord /\ c.soon \in BOOLEAN
  BY DEF GoodHistory, GoodClient, ClientRecord, AnswerRecord
<1>2. b \in BodyRecord
  <2>1. << >> \in Seq(Cells)
    OBVIOUS
  <2> QED
    BY <1>1, <2>1 DEF WithoutStaleData, BodyRecord
<1>3. IsStaleData(c, ans.body) \in BOOLEAN
  BY DEF IsStaleData
<1>4. Plain(calm) /\ Plain(PingSoon(c))
  BY <1>3, SoonGood, SoonUp DEF PingSoon
<1> HIDE DEF calm
<1>5. Plain(lazily)
  <2>1. GoodClient(PingSoon(calm)) /\ SameUp(calm, PingSoon(calm))
    BY <1>4, SoonGood, SoonUp DEF PingSoon
  <2> QED
    BY <1>4, <2>1 DEF SameUp
<1> HIDE DEF b, lazily
<1>6. Plain(received[1]) /\ received[2] \in BOOLEAN
  <2>1. GoodClient(received[1]) /\ received[2] \in BOOLEAN
    BY <1>1, <1>2, <1>5, ReceiveGood
  <2>2. SameUp(lazily, received[1])
    BY <1>5, ReceiveUp
  <2> QED
    BY <1>5, <2>1, <2>2 DEF SameUp
<1> HIDE DEF received
<1>7. ASSUME NEW d, Plain(d) PROVE Ok(d) /\ d.num = c.num
  BY <1>7, SameUpKeeps DEF SameUp
<1>8. Ok(NoPing(send_ping(calm)))
  <2> DEFINE e == send_ping(calm)
  <2>1. calm.num = c.num /\ calm.out = c.out /\ calm.tx = c.tx /\ calm.done = c.done
    BY <1>4 DEF SameUp
  <2>2. c.num + 1 \in Nat /\ c.num <= c.num + 1
    BY <1>1
  <2>3. ClientOut(h, inp.fragment, calm.num + 1, calm.out)
    BY <1>1, <2>1, <2>2, OutLater DEF ClientUp
  <2>4. \A x \in calm.tx : UpQuery(h, inp.fragment, calm.num, x)
    BY <2>1 DEF ClientUp
  <2>5. ClientUp(h, inp.fragment, e) /\ e.num = c.num + 1 /\ e.done = c.done
    BY <1>1, <1>4, <2>1, <2>3, <2>4, PingUp
  <2>6. GoodClient(e)
    BY <1>4, SendPingGood
  <2> HIDE DEF e
  <2>7. SameUp(e, [e EXCEPT !.soon = FALSE])
    BY <2>6, SoonUp
  <2>8. ClientUp(h, inp.fragment, [e EXCEPT !.soon = FALSE])
    BY <2>5, <2>7, SameUpKeeps
  <2> QED
    BY <2>5, <2>7, <2>8 DEF SameUp, NoPing, e
<1>9. ASSUME ans.body.legal, IsRecentId(c, ans.num)
      PROVE  Ok(FinishAnswer(received[1], ans.body.ack, received[2]))
  <2>1. PICK t \in 0 .. h.at : Acks(h, inp.fragment, c.num, ans.num, ans.body.ack, t)
    BY <1>9 DEF UpBody
  <2>2. ans.num >= c.num - 2
    BY <1>1, <1>9 DEF IsRecentId
  <2>3. received[1].num = c.num /\ received[1].done = c.done /\ GoodClient(received[1])
    BY <1>6 DEF SameUp
  <2>4. ClientUp(h, inp.fragment, received[1])
    BY <1>6, <1>7
  <2> QED
    BY <1>1, <1>6, <2>1, <2>2, <2>3, <2>4, FinishUp
<1> HIDE DEF Ok
<1>10. Ok(client_tunnel_dns(c, ans))
  <2>1. Ok(PingSoon(c)) /\ Ok(calm)
    BY <1>4, <1>7
  <2> HIDE DEF Plain
  <2> QED
    BY <1>8, <1>9, <2>1 DEF client_tunnel_dns, calm, lazily, received, b
<1> QED
  BY <1>10 DEF Ok

-----------------------------------------------------------------------------
(***************************************************************************)
(* What iodined does with them.  Of its handlers only ReceiveUpstream      *)
(* changes inpacket; the others answer with what is there.                 *)
(***************************************************************************)
UpState(h, num, u) == GoodUser(u) /\ ServerUp(h, num, u)

UpSame(u, v) == v.inp = u.inp /\ v.written = u.written

Quiet(h, num, u, v) == UpState(h, num, v) /\ UpSame(u, v)

\* The answers and the cache of v are those of u and some of its own.
LEMMA QuietIf ==
  ASSUME NEW h, NEW num, NEW u, UpState(h, num, u),
         NEW v, GoodUser(v), UpSame(u, v), v.q.num <= num, v.soonq.num <= num,
         \A i \in DOMAIN v.cache : UpBody(h, u.inp.fragment, num, v.cache[i].num, v.cache[i].body),
         \A a \in v.tx : UpBody(h, u.inp.fragment, num, a.num, a.body)
  PROVE  Quiet(h, num, u, v)
BY DEF Quiet, UpState, UpSame, ServerUp

LEMMA QuietTwice ==
  ASSUME NEW h, NEW num, NEW u, NEW v, NEW w, Quiet(h, num, u, v), Quiet(h, num, v, w)
  PROVE  Quiet(h, num, u, w)
BY DEF Quiet, UpSame

\* The answers and what is cached are the same.
LEMMA QuietSame ==
  ASSUME NEW h, NEW num, NEW u, UpState(h, num, u),
         NEW v, GoodUser(v), UpSame(u, v), v.q.num <= num, v.soonq.num <= num,
         v.tx = u.tx, v.cache = u.cache
  PROVE  Quiet(h, num, u, v)
BY QuietIf DEF UpState, ServerUp

\* The query held in a field has a number.
LEMMA NumberType ==
  ASSUME NEW u, GoodUser(u), NEW f \in {"q", "soonq"}
  PROVE  u[f].num \in Nat
<1>1. f = "q" \/ f = "soonq"
  OBVIOUS
<1> QED
  BY <1>1 DEF GoodUser, UserRecord, QueryRecord

\* What a send adds to the answers and to dnscache
LEMMA SendBodies ==
  ASSUME NEW u, GoodUser(u), NEW f \in {"q", "soonq"}, Held(u[f])
  PROVE  LET v == SendOn(u, f)
             body == AnswerBody(u, send_next_chunk(u.out, FragSize).chunk)
         IN  /\ \A a \in v.tx : a \in u.tx \/ (a.num = u[f].num /\ a.body = body)
             /\ \A k \in DOMAIN v.cache :
                  \/ \E i \in DOMAIN u.cache : v.cache[k] = u.cache[i]
                  \/ v.cache[k].num = u[f].num /\ v.cache[k].body = body
<1> DEFINE body == AnswerBody(u, send_next_chunk(u.out, FragSize).chunk)
           num == u[f].num
           new == {Answer(num, id, body) : id \in {u[f].id, u[f].id2} \ {NoId}}
           answered == [num |-> num, body |-> body]
           cache == Remember(u.cache, answered, DnscacheLen)
           v == SendOn(u, f)
<1>1. body \in BodyRecord /\ num \in Nat
  BY BodyType, NumberType
<1>2. v.tx = u.tx \cup new /\ v.cache = cache
  <2>1. f = "q" \/ f = "soonq"
    OBVIOUS
  <2> QED
    BY <2>1 DEF SendOn, send_chunk_or_dataless, GoodUser, UserRecord
<1>3. \A a \in new : a.num = num /\ a.body = body
  <2> HIDE DEF body, num
  <2> QED
    BY DEF Answer
<1>4. \A k \in DOMAIN cache :
        cache[k] = answered \/ \E i \in DOMAIN u.cache : cache[k] = u.cache[i]
  <2>1. answered \in CacheRecord /\ u.cache \in Seq(CacheRecord)
    BY <1>1 DEF CacheRecord, GoodUser, UserRecord
  <2> HIDE DEF answered
  <2> QED
    BY <2>1, RememberType, UserAssumption
<1>5. answered.num = num /\ answered.body = body
  OBVIOUS
<1> HIDE DEF body, num, new, answered, cache, v
<1>6. /\ \A a \in v.tx : a \in u.tx \/ (a.num = num /\ a.body = body)
      /\ \A k \in DOMAIN v.cache :
           \/ \E i \in DOMAIN u.cache : v.cache[k] = u.cache[i]
           \/ v.cache[k].num = num /\ v.cache[k].body = body
  BY <1>2, <1>3, <1>4, <1>5
<1> QED
  BY <1>6 DEF v, num, body

LEMMA BodyIsTrue ==
  ASSUME NEW h, NEW read, GoodHistory(h, read), NEW num \in Nat,
         NEW u, UpState(h, num, u), NEW n \in Nat, n <= num, NEW chunk
  PROVE  UpBody(h, u.inp.fragment, num, n, AnswerBody(u, chunk))
<1> DEFINE body == AnswerBody(u, chunk)
           k == Len(h.sent)
<1>1. /\ k \in Nat /\ h.at \in Nat /\ 2 * (k - h.at) <= num + 1
      /\ u.inp.seqno = h.at % SeqCount /\ u.inp.fragment \in FragNos
  BY DEF GoodHistory, UpHistory, UpState, ServerUp, GoodUser, UserRecord
<1>2. body.ack = Header(u.inp)
  <2> DEFINE ack == Header(u.inp)
             down == Header(chunk)
             data == CellsOf(chunk.pkt, chunk.from, chunk.len)
             b == Body(ack, down, chunk.last, data)
  <2>1. body = b
    BY DEF AnswerBody
  <2> HIDE DEF ack, down, data, body
  <2>2. b.ack = ack
    BY DEF Body
  <2> HIDE DEF b
  <2>3. body.ack = ack
    BY <2>1, <2>2
  <2> QED
    BY <2>3 DEF ack
<1>3. FragField(u.inp.fragment) = u.inp.fragment
  <2> DEFINE f == u.inp.fragment
  <2>1. f \in 0 .. 15
    BY <1>1
  <2> HIDE DEF f
  <2>2. FragField(f) = f
    BY <2>1 DEF FragField
  <2> QED
    BY <2>2 DEF f
<1> HIDE DEF body, k
<1>4. body.ack.seqno = h.at % SeqCount /\ body.ack.fragment = u.inp.fragment
  BY <1>1, <1>2, <1>3 DEF Header
<1>5. 2 * (k - h.at) <= 2 * num - n + 1
  <2> DEFINE x == 2 * (k - h.at)
  <2>1. x \in Int /\ x <= num + 1 /\ num + 1 <= 2 * num - n + 1
    BY <1>1
  <2> HIDE DEF x
  <2>2. x <= 2 * num - n + 1
    BY <2>1
  <2> QED
    BY <2>2 DEF x
<1>6. Acks(h, u.inp.fragment, num, n, body.ack, h.at)
  <2> DEFINE ack == body.ack
             frag == u.inp.fragment
  <2>1. ack.seqno = h.at % SeqCount /\ ack.fragment <= frag
    BY <1>1, <1>4
  <2>2. 2 * (Len(h.sent) - h.at) <= 2 * num - n + 1
    BY <1>5 DEF k
  <2> HIDE DEF ack, frag
  <2>3. Acks(h, frag, num, n, ack, h.at)
    BY <2>1, <2>2 DEF Acks
  <2> QED
    BY <2>3 DEF ack, frag
<1>7. h.at \in 0 .. h.at
  BY <1>1
<1> QED
  BY <1>6, <1>7 DEF UpBody, body

LEMMA SendQuiet ==
  ASSUME NEW h, NEW read, GoodHistory(h, read), NEW num \in Nat,
         NEW u, UpState(h, num, u), NEW f \in {"q", "soonq"}, Held(u[f])
  PROVE  Quiet(h, num, u, SendOn(u, f))
<1> DEFINE v == SendOn(u, f)
           chunk == send_next_chunk(u.out, FragSize).chunk
           body == AnswerBody(u, chunk)
           n == u[f].num
<1>1. /\ GoodUser(u) /\ u.q.num <= num /\ u.soonq.num <= num
      /\ \A i \in DOMAIN u.cache : UpBody(h, u.inp.fragment, num, u.cache[i].num, u.cache[i].body)
      /\ \A a \in u.tx : UpBody(h, u.inp.fragment, num, a.num, a.body)
  BY DEF UpState, ServerUp
<1>2. n \in Nat /\ n <= num
  <2>1. f = "q" \/ f = "soonq"
    OBVIOUS
  <2>2. n <= num
    BY <1>1, <2>1
  <2> QED
    BY <1>1, <2>2, NumberType
<1>3. UpBody(h, u.inp.fragment, num, n, body)
  <2> HIDE DEF n
  <2> QED
    BY <1>2, BodyIsTrue
<1>4. /\ \A a \in v.tx : a \in u.tx \/ (a.num = n /\ a.body = body)
      /\ \A k \in DOMAIN v.cache :
           \/ \E i \in DOMAIN u.cache : v.cache[k] = u.cache[i]
           \/ v.cache[k].num = n /\ v.cache[k].body = body
  BY <1>1, SendBodies
<1>5. Sent(u, f, v)
  BY <1>1, SendUser
<1> HIDE DEF v, body, n
<1>6. v.q.num <= num /\ v.soonq.num <= num /\ GoodUser(v) /\ UpSame(u, v)
  BY <1>1, <1>5, NoQueryType DEF Sent, UpSame
<1>7. \A a \in v.tx : UpBody(h, u.inp.fragment, num, a.num, a.body)
  BY <1>1, <1>3, <1>4
<1>8. \A k \in DOMAIN v.cache : UpBody(h, u.inp.fragment, num, v.cache[k].num, v.cache[k].body)
  BY <1>1, <1>3, <1>4
<1>9. Quiet(h, num, u, v)
  BY <1>6, <1>7, <1>8, QuietIf
<1> QED
  BY <1>9 DEF v

LEMMA AckQuiet ==
  ASSUME NEW h, NEW num, NEW u, UpState(h, num, u), NEW ack \in Headers
  PROVE  Quiet(h, num, u, Acknowledge(u, ack))
<1> DEFINE v == Acknowledge(u, ack)
<1>1. GoodUser(u) /\ u.q.num <= num /\ u.soonq.num <= num
  BY DEF UpState, ServerUp
<1>2. v.tx = u.tx /\ v.cache = u.cache
  BY <1>1 DEF Acknowledge, GoodUser, UserRecord
<1>3. GoodUser(v) /\ SameQueries(u, v) /\ v.inp = u.inp /\ v.written = u.written
  BY <1>1, AckCarries DEF Carries
<1> HIDE DEF v
<1>4. Quiet(h, num, u, v)
  BY <1>1, <1>2, <1>3, QuietSame DEF SameQueries, UpSame
<1> QED
  BY <1>4 DEF v

LEMMA StoreQuiet ==
  ASSUME NEW h, NEW num, NEW u, UpState(h, num, u),
         NEW qry, NewQuery(qry), qry.num <= num
  PROVE  Quiet(h, num, u, [u EXCEPT !.q = qry])
<1> DEFINE v == [u EXCEPT !.q = qry]
<1>1. GoodUser(u) /\ u.soonq.num <= num
  BY DEF UpState, ServerUp
<1>2. /\ v \in UserRecord /\ v.q = qry /\ v.soonq = u.soonq /\ v.out = u.out
      /\ v.tx = u.tx /\ v.cache = u.cache /\ v.inp = u.inp /\ v.written = u.written
  BY <1>1 DEF GoodUser, UserRecord, NewQuery
<1> HIDE DEF v
<1>3. Held(qry)
  BY DEF NewQuery, Held, Ids, NoId
<1>4. GoodUser(v)
  BY <1>1, <1>2, <1>3 DEF GoodUser, HeldOrNone, NewQuery
<1>5. Quiet(h, num, u, v)
  BY <1>1, <1>2, <1>4, QuietSame DEF UpSame
<1> QED
  BY <1>5 DEF v

LEMMA PostponeQuiet ==
  ASSUME NEW h, NEW num \in Nat, NEW u, UpState(h, num, u)
  PROVE  Quiet(h, num, u, Postpone(u))
<1> DEFINE v == Postpone(u)
<1>1. GoodUser(u) /\ u.q.num <= num
  BY DEF UpState, ServerUp
<1>2. /\ v \in UserRecord /\ v.q = NoQuery /\ v.soonq = u.q /\ v.out = u.out
      /\ v.tx = u.tx /\ v.cache = u.cache /\ v.inp = u.inp /\ v.written = u.written
  BY <1>1, NoQueryType DEF Postpone, GoodUser, UserRecord
<1> HIDE DEF v
<1>3. GoodUser(v) /\ v.q.num <= num
  BY <1>1, <1>2, NoQueryType DEF GoodUser, HeldOrNone
<1>4. Quiet(h, num, u, v)
  BY <1>1, <1>2, <1>3, QuietSame DEF UpSame
<1> QED
  BY <1>4 DEF v

LEMMA TunQuiet ==
  ASSUME NEW h, NEW read, GoodHistory(h, read), NEW num \in Nat,
         NEW u, UpState(h, num, u), NEW p \in Packet
  PROVE  Quiet(h, num, u, iodined_tunnel_tun(u, p))
<1> DEFINE started == [u EXCEPT !.out = AcceptPacket(u.out, p)]
           f == IF Held(u.soonq) THEN "soonq" ELSE "q"
           v == iodined_tunnel_tun(u, p)
<1>1. GoodUser(u) /\ u.q.num <= num /\ u.soonq.num <= num
  BY DEF UpState, ServerUp
<1>2. GoodUser(started) /\ SameQueries(u, started)
  BY <1>1, AcceptCarries DEF Carries
<1>3. /\ started.tx = u.tx /\ started.cache = u.cache /\ started.inp = u.inp
      /\ started.written = u.written
  BY <1>1 DEF GoodUser, UserRecord
<1>4. v = IF Sending(u.out) \/ ~ (Held(u.q) \/ Held(u.soonq)) THEN started
          ELSE SendOn(started, f)
  BY DEF iodined_tunnel_tun
<1> HIDE DEF started, v
<1>5. Quiet(h, num, u, started)
  BY <1>1, <1>2, <1>3, QuietSame DEF SameQueries, UpSame
<1>6. ASSUME Held(u.q) \/ Held(u.soonq) PROVE Quiet(h, num, u, SendOn(started, f))
  <2>1. f \in {"q", "soonq"} /\ Held(started[f])
    BY <1>2, <1>6 DEF SameQueries
  <2> HIDE DEF f
  <2>2. UpState(h, num, started)
    BY <1>5 DEF Quiet
  <2>3. Quiet(h, num, started, SendOn(started, f))
    BY <2>1, <2>2, SendQuiet
  <2> QED
    BY <1>5, <2>3, QuietTwice
<1>7. Quiet(h, num, u, v)
  BY <1>4, <1>5, <1>6
<1> QED
  BY <1>7 DEF v

LEMMA LoopHeadQuiet ==
  ASSUME NEW h, NEW num, NEW u, UpState(h, num, u)
  PROVE  Quiet(h, num, u, LoopHead(u))
<1> DEFINE v == LoopHead(u)
<1>1. GoodUser(u) /\ u.q.num <= num /\ u.soonq.num <= num
  BY DEF UpState, ServerUp
<1>2. GoodUser(v) /\ v.q = u.q /\ v.soonq = u.soonq
  BY <1>1, LoopHeadCarries DEF Carries
<1>3. v.tx = u.tx /\ v.cache = u.cache /\ v.inp = u.inp /\ v.written = u.written
  BY <1>1 DEF LoopHead, GoodUser, UserRecord
<1> HIDE DEF v
<1>4. Quiet(h, num, u, v)
  BY <1>1, <1>2, <1>3, QuietSame DEF UpSame
<1> QED
  BY <1>4 DEF v

LEMMA SendIfHeldQuiet ==
  ASSUME NEW h, NEW read, GoodHistory(h, read), NEW num \in Nat,
         NEW u, UpState(h, num, u), NEW f \in {"q", "soonq"}
  PROVE  /\ Quiet(h, num, u, u)
         /\ Quiet(h, num, u, SendIfHeld(u, f))
         /\ Held(u[f]) => Quiet(h, num, u, SendOn(u, f))
<1>1. Quiet(h, num, u, u)
  BY DEF Quiet, UpSame
<1> QED
  BY <1>1, SendQuiet DEF SendIfHeld

LEMMA LoopEndQuiet ==
  ASSUME NEW h, NEW read, GoodHistory(h, read), NEW num \in Nat,
         NEW u, UpState(h, num, u)
  PROVE  Quiet(h, num, u, LoopEnd(u))
<1>1. Held(u.soonq) => Held(u["soonq"])
  OBVIOUS
<1>2. Quiet(h, num, u, u) /\ (Held(u["soonq"]) => Quiet(h, num, u, SendOn(u, "soonq")))
  BY SendIfHeldQuiet
<1> QED
  BY <1>1, <1>2 DEF LoopEnd

\* A query seen before is answered as it was, or not yet.
LEMMA DuplicateQuiet ==
  ASSUME NEW h, NEW num, NEW u, UpState(h, num, u),
         NEW qry, NewQuery(qry), SeenBefore(u, qry)
  PROVE  Quiet(h, num, u, HandleDuplicate(u, qry))
<1> DEFINE v == HandleDuplicate(u, qry)
           frag == u.inp.fragment
<1>1. /\ GoodUser(u) /\ u.q.num <= num /\ u.soonq.num <= num
      /\ \A i \in DOMAIN u.cache : UpBody(h, frag, num, u.cache[i].num, u.cache[i].body)
      /\ \A a \in u.tx : UpBody(h, frag, num, a.num, a.body)
  BY DEF UpState, ServerUp
<1>2. GoodUser(v) /\ v.q.num = u.q.num /\ v.soonq.num = u.soonq.num
  BY <1>1, DuplicateHandled
<1>3. ASSUME NEW body, UpBody(h, frag, num, qry.num, body),
             v = [u EXCEPT !.tx = u.tx \cup {Answer(qry.num, qry.id, body)}]
      PROVE  Quiet(h, num, u, v)
  <2> DEFINE ans == Answer(qry.num, qry.id, body)
             tx == u.tx \cup {ans}
  <2>1. ans.num = qry.num /\ ans.body = body
    BY DEF Answer
  <2> HIDE DEF ans
  <2>2. \A a \in tx : UpBody(h, frag, num, a.num, a.body)
    BY <1>1, <1>3, <2>1
  <2>3. v = [u EXCEPT !.tx = tx]
    BY <1>3 DEF ans
  <2> HIDE DEF tx, v
  <2>4. v.tx = tx /\ v.cache = u.cache /\ v.inp = u.inp /\ v.written = u.written
    BY <1>1, <2>3 DEF GoodUser, UserRecord
  <2> QED
    BY <1>1, <1>2, <2>2, <2>4, QuietIf DEF UpSame
<1>4. CASE InCache(u, qry.num)
  <2>1. v = answer_from_dnscache(u, qry)
    BY <1>4 DEF HandleDuplicate
  <2>2. PICK body \in BodyRecord :
          /\ \E i \in DOMAIN u.cache : u.cache[i].num = qry.num /\ u.cache[i].body = body
          /\ v = [u EXCEPT !.tx = u.tx \cup {Answer(qry.num, qry.id, body)}]
    BY <1>1, <1>4, <2>1, CacheAnswers
  <2>3. UpBody(h, frag, num, qry.num, body)
    BY <1>1, <2>2
  <2> HIDE DEF v
  <2> QED
    BY <1>3, <2>2, <2>3 DEF v
<1>5. CASE ~ InCache(u, qry.num) /\ InQmem(u, qry)
  <2>1. v = [u EXCEPT !.tx = u.tx \cup {Answer(qry.num, qry.id, QmemBody)}]
    BY <1>5 DEF HandleDuplicate, answer_from_qmem
  <2>2. UpBody(h, frag, num, qry.num, QmemBody)
    BY DEF UpBody, QmemBody
  <2> HIDE DEF v
  <2> QED
    BY <1>3, <2>1, <2>2 DEF v
<1>6. CASE ~ InCache(u, qry.num) /\ ~ InQmem(u, qry)
  <2>1. \/ v = [u EXCEPT !.q.id2 = qry.id]
        \/ v = [u EXCEPT !.soonq.id2 = qry.id]
    BY <1>6 DEF HandleDuplicate
  <2> HIDE DEF v
  <2>2. v.tx = u.tx /\ v.cache = u.cache /\ v.inp = u.inp /\ v.written = u.written
    BY <1>1, <2>1 DEF GoodUser, UserRecord
  <2>3. Quiet(h, num, u, v)
    BY <1>1, <1>2, <2>2, QuietSame DEF UpSame
  <2> QED
    BY <2>3 DEF v
<1> QED
  BY <1>4, <1>5, <1>6

LEMMA PingQuiet ==
  ASSUME NEW h, NEW read, GoodHistory(h, read), NEW num \in Nat,
         NEW u, UpState(h, num, u), NEW qry, NewQuery(qry), qry.num <= num
  PROVE  Quiet(h, num, u, HandlePing(u, qry))
<1> DEFINE k == Acknowledge(u, qry.ack)
           a == SendIfHeld(k, "soonq")
           s == send_chunk_or_dataless(a, "q")
           r == IF Held(a.q) THEN s.user ELSE a
           b == [r EXCEPT !.q = qry]
           v == HandlePing(u, qry)
<1>1. v = b \/ v = SendOn(b, "q")
  BY DEF HandlePing
<1>2. qry.ack \in Headers /\ Held(qry)
  BY DEF NewQuery, QueryRecord, Held, Ids, NoId
<1>3. Quiet(h, num, u, k)
  BY <1>2, AckQuiet
<1> HIDE DEF k, v
<1>4. Quiet(h, num, u, a)
  <2>1. UpState(h, num, k) /\ "soonq" \in {"q", "soonq"}
    BY <1>3 DEF Quiet
  <2>2. Quiet(h, num, k, a)
    BY <2>1, SendIfHeldQuiet
  <2> HIDE DEF a
  <2> QED
    BY <1>3, <2>2, QuietTwice
<1> HIDE DEF a
<1>5. Quiet(h, num, u, r)
  <2>1. UpState(h, num, a) /\ "q" \in {"q", "soonq"} /\ a["q"] = a.q
    BY <1>4 DEF Quiet
  <2>2. Held(a.q) => Quiet(h, num, a, SendOn(a, "q"))
    BY <2>1, SendIfHeldQuiet
  <2>3. Held(a.q) => r = SendOn(a, "q")
    BY DEF SendOn
  <2>4. ~ Held(a.q) => r = a
    OBVIOUS
  <2> HIDE DEF r
  <2> QED
    BY <1>4, <2>2, <2>3, <2>4, QuietTwice
<1> HIDE DEF r
<1>6. Quiet(h, num, u, b)
  <2>1. UpState(h, num, r)
    BY <1>5 DEF Quiet
  <2>2. Quiet(h, num, r, b)
    BY <2>1, StoreQuiet
  <2> HIDE DEF b
  <2> QED
    BY <1>5, <2>2, QuietTwice
<1>7. b.q = qry
  <2>1. r \in UserRecord
    BY <1>5 DEF Quiet, UpState, GoodUser
  <2> QED
    BY <2>1 DEF UserRecord
<1> HIDE DEF b
<1>8. Quiet(h, num, u, SendOn(b, "q"))
  <2>1. UpState(h, num, b) /\ "q" \in {"q", "soonq"} /\ Held(b["q"])
    BY <1>2, <1>6, <1>7 DEF Quiet
  <2>2. Quiet(h, num, b, SendOn(b, "q"))
    BY <2>1, SendQuiet
  <2> QED
    BY <1>6, <2>2, QuietTwice
<1> QED
  BY <1>1, <1>6, <1>8 DEF v

\* A data query, once its fragment has been received
LEMMA DataQuiet ==
  ASSUME NEW h, NEW read, GoodHistory(h, read), NEW num \in Nat,
         NEW u, UpState(h, num, u), NEW qry, NewQuery(qry), qry.num <= num, NEW ok
  PROVE  LET soon  == AnswerPutOff(u)
             roomy == MakeRoom(soon[1], soon[2], ok, qry.last)
         IN  Quiet(h, num, u, AnswerOrKeep([roomy[1] EXCEPT !.q = qry], roomy[2],
                                           ok, qry.last))
<1> DEFINE soon == AnswerPutOff(u)
           a == soon[1]
           roomy == MakeRoom(a, soon[2], ok, qry.last)
           r == roomy[1]
           b == [r EXCEPT !.q = qry]
           v == AnswerOrKeep(b, roomy[2], ok, qry.last)
<1>1. Held(qry) /\ Quiet(h, num, u, u)
  BY DEF NewQuery, Held, Ids, NoId, Quiet, UpSame
<1>2. Quiet(h, num, u, a)
  <2>1. "soonq" \in {"q", "soonq"} /\ u["soonq"] = u.soonq
    OBVIOUS
  <2>2. Held(u.soonq) => Quiet(h, num, u, SendOn(u, "soonq"))
    BY <2>1, SendIfHeldQuiet
  <2>3. IF Held(u.soonq) THEN a = SendOn(u, "soonq") ELSE a = u
    BY DEF AnswerPutOff, SendNow, SendOn
  <2> HIDE DEF a
  <2> QED
    BY <1>1, <2>2, <2>3
<1>3. r = a \/ (Held(a.q) /\ r = SendOn(a, "q")) \/ r = Postpone(a)
  <2> DEFINE early == soon[2]
  <2> HIDE DEF a, early
  <2> QED
    BY DEF MakeRoom, SendNow, SendOn
<1> HIDE DEF a, r
<1>4. UpState(h, num, a)
  BY <1>2 DEF Quiet
<1>5. Quiet(h, num, a, a) /\ Quiet(h, num, a, Postpone(a))
  BY <1>4, PostponeQuiet DEF Quiet, UpSame
<1>6. Held(a.q) => Quiet(h, num, a, SendOn(a, "q"))
  <2>1. "q" \in {"q", "soonq"} /\ a["q"] = a.q
    OBVIOUS
  <2> QED
    BY <1>4, <2>1, SendIfHeldQuiet
<1>7. Quiet(h, num, u, r)
  BY <1>2, <1>3, <1>5, <1>6, QuietTwice
<1>8. UpState(h, num, r) /\ GoodUser(r)
  BY <1>7 DEF Quiet, UpState
<1>9. Quiet(h, num, u, b) /\ b.q = qry
  <2>1. Quiet(h, num, r, b)
    BY <1>8, StoreQuiet
  <2>2. b.q = qry
    BY <1>8 DEF GoodUser, UserRecord
  <2> HIDE DEF b
  <2> QED
    BY <1>7, <2>1, <2>2, QuietTwice
<1>10. v = SendOn(b, "q") \/ v = b \/ v = Postpone(b)
  <2> DEFINE didsend == roomy[2]
  <2> HIDE DEF b, didsend
  <2> QED
    BY DEF AnswerOrKeep
<1> HIDE DEF b, v
<1>11. UpState(h, num, b)
  BY <1>9 DEF Quiet
<1>12. Quiet(h, num, b, Postpone(b))
  BY <1>11, PostponeQuiet
<1>13. Quiet(h, num, b, SendOn(b, "q"))
  <2>1. "q" \in {"q", "soonq"} /\ Held(b["q"])
    BY <1>1, <1>9
  <2> QED
    BY <1>11, <2>1, SendQuiet
<1>14. Quiet(h, num, u, v)
  BY <1>9, <1>10, <1>12, <1>13, QuietTwice
<1> QED
  BY <1>14 DEF v, b, r, a

-----------------------------------------------------------------------------
(***************************************************************************)
(* A fragment arrives.  It is one the server has had, or it is the next    *)
(* of the packet it has, or the first of a later one.                      *)
(***************************************************************************)
\* The history moves on with inpacket and with what is written to tun.
UpMoves(h, u, g, v) ==
  /\ g.sent = h.sent
  /\ h.at < g.at \/ (h.at = g.at /\ u.inp.fragment <= v.inp.fragment)
  /\ \/ g.wrote = h.wrote /\ v.written = u.written
     \/ g.wrote > h.wrote /\ v.written = Append(u.written, h.sent[g.wrote])

Received(h, read, num, u, v) ==
  \E g : GoodHistory(g, read) /\ UpState(g, num, v) /\ UpMoves(h, u, g, v)

LEMMA FirstCell ==
  ASSUME NEW p \in Packet, NEW buf, IsPacket(buf, p)
  PROVE  buf[1][1] = p
<1>1. 1 \in 1 .. PacketLen[p]
  BY PacketAssumption
<1> QED
  BY <1>1 DEF IsPacket, CellsOf

\* Fragment f of p, avail bytes before the end, is of len bytes.
PieceOf(p, f, avail, len) ==
  UpBytes(f) + avail = PacketLen[p] /\ len = Smaller(ChunkLen, avail)

LEMMA PieceAdded ==
  ASSUME NEW p \in Packet, NEW f \in Nat, NEW avail \in Nat \ {0},
         NEW len \in Nat, PieceOf(p, f, avail, len)
  PROVE  /\ len = avail => UpBytes(f) + len = PacketLen[p] /\ UpBytes(f + 1) >= PacketLen[p]
         /\ len # avail => UpBytes(f) + len = UpBytes(f + 1) /\ UpBytes(f + 1) < PacketLen[p]
<1> DEFINE n == UpBytes(f)
           m == UpBytes(f + 1)
<1>1. /\ PacketLen[p] \in Nat \ {0} /\ ChunkLen \in Nat \ {0}
      /\ n \in Nat /\ m = n + ChunkLen
  BY PacketAssumption, ClientAssumption, BytesType
<1> HIDE DEF n, m
<1>2. n + avail = PacketLen[p]
  BY DEF PieceOf, n
<1>3. avail \in Nat /\ len \in Nat /\ len <= ChunkLen /\ len <= avail
      /\ (len = avail \/ len = ChunkLen)
  BY <1>1 DEF Smaller, PieceOf
<1>4. len = avail => n + len = PacketLen[p] /\ m >= PacketLen[p]
  BY <1>1, <1>2, <1>3
<1>5. len # avail => len = ChunkLen /\ len < avail
  BY <1>3
<1>6. len # avail => n + len = m /\ m < PacketLen[p]
  BY <1>1, <1>2, <1>3, <1>5
<1> QED
  BY <1>4, <1>6 DEF m, n

\* What inpacket is when the fragment is taken
LEMMA TakenIs ==
  ASSUME NEW u, GoodUser(u), NEW qry, NewQuery(qry), upstream_ok(u, qry.up),
         NEW p \in Packet, NEW f \in Nat, NEW avail \in Nat \ {0},
         NEW len \in Nat, PieceOf(p, f, avail, len),
         qry.data = CellsOf(p, UpBytes(f), len), qry.last = (len = avail),
         (IF SameUpstream(u, qry.up) THEN u.inp.buf ELSE << >>) = CellsOf(p, 0, UpBytes(f))
  PROVE  LET v == ReceiveUpstream(u, qry)
             n == UpBytes(f + 1)
         IN  /\ v.inp.seqno = qry.up.seqno /\ v.inp.fragment = qry.up.fragment
             /\ IF qry.last
                THEN /\ v.inp.buf = << >> /\ n >= PacketLen[p]
                     /\ v.written = Append(u.written, p)
                ELSE /\ v.inp.buf = CellsOf(p, 0, n) /\ n < PacketLen[p]
                     /\ v.written = u.written
<1> DEFINE kept == IF SameUpstream(u, qry.up) THEN u.inp.buf ELSE << >>
           buf == kept \o qry.data
           inp == [buf |-> buf, seqno |-> qry.up.seqno, fragment |-> qry.up.fragment]
           r == [u EXCEPT !.inp = inp]
           n == UpBytes(f + 1)
           v == ReceiveUpstream(u, qry)
<1>1. v = IF qry.last THEN handle_full_packet(r) ELSE r
  BY DEF ReceiveUpstream
<1>2. /\ qry.last => /\ IsPacket(buf, p) /\ buf[1][1] = p
                     /\ n >= PacketLen[p]
      /\ ~ qry.last => /\ buf = CellsOf(p, 0, n)
                       /\ n < PacketLen[p]
  <2>1. /\ buf = CellsOf(p, 0, UpBytes(f)) \o CellsOf(p, UpBytes(f), len)
        /\ qry.last <=> len = avail
    OBVIOUS
  <2> HIDE DEF buf, kept, inp, r, v
  <2>2. buf = CellsOf(p, 0, UpBytes(f) + len)
    <3>1. UpBytes(f) \in Nat
      BY BytesType
    <3>2. CellsOf(p, 0, UpBytes(f)) \o CellsOf(p, UpBytes(f), len) = CellsOf(p, 0, UpBytes(f) + len)
      BY <3>1, CellsJoin
    <3> QED
      BY <2>1, <3>2
  <2>3. /\ len = avail => UpBytes(f) + len = PacketLen[p] /\ n >= PacketLen[p]
        /\ len # avail => UpBytes(f) + len = n /\ n < PacketLen[p]
    BY PieceAdded
  <2>5. /\ len = avail => IsPacket(buf, p) /\ n >= PacketLen[p]
        /\ len # avail => buf = CellsOf(p, 0, n) /\ n < PacketLen[p]
    <3> HIDE DEF n
    <3> QED
      BY <2>2, <2>3 DEF IsPacket
  <2>4. len = avail => buf[1][1] = p
    BY <2>5, FirstCell
  <2> HIDE DEF n
  <2> QED
    BY <2>1, <2>4, <2>5
<1>3. inp.buf = buf /\ inp.seqno = qry.up.seqno /\ inp.fragment = qry.up.fragment
  OBVIOUS
<1> HIDE DEF buf, inp, n
<1>4. r.inp = inp /\ r.written = u.written /\ r = [u EXCEPT !.inp = inp]
  BY DEF GoodUser, UserRecord
<1>5. CASE qry.last
  <2>1. \E x \in Packet : IsPacket(r.inp.buf, x)
    BY <1>2, <1>3, <1>4, <1>5
  <2>2. r.inp.buf[1][1] = p
    BY <1>2, <1>3, <1>4, <1>5
  <2> DEFINE written == Append(u.written, p)
  <2>3. v = [r EXCEPT !.written = written, !.inp.buf = << >>]
    BY <1>1, <1>4, <1>5, <2>1, <2>2 DEF handle_full_packet
  <2>5. DOMAIN r = DOMAIN u /\ "written" \in DOMAIN u /\ "inp" \in DOMAIN u
    BY <1>4 DEF GoodUser, UserRecord
  <2>6. DOMAIN inp = {"buf", "seqno", "fragment"}
    BY DEF inp
  <2> HIDE DEF v, r, written
  <2>4. v.written = written /\ v.inp = [inp EXCEPT !.buf = << >>]
    BY <1>4, <2>3, <2>5
  <2>7. v.inp.buf = << >> /\ v.inp.seqno = inp.seqno /\ v.inp.fragment = inp.fragment
    BY <2>4, <2>6
  <2> QED
    BY <1>2, <1>3, <1>5, <2>4, <2>7 DEF v, n, written
<1>6. CASE ~ qry.last
  <2>1. v.inp = inp /\ v.written = u.written
    BY <1>1, <1>4, <1>6
  <2> HIDE DEF v
  <2> QED
    BY <1>2, <1>3, <1>6, <2>1 DEF v, n
<1> QED
  BY <1>5, <1>6

LEMMA TakenUp ==
  ASSUME NEW h, NEW read, GoodHistory(h, read), NEW num \in Nat,
         NEW u, UpState(h, num, u), NEW qry, NewQuery(qry), upstream_ok(u, qry.up),
         NEW i \in 1 .. Len(h.sent), NEW f \in FragNos,
         Carried(h, u.inp.fragment, num, qry, i, f), h.wrote < i,
         h.at < i \/ (h.at = i /\ u.inp.fragment <= f),
         (IF SameUpstream(u, qry.up) THEN u.inp.buf ELSE << >>) =
           CellsOf(h.sent[i], 0, UpBytes(f))
  PROVE  Received(h, read, num, u, ReceiveUpstream(u, qry))
<1> DEFINE frag == u.inp.fragment
           k == Len(h.sent)
           p == h.sent[i]
           avail == PacketLen[p] - UpBytes(f)
           len == Smaller(ChunkLen, avail)
           wrote == IF qry.last THEN i ELSE h.wrote
           g == [sent |-> h.sent, at |-> i, wrote |-> wrote]
           v == ReceiveUpstream(u, qry)
<1>1. /\ h \in UpHistory /\ h.sent \in Seq(Packet) /\ k \in Nat /\ p \in Packet
      /\ h.at \in Nat /\ h.wrote \in Nat /\ f \in Nat
  BY DEF GoodHistory, UpHistory
<1>2. /\ qry.up = [seqno |-> i % SeqCount, fragment |-> f] /\ avail > 0
      /\ qry.data = CellsOf(p, UpBytes(f), len) /\ qry.last = (len = avail)
  BY DEF Carried
<1>3. qry \in QueryRecord /\ qry.last \in BOOLEAN
  BY DEF NewQuery, QueryRecord
<1>4. /\ GoodUser(u) /\ ServerUp(h, num, u) /\ frag \in Nat
  <2>1. frag \in FragNos
    BY DEF UpState, GoodUser, UserRecord
  <2> HIDE DEF frag
  <2> QED
    BY <2>1 DEF UpState
<1>5. GoodUser(v) /\ SameQueries(u, v)
  BY <1>3, <1>4, ReceiveCarries DEF Carries
<1>6. /\ v.inp.seqno = i % SeqCount /\ v.inp.fragment = f
      /\ IF qry.last
         THEN /\ v.inp.buf = << >> /\ UpBytes(f + 1) >= PacketLen[p]
              /\ v.written = Append(u.written, p)
         ELSE /\ v.inp.buf = CellsOf(p, 0, UpBytes(f + 1)) /\ UpBytes(f + 1) < PacketLen[p]
              /\ v.written = u.written
  <2> HIDE DEF p
  <2>1. len = Smaller(ChunkLen, avail) /\ len \in Nat
    <3>1. avail \in Nat /\ ChunkLen \in Nat
      <4>1. PacketLen[p] \in Nat /\ UpBytes(f) \in Nat
        BY <1>1, PacketAssumption, BytesType
      <4> QED
        BY <1>2, <4>1, ClientAssumption
    <3> HIDE DEF avail
    <3> QED
      BY <3>1 DEF Smaller
  <2>4. avail \in Nat \ {0} /\ UpBytes(f) + avail = PacketLen[p]
    <3>1. PacketLen[p] \in Nat /\ UpBytes(f) \in Nat
      BY <1>1, PacketAssumption, BytesType
    <3> DEFINE b == UpBytes(f)
               l == PacketLen[p]
    <3>2. b \in Nat /\ l \in Nat /\ avail = l - b /\ avail > 0
      BY <1>2, <3>1
    <3> HIDE DEF b, l, avail
    <3>3. avail \in Nat \ {0} /\ b + avail = l
      BY <3>2
    <3> QED
      BY <3>3 DEF b, l
  <2>2. (IF SameUpstream(u, qry.up) THEN u.inp.buf ELSE << >>) = CellsOf(p, 0, UpBytes(f))
    BY DEF p
  <2>3. /\ qry.up.seqno = i % SeqCount /\ qry.up.fragment = f
    BY <1>2
  <2>5. PieceOf(p, f, avail, len)
    BY <2>1, <2>4 DEF PieceOf
  <2> HIDE DEF avail, len
  <2> QED
    BY <1>1, <1>2, <1>4, <2>1, <2>2, <2>3, <2>4, <2>5, TakenIs
<1> HIDE DEF v, avail, len
<1>7. /\ g.sent = h.sent /\ g.at = i /\ g.wrote = wrote
      /\ wrote \in Nat /\ wrote <= i /\ h.wrote <= wrote
  BY <1>1
<1>8. GoodHistory(g, read)
  <2>1. g \in UpHistory
    BY <1>1, <1>7 DEF UpHistory
  <2> HIDE DEF g, wrote
  <2> QED
    BY <1>1, <1>7, <2>1 DEF GoodHistory
<1> HIDE DEF g
<1>9. Later(h, frag, num, g, f, num)
  <2>1. k - k <= num - num
    BY <1>1
  <2> QED
    BY <1>1, <1>7, <2>1 DEF Later
<1>10. /\ \A j \in DOMAIN u.cache : UpBody(g, f, num, u.cache[j].num, u.cache[j].body)
       /\ \A a \in u.tx : UpBody(g, f, num, a.num, a.body)
  <2>1. ASSUME NEW n \in Nat, NEW body \in BodyRecord, UpBody(h, frag, num, n, body)
        PROVE  UpBody(g, f, num, n, body)
    <3> HIDE DEF frag
    <3> QED
      BY <1>1, <1>4, <1>9, <2>1, BodyLater
  <2>2. ASSUME NEW j \in DOMAIN u.cache
        PROVE  UpBody(g, f, num, u.cache[j].num, u.cache[j].body)
    <3>1. u.cache[j] \in CacheRecord
      BY <1>4 DEF GoodUser, UserRecord
    <3>2. u.cache[j].num \in Nat /\ u.cache[j].body \in BodyRecord
      BY <3>1 DEF CacheRecord
    <3>3. UpBody(h, frag, num, u.cache[j].num, u.cache[j].body)
      BY <1>4 DEF ServerUp
    <3> QED
      BY <2>1, <3>2, <3>3
  <2>3. ASSUME NEW a \in u.tx
        PROVE  UpBody(g, f, num, a.num, a.body)
    <3>1. a \in AnswerRecord
      BY <1>4 DEF GoodUser, UserRecord
    <3>2. a.num \in Nat /\ a.body \in BodyRecord
      BY <3>1 DEF AnswerRecord
    <3>3. UpBody(h, frag, num, a.num, a.body)
      BY <1>4 DEF ServerUp
    <3> QED
      BY <2>1, <3>2, <3>3
  <2> QED
    BY <2>2, <2>3
<1>11. Assembled(g, v.inp)
  <2>1. CASE qry.last
    BY <1>6, <1>7, <2>1 DEF Assembled
  <2>2. CASE ~ qry.last
    <3>1. g.wrote # g.at
      BY <1>1, <1>7, <2>2
    <3> QED
      BY <1>6, <1>7, <2>2, <3>1 DEF Assembled
  <2> QED
    BY <2>1, <2>2
<1>12. Wrote(g, v.written)
  <2>1. CASE qry.last
    <3>1. u.written \in Seq(Packet)
      BY <1>4 DEF GoodUser, UserRecord
    <3>2. v.written # << >> /\ v.written[Len(v.written)] = p
      BY <1>1, <1>6, <2>1, <3>1
    <3>3. g.wrote = i /\ i # 0 /\ h.sent[i] = p
      BY <1>7, <2>1
    <3> QED
      BY <1>7, <3>2, <3>3 DEF Wrote
  <2>2. CASE ~ qry.last
    BY <1>4, <1>6, <1>7, <2>2 DEF Wrote, ServerUp
  <2> QED
    BY <2>1, <2>2
<1>13. 2 * (Len(g.sent) - g.at) <= num + 1
  <2>1. 2 * (k - h.at) <= num + 1 /\ h.at <= i
    BY <1>1, <1>4 DEF ServerUp
  <2> HIDE DEF k
  <2>2. 2 * (k - i) <= num + 1
    BY <1>1, <2>1
  <2> QED
    BY <1>7, <2>2 DEF k
<1>14. ServerUp(g, num, v)
  BY <1>4, <1>5, <1>6, <1>7, <1>10, <1>11, <1>12, <1>13 DEF ServerUp, SameQueries
<1>15. UpMoves(h, u, g, v)
  <2>1. CASE qry.last
    <3>1. g.wrote > h.wrote /\ v.written = Append(u.written, h.sent[g.wrote])
      BY <1>1, <1>6, <1>7, <2>1
    <3> QED
      BY <1>6, <1>7, <3>1 DEF UpMoves
  <2>2. CASE ~ qry.last
    BY <1>6, <1>7, <2>2 DEF UpMoves
  <2> QED
    BY <2>1, <2>2
<1> QED
  BY <1>5, <1>8, <1>14, <1>15 DEF Received, UpState, v

\* The server as it was
LEMMA NothingReceived ==
  ASSUME NEW h, NEW read, GoodHistory(h, read), NEW num,
         NEW u, UpState(h, num, u), NEW v, Quiet(h, num, u, v)
  PROVE  Received(h, read, num, u, v)
<1>1. UpMoves(h, u, h, v)
  BY DEF UpMoves, Quiet, UpSame, UpState, GoodUser, UserRecord
<1> QED
  BY <1>1 DEF Received, Quiet

LEMMA ReceiveIsUp ==
  ASSUME NEW h, NEW read, GoodHistory(h, read), NEW num \in Nat, num <= MaxQueries,
         NEW u, UpState(h, num, u), NEW qry, NewQuery(qry), qry.kind = "data",
         UpQuery(h, u.inp.fragment, num, qry), num <= qry.num + MaxLag,
         MaxLag < RecentSpan
  PROVE  Received(h, read, num, u, ReceiveUpstream(u, qry))
<1> DEFINE frag == u.inp.fragment
           k == Len(h.sent)
<1>1. /\ h \in UpHistory /\ k \in Nat /\ h.at \in Nat /\ h.wrote \in Nat
      /\ h.wrote <= h.at /\ h.at <= k
      /\ \A x \in 1 .. k : h.sent[x] \in Packet
  BY DEF GoodHistory, UpHistory
<1>2. /\ GoodUser(u) /\ frag \in FragNos /\ u.inp.seqno = h.at % SeqCount
      /\ 2 * (k - h.at) <= num + 1
      /\ h.at > 0 => Assembled(h, u.inp)
  BY DEF UpState, ServerUp, GoodUser, UserRecord
<1>3. PICK i \in 1 .. k, f \in FragNos : Carried(h, frag, num, qry, i, f)
  BY DEF UpQuery
<1> DEFINE p == h.sent[i]
<1>0. /\ i \in Nat /\ i > 0 /\ f \in Nat /\ p \in Packet
      /\ PacketLen[p] \in Nat /\ UpBytes(f) \in Nat
  <2>1. i \in 1 .. k /\ p \in Packet /\ f \in Nat
    BY <1>1
  <2> HIDE DEF p, k
  <2> QED
    BY <1>1, <2>1, PacketAssumption, BytesType
<1>4. /\ qry.up.seqno = i % SeqCount /\ qry.up.fragment = f
      /\ k - i <= num - qry.num
      /\ UpBytes(f) < PacketLen[p]
      /\ f > 0 => i < h.at \/ (i = h.at /\ f - 1 <= frag)
  <2>1. PacketLen[p] - UpBytes(f) > 0
    BY <1>3 DEF Carried
  <2>2. UpBytes(f) < PacketLen[p]
    <3> HIDE DEF p
    <3> QED
      BY <1>0, <2>1
  <2> QED
    BY <1>3, <2>2 DEF Carried, Got
<1> HIDE DEF k, p
<1>5. h.at - i \in -6 .. 3
  <2>1. /\ num <= 12 /\ MaxLag \in 0 .. 3 /\ MaxQueries \in Nat
    BY ClientAssumption, QueryBoundAssumption, TunnelAssumption DEF RecentSpan
  <2>2. qry.num \in Nat
    BY DEF NewQuery, QueryRecord
  <2>3. k - i <= 3
    BY <1>0, <1>1, <1>4, <2>1, <2>2
  <2>4. k - h.at <= 6
    BY <1>1, <1>2, <2>1
  <2>5. i <= k
    BY <1>1, <1>3
  <2> QED
    BY <1>0, <1>1, <2>3, <2>4, <2>5
<1>6. Received(h, read, num, u, u)
  BY NothingReceived DEF Quiet, UpSame
<1>7. ReceiveUpstream(u, qry) = u \/ upstream_ok(u, qry.up)
  BY DEF ReceiveUpstream
<1> SUFFICES ASSUME upstream_ok(u, qry.up)
             PROVE  Received(h, read, num, u, ReceiveUpstream(u, qry))
  BY <1>6, <1>7
<1>8. ~ RepeatedUp(u, qry.up) /\ ~ RecentUp(u, qry.up)
  BY DEF upstream_ok
<1>9. SameUpstream(u, qry.up) <=> i = h.at
  <2>1. i - h.at \in -7 .. 7
    BY <1>0, <1>1, <1>5
  <2>2. i % SeqCount = h.at % SeqCount => i = h.at
    BY <1>0, <1>1, <2>1, SeqnosDiffer
  <2> QED
    BY <1>2, <1>4, <2>2 DEF SameUpstream
<1>10. CASE i < h.at
  <2>1. h.at - i \in 1 .. RecentSpan - 1 
    BY <1>0, <1>1, <1>5, <1>10 DEF RecentSpan
  <2>2. recent_seqno(h.at % SeqCount, i % SeqCount)
    BY <1>0, <1>1, <2>1, RecentLooksOld
  <2>3. RecentUp(u, qry.up)
    BY <1>2, <1>4, <1>9, <1>10, <2>2 DEF RecentUp
  <2> QED
    BY <1>8, <2>3
<1> DEFINE kept == IF SameUpstream(u, qry.up) THEN u.inp.buf ELSE << >>
<1>11. CASE i = h.at
  <2>1. SameUpstream(u, qry.up)
    BY <1>9, <1>11
  <2>2. ~ (qry.up.fragment <= frag)
    BY <1>8, <2>1 DEF RepeatedUp
  <2>3. f = frag + 1
    <3> HIDE DEF frag
    <3> QED
      BY <1>0, <1>2, <1>4, <1>11, <2>2
  <2>4. /\ IF h.wrote = h.at THEN UpBytes(f) >= PacketLen[p]
           ELSE u.inp.buf = CellsOf(p, 0, UpBytes(f))
    <3>1. Assembled(h, u.inp)
      BY <1>0, <1>1, <1>2, <1>11
    <3>2. p = h.sent[h.at] /\ UpBytes(f) = UpBytes(u.inp.fragment + 1)
      BY <1>11, <2>3 DEF p
    <3> HIDE DEF frag
    <3> QED
      BY <3>1, <3>2 DEF Assembled
  <2>5. h.wrote # h.at
    BY <1>0, <1>4, <2>4
  <2>6. kept = CellsOf(h.sent[i], 0, UpBytes(f))
    BY <2>1, <2>4, <2>5 DEF p
  <2>7. h.wrote < i /\ frag <= f
    <3> HIDE DEF frag
    <3> QED
      BY <1>0, <1>1, <1>2, <1>11, <2>3, <2>5
  <2>8. i \in 1 .. Len(h.sent) /\ Carried(h, u.inp.fragment, num, qry, i, f)
    BY <1>3 DEF k
  <2> HIDE DEF kept
  <2> QED
    BY <1>11, <2>6, <2>7, <2>8, TakenUp DEF kept
<1>12. CASE i > h.at
  <2>1. ~ SameUpstream(u, qry.up) /\ f = 0
    <3> HIDE DEF frag
    <3> QED
      BY <1>0, <1>1, <1>4, <1>9, <1>12
  <2>2. kept = CellsOf(h.sent[i], 0, UpBytes(f))
    <3>1. UpBytes(f) = 0 /\ kept = << >>
      BY <2>1, BytesType
    <3> HIDE DEF kept
    <3> QED
      BY <3>1 DEF CellsOf
  <2>3. h.wrote < i /\ h.at < i
    BY <1>0, <1>1, <1>12
  <2>4. i \in 1 .. Len(h.sent) /\ Carried(h, u.inp.fragment, num, qry, i, f)
    BY <1>3 DEF k
  <2> HIDE DEF kept
  <2> QED
    BY <2>2, <2>3, <2>4, TakenUp DEF kept
<1> QED
  BY <1>0, <1>1, <1>10, <1>11, <1>12

LEMMA QuietThenReceived ==
  ASSUME NEW h, NEW read, NEW num, NEW u, NEW v, NEW w,
         Quiet(h, num, u, v), Received(h, read, num, v, w)
  PROVE  Received(h, read, num, u, w)
BY DEF Quiet, UpSame, Received, UpMoves

LEMMA ReceivedThenQuiet ==
  ASSUME NEW h, NEW read, NEW num, NEW u, NEW v, NEW w, Received(h, read, num, u, v),
         \A g : GoodHistory(g, read) /\ UpState(g, num, v) => Quiet(g, num, v, w)
  PROVE  Received(h, read, num, u, w)
BY DEF Quiet, UpSame, Received, UpMoves

LEMMA DataUp ==
  ASSUME NEW h, NEW read, GoodHistory(h, read), NEW num \in Nat, num <= MaxQueries,
         NEW u, UpState(h, num, u), NEW qry, NewQuery(qry), qry.kind = "data",
         UpQuery(h, u.inp.fragment, num, qry), num <= qry.num + MaxLag,
         MaxLag < RecentSpan
  PROVE  Received(h, read, num, u, HandleData(u, qry))
<1> DEFINE ok == upstream_ok(u, qry.up)
           k == Acknowledge(u, qry.ack)
           r == ReceiveUpstream(k, qry)
           Rest(x) == LET soon  == AnswerPutOff(x)
                          roomy == MakeRoom(soon[1], soon[2], ok, qry.last)
                      IN  AnswerOrKeep([roomy[1] EXCEPT !.q = qry], roomy[2], ok, qry.last)
<1>1. HandleData(u, qry) = Rest(r)
  BY DEF HandleData
<1>2. qry.ack \in Headers /\ qry.num <= num
  BY DEF NewQuery, QueryRecord, UpQuery
<1>3. Quiet(h, num, u, k)
  BY <1>2, AckQuiet
<1> HIDE DEF k, ok
<1>4. UpState(h, num, k) /\ UpQuery(h, k.inp.fragment, num, qry)
  BY <1>3 DEF Quiet, UpSame
<1>5. Received(h, read, num, k, r)
  BY <1>4, ReceiveIsUp
<1> HIDE DEF r
<1>6. \A g : GoodHistory(g, read) /\ UpState(g, num, r) => Quiet(g, num, r, Rest(r))
  BY <1>2, DataQuiet
<1> HIDE DEF Rest
<1> QED
  BY <1>1, <1>3, <1>5, <1>6, QuietThenReceived, ReceivedThenQuiet

LEMMA DnsUp ==
  ASSUME NEW h, NEW read, GoodHistory(h, read), NEW num \in Nat, num <= MaxQueries,
         NEW u, UpState(h, num, u), NEW qry, NewQuery(qry),
         UpQuery(h, u.inp.fragment, num, qry), num <= qry.num + MaxLag,
         MaxLag < RecentSpan
  PROVE  Received(h, read, num, u, iodined_tunnel_dns(u, qry))
<1> DEFINE v == iodined_tunnel_dns(u, qry)
<1>1. qry.num <= num /\ qry.kind \in {"ping", "data"}
  BY DEF UpQuery, NewQuery, QueryRecord, Kinds
<1>2. CASE SeenBefore(u, qry)
  <2>1. v = HandleDuplicate(u, qry)
    BY <1>2 DEF iodined_tunnel_dns
  <2> HIDE DEF v
  <2>2. Quiet(h, num, u, v)
    BY <1>2, <2>1, DuplicateQuiet
  <2> QED
    BY <2>2, NothingReceived DEF v
<1>3. CASE ~ SeenBefore(u, qry) /\ qry.kind = "ping"
  <2>1. v = HandlePing(u, qry)
    BY <1>3 DEF iodined_tunnel_dns
  <2> HIDE DEF v
  <2>2. Quiet(h, num, u, v)
    BY <1>1, <2>1, PingQuiet
  <2> QED
    BY <2>2, NothingReceived DEF v
<1>4. CASE ~ SeenBefore(u, qry) /\ qry.kind = "data"
  <2>1. v = HandleData(u, qry)
    BY <1>4 DEF iodined_tunnel_dns
  <2> HIDE DEF v
  <2>2. Received(h, read, num, u, v)
    BY <1>4, <2>1, DataUp
  <2> QED
    BY <2>2 DEF v
<1> QED
  BY <1>1, <1>2, <1>3, <1>4

\* An iteration of the loop of iodined
LEMMA IodinedUp ==
  ASSUME TunnelInvariant, IodinedNext, MaxLag < RecentSpan,
         NEW h, GoodHistory(h, upRead), UpState(h, client.num, user),
         client.num <= MaxQueries,
         \A qry \in queries : /\ UpQuery(h, user.inp.fragment, client.num, qry)
                              /\ client.num <= qry.num + MaxLag
  PROVE  \E v : /\ Received(h, upRead, client.num, user, v)
               /\ UserBecomes(v)
               /\ queries' \subseteq queries
               /\ UNCHANGED << client, upRead >>
<1> DEFINE num == client.num
           head == LoopHead(user)
<1>1. num \in Nat
  BY DEF TunnelInvariant, GoodClient, ClientRecord
<1>2. Quiet(h, num, user, head)
  BY LoopHeadQuiet
<1>3. \A qry \in queries : NewQuery(qry)
  BY DEF TunnelInvariant
<1> HIDE DEF head
<1>4. ASSUME NEW m, Received(h, upRead, num, head, m)
      PROVE  Received(h, upRead, num, user, LoopEnd(m))
  <2>1. \A g : GoodHistory(g, upRead) /\ UpState(g, num, m) => Quiet(g, num, m, LoopEnd(m))
    BY <1>1, LoopEndQuiet
  <2>2. Received(h, upRead, num, head, LoopEnd(m))
    BY <1>4, <2>1, ReceivedThenQuiet
  <2> QED
    BY <1>2, <2>2, QuietThenReceived
<1>5. UpState(h, num, head) /\ head.inp = user.inp
  BY <1>2 DEF Quiet, UpSame
<1>6. ASSUME NEW m, Quiet(h, num, head, m), NEW qry \in queries
      PROVE  Received(h, upRead, num, head, iodined_tunnel_dns(m, qry))
  <2>1. UpState(h, num, m) /\ m.inp = user.inp
    BY <1>5, <1>6 DEF Quiet, UpSame
  <2>2. UpQuery(h, m.inp.fragment, num, qry) /\ num <= qry.num + MaxLag /\ NewQuery(qry)
    BY <1>3, <2>1
  <2>3. Received(h, upRead, num, m, iodined_tunnel_dns(m, qry))
    BY <1>1, <2>1, <2>2, DnsUp
  <2> QED
    BY <1>6, <2>3, QuietThenReceived
<1>7. Quiet(h, num, head, head) /\ Received(h, upRead, num, head, head)
  BY <1>5, NothingReceived DEF Quiet, UpSame
<1>8. \A p \in DownNext : Quiet(h, num, head, iodined_tunnel_tun(head, p))
  BY <1>1, <1>5, NextPacketType, TunQuiet
<1>9. CASE \E p \in DownNext : IodinedTun(p)
  <2>1. PICK p \in DownNext : IodinedTun(p)
    BY <1>9
  <2>2. Received(h, upRead, num, head, iodined_tunnel_tun(head, p))
    BY <1>5, <1>8, NothingReceived
  <2> DEFINE v == LoopEnd(iodined_tunnel_tun(head, p))
  <2>3. /\ UserBecomes(v)
        /\ queries' \subseteq queries /\ UNCHANGED << client, upRead >>
    BY <2>1 DEF IodinedTun, head
  <2>4. Received(h, upRead, num, user, v)
    BY <1>4, <2>2
  <2> HIDE DEF v
  <2> QED
    BY <2>3, <2>4
<1>10. CASE \E qry \in queries : IodinedDns(qry)
  <2>1. PICK qry \in queries : IodinedDns(qry)
    BY <1>10
  <2>2. Received(h, upRead, num, head, iodined_tunnel_dns(head, qry))
    BY <1>6, <1>7
  <2> DEFINE v == LoopEnd(iodined_tunnel_dns(head, qry))
  <2>3. /\ UserBecomes(v)
        /\ queries' \subseteq queries /\ UNCHANGED << client, upRead >>
    BY <2>1 DEF IodinedDns, head
  <2>4. Received(h, upRead, num, user, v)
    BY <1>4, <2>2
  <2> HIDE DEF v
  <2> QED
    BY <2>3, <2>4
<1>11. CASE \E p \in DownNext, qry \in queries : IodinedTunAndDns(p, qry)
  <2>1. PICK p \in DownNext, qry \in queries : IodinedTunAndDns(p, qry)
    BY <1>11
  <2>2. Received(h, upRead, num, head,
                 iodined_tunnel_dns(iodined_tunnel_tun(head, p), qry))
    BY <1>6, <1>8
  <2> DEFINE v == LoopEnd(iodined_tunnel_dns(iodined_tunnel_tun(head, p), qry))
  <2>3. /\ UserBecomes(v)
        /\ queries' \subseteq queries /\ UNCHANGED << client, upRead >>
    BY <2>1 DEF IodinedTunAndDns, head
  <2>4. Received(h, upRead, num, user, v)
    BY <1>4, <2>2
  <2> HIDE DEF v
  <2> QED
    BY <2>3, <2>4
<1>12. CASE IodinedIdle
  <2> DEFINE v == LoopEnd(head)
  <2>1. /\ UserBecomes(v)
        /\ queries' \subseteq queries /\ UNCHANGED << client, upRead >>
    BY <1>12 DEF IodinedIdle, head
  <2>2. Received(h, upRead, num, user, v)
    BY <1>4, <1>7
  <2> HIDE DEF v
  <2> QED
    BY <2>1, <2>2
<1> QED
  BY <1>9, <1>10, <1>11, <1>12 DEF IodinedNext

-----------------------------------------------------------------------------
(***************************************************************************)
(* Both ends and the relays together.                                      *)
(***************************************************************************)
UpInv(h) ==
  /\ upRead \in Nat /\ GoodHistory(h, upRead)
  /\ client.num <= MaxQueries
  /\ ClientUp(h, user.inp.fragment, client)
  /\ ServerUp(h, client.num, user)
  /\ \A qry \in queries : /\ UpQuery(h, user.inp.fragment, client.num, qry)
                          /\ client.num <= qry.num + MaxLag
  /\ \A a \in answers : UpBody(h, user.inp.fragment, client.num, a.num, a.body)
  /\ \A p \in client.done : \E i \in DOMAIN user.written : user.written[i] = p

\* The client has gone on from h to g: the server is what it was.
LEMMA ServerLater ==
  ASSUME NEW h, NEW read, GoodHistory(h, read), NEW g \in UpHistory,
         NEW num \in Nat, NEW num2 \in Nat, num <= num2, NEW u, UpState(h, num, u),
         Later(h, u.inp.fragment, num, g, u.inp.fragment, num2),
         g.at = h.at, g.wrote = h.wrote, 2 * (Len(g.sent) - g.at) <= num2 + 1
  PROVE  ServerUp(g, num2, u)
<1> DEFINE frag == u.inp.fragment
<1>1. /\ h \in UpHistory /\ h.at \in Nat /\ h.wrote \in Nat /\ Len(h.sent) \in Nat
      /\ h.wrote <= h.at /\ h.at <= Len(h.sent)
  BY DEF GoodHistory, UpHistory
<1>2. /\ ServerUp(h, num, u) /\ u \in UserRecord /\ u.inp.fragment \in FragNos
  BY DEF UpState, GoodUser, UserRecord
<1>3. frag \in Nat
  <2> HIDE DEF frag
  <2>1. frag \in FragNos
    BY <1>2 DEF frag
  <2> QED
    BY <2>1
<1> HIDE DEF frag
<1>4. \A k \in 1 .. Len(h.sent) : g.sent[k] = h.sent[k]
  BY DEF Later
<1>5. ASSUME NEW n \in Nat, NEW body \in BodyRecord, UpBody(h, frag, num, n, body)
      PROVE  UpBody(g, frag, num2, n, body)
  BY <1>1, <1>3, <1>5, BodyLater DEF frag
<1>6. ASSUME NEW j \in DOMAIN u.cache
      PROVE  UpBody(g, frag, num2, u.cache[j].num, u.cache[j].body)
  <2>1. u.cache[j] \in CacheRecord
    BY <1>2 DEF UserRecord
  <2>2. u.cache[j].num \in Nat /\ u.cache[j].body \in BodyRecord
    BY <2>1 DEF CacheRecord
  <2>3. UpBody(h, frag, num, u.cache[j].num, u.cache[j].body)
    BY <1>2 DEF ServerUp, frag
  <2> QED
    BY <1>5, <2>2, <2>3
<1>7. ASSUME NEW a \in u.tx PROVE UpBody(g, frag, num2, a.num, a.body)
  <2>1. a \in AnswerRecord
    BY <1>2 DEF UserRecord
  <2>2. a.num \in Nat /\ a.body \in BodyRecord
    BY <2>1 DEF AnswerRecord
  <2>3. UpBody(h, frag, num, a.num, a.body)
    BY <1>2 DEF ServerUp, frag
  <2> QED
    BY <1>5, <2>2, <2>3
<1>8. g.at > 0 => Assembled(g, u.inp)
  <2> SUFFICES ASSUME g.at > 0 PROVE Assembled(g, u.inp)
    OBVIOUS
  <2>1. g.sent[g.at] = h.sent[h.at]
    BY <1>1, <1>4
  <2>2. Assembled(h, u.inp)
    BY <1>2 DEF ServerUp
  <2> QED
    BY <2>1, <2>2 DEF Assembled
<1>9. Wrote(g, u.written)
  <2>1. h.wrote # 0 => h.wrote \in 1 .. Len(h.sent)
    BY <1>1
  <2>3. g.wrote # 0 => g.sent[g.wrote] = h.sent[h.wrote]
    BY <1>4, <2>1
  <2> QED
    BY <1>2, <2>3 DEF Wrote, ServerUp
<1>10. u.q.num <= num2 /\ u.soonq.num <= num2
  <2>1. u.q \in QueryRecord /\ u.soonq \in QueryRecord
    BY <1>2 DEF UserRecord
  <2>2. u.q.num \in Nat /\ u.soonq.num \in Nat
    BY <2>1 DEF QueryRecord
  <2>3. u.q.num <= num /\ u.soonq.num <= num
    BY <1>2 DEF ServerUp
  <2> QED
    BY <2>2, <2>3
<1>11. u.inp.seqno = g.at % SeqCount
  BY <1>2 DEF ServerUp
<1> QED
  BY <1>6, <1>7, <1>8, <1>9, <1>10, <1>11 DEF ServerUp, frag

\* A packet the server does not have has cost the client two queries.
LEMMA OutLags ==
  ASSUME NEW h \in UpHistory, NEW frag, NEW num \in Nat, NEW o, ClientOut(h, frag, num, o)
  PROVE  2 * (Len(h.sent) - h.at) <= num + 1
<1> DEFINE k == Len(h.sent)
<1>1. k \in Nat /\ h.at \in Nat
  BY DEF UpHistory
<1>2. CASE Sending(o)
  <2>1. 2 * (k - h.at) <= (num - 1) + 2
    BY <1>2 DEF ClientOut, Ready
  <2> HIDE DEF k
  <2>2. 2 * (k - h.at) <= num + 1
    BY <1>1, <2>1
  <2> QED
    BY <2>2 DEF k
<1>3. CASE ~ Sending(o)
  <2>1. 2 * (k - h.at) <= num
    BY <1>3 DEF ClientOut
  <2> HIDE DEF k
  <2>2. 2 * (k - h.at) <= num + 1
    BY <1>1, <2>1
  <2> QED
    BY <2>2 DEF k
<1> QED
  BY <1>2, <1>3

LEMMA ClientStepUp ==
  ASSUME TunnelInvariant, NEW h, UpInv(h),
         upRead' \in Nat, NEW g, GoodHistory(g, upRead'),
         NEW c, GoodClient(c), ClientBecomes(c), ClientUp(g, user.inp.fragment, c),
         Later(h, user.inp.fragment, client.num, g, user.inp.fragment, c.num),
         client.num <= c.num, g.at = h.at, g.wrote = h.wrote,
         c.done \subseteq client.done \cup Arrived(h),
         answers' \subseteq answers, user' = user
  PROVE  UpInv(g)'
<1> DEFINE frag == user.inp.fragment
           num == client.num
           num2 == c.num
           d == [c EXCEPT !.tx = {}]
<1>1. /\ h \in UpHistory /\ GoodHistory(h, upRead) /\ g \in UpHistory
      /\ h.wrote \in Nat
  BY DEF UpInv, GoodHistory, UpHistory
<1>2. /\ num \in Nat /\ num2 \in Nat /\ GoodUser(user)
      /\ scenario \in Scenarios /\ answers \subseteq AnswerRecord
      /\ c \in ClientRecord
  BY DEF TunnelInvariant, GoodClient, ClientRecord
<1>3. frag \in Nat
  <2>1. frag \in FragNos
    BY <1>2 DEF GoodUser, UserRecord
  <2> HIDE DEF frag
  <2> QED
    BY <2>1
<1>4. client' = d /\ queries' = Fresh(queries \cup c.tx, num2) /\ num2 <= scenario.queries
  BY DEF ClientBecomes
<1>5. d.num = c.num /\ d.out = c.out /\ d.tx = {} /\ d.done = c.done
  BY <1>2 DEF ClientRecord
<1> HIDE DEF d
<1>6. num2 <= MaxQueries
  <2>1. scenario.queries \in Nat /\ scenario.queries <= MaxQueries
    BY <1>2, TunnelAssumption, QueryBoundAssumption
  <2>2. MaxQueries \in Nat
    BY QueryBoundAssumption
  <2> QED
    BY <1>2, <1>4, <2>1, <2>2
<1>7. ClientUp(g, frag, d)
  BY <1>5 DEF ClientUp
<1>8. ServerUp(g, num2, user)
  <2>1. UpState(h, num, user)
    BY <1>2 DEF UpState, UpInv
  <2>2. 2 * (Len(g.sent) - g.at) <= num2 + 1
    BY <1>1, <1>2, OutLags DEF ClientUp
  <2> HIDE DEF num, num2, frag
  <2>3. Later(h, user.inp.fragment, num, g, user.inp.fragment, num2) /\ num <= num2
    BY DEF num, num2
  <2> QED
    BY <1>1, <1>2, <2>1, <2>2, <2>3, ServerLater
<1>9. ASSUME NEW qry \in queries'
      PROVE  UpQuery(g, frag, num2, qry) /\ num2 <= qry.num + MaxLag
  <2>1. qry \in queries \cup c.tx /\ qry.num + MaxLag >= num2
    BY <1>4 DEF Fresh
  <2>2. qry \in QueryRecord
    BY <1>2, <2>1 DEF TunnelInvariant, NewQuery, ClientRecord
  <2>3. qry.num \in Nat
    BY <2>2 DEF QueryRecord
  <2>4. num2 <= qry.num + MaxLag
    BY <1>2, <2>1, <2>3, TunnelAssumption
  <2>5. CASE qry \in queries
    <3>1. UpQuery(h, frag, num, qry)
      BY <2>5 DEF UpInv
    <3>2. Later(h, frag, num, g, frag, num2)
      OBVIOUS
    <3> HIDE DEF frag, num, num2
    <3> QED
      BY <1>1, <1>2, <1>3, <2>3, <2>4, <3>1, <3>2, QueryLater
  <2>6. CASE qry \in c.tx
    BY <2>4, <2>6 DEF ClientUp
  <2> QED
    BY <2>1, <2>5, <2>6
<1>10. ASSUME NEW a \in answers'
       PROVE  UpBody(g, frag, num2, a.num, a.body)
  <2>1. a \in AnswerRecord /\ UpBody(h, frag, num, a.num, a.body)
    BY <1>2 DEF UpInv
  <2>2. a.num \in Nat /\ a.body \in BodyRecord
    BY <2>1 DEF AnswerRecord
  <2>3. Later(h, frag, num, g, frag, num2)
    OBVIOUS
  <2> HIDE DEF frag, num, num2
  <2> QED
    BY <1>1, <1>2, <1>3, <2>1, <2>2, <2>3, BodyLater
<1>11. ASSUME NEW p \in c.done
       PROVE  \E i \in DOMAIN user.written : user.written[i] = p
  <2>1. CASE p \in client.done
    BY <2>1 DEF UpInv
  <2>2. CASE p \in Arrived(h)
    <3>1. h.wrote > 0 /\ p = h.sent[h.wrote]
      BY <2>2 DEF Arrived
    <3>2. Wrote(h, user.written) /\ user.written \in Seq(Packet)
      BY <1>2 DEF UpInv, ServerUp, GoodUser, UserRecord
    <3>3. user.written # << >> /\ user.written[Len(user.written)] = p
      BY <1>1, <3>1, <3>2 DEF Wrote
    <3>4. Len(user.written) \in DOMAIN user.written
      BY <3>2, <3>3
    <3> QED
      BY <3>3, <3>4
  <2> QED
    BY <2>1, <2>2
<1>12. /\ user'.inp.fragment = frag /\ client'.num = num2 /\ client'.done = c.done
  BY <1>4, <1>5
<1> HIDE DEF frag, num2
<1>13. /\ upRead' \in Nat /\ GoodHistory(g, upRead') /\ client'.num <= MaxQueries
       /\ ClientUp(g, user'.inp.fragment, client')
       /\ ServerUp(g, client'.num, user')
  BY <1>4, <1>6, <1>7, <1>8, <1>12
<1>14. /\ \A qry \in queries' : /\ UpQuery(g, user'.inp.fragment, client'.num, qry)
                                /\ client'.num <= qry.num + MaxLag
       /\ \A a \in answers' : UpBody(g, user'.inp.fragment, client'.num, a.num, a.body)
       /\ \A p \in client'.done : \E i \in DOMAIN user'.written : user'.written[i] = p
  BY <1>9, <1>10, <1>11, <1>12
<1> QED
  BY <1>13, <1>14 DEF UpInv

\* tunnel_dns sends a query or none.
LEMMA DnsNumber ==
  ASSUME NEW c, GoodClient(c), NEW ans \in AnswerRecord
  PROVE  client_tunnel_dns(c, ans).num \in {c.num, c.num + 1}
<1> DEFINE Near(d) == GoodClient(d) /\ d.num = c.num
           Next1(d) == d.num \in {c.num, c.num + 1}
           b == WithoutStaleData(c, ans.body)
           calm == [c EXCEPT !.soon = IsStaleData(c, ans.body)]
           lazily == IF ans.num = c.num /\ c.lazymode THEN PingSoon(calm) ELSE calm
           received == ReceiveDownstream(lazily, b, c.soon)
<1>1. /\ c.soon \in BOOLEAN /\ ans.body \in BodyRecord /\ c.num \in Nat
      /\ IsStaleData(c, ans.body) \in BOOLEAN
  BY DEF GoodClient, ClientRecord, AnswerRecord, IsStaleData
<1>2. \A d : Near(d) => Next1(NoPing(send_ping(d))) /\ Next1(d)
  <2> TAKE d
  <2> SUFFICES ASSUME Near(d) PROVE Next1(NoPing(send_ping(d))) /\ Next1(d)
    OBVIOUS
  <2>1. GoodClient(send_ping(d))
    BY SendPingGood
  <2>2. send_ping(d).num = c.num + 1
    BY DEF send_ping, send_query, GoodClient, ClientRecord
  <2>3. NoPing(send_ping(d)).num = send_ping(d).num
    BY <2>1 DEF NoPing, GoodClient, ClientRecord
  <2> QED
    BY <2>2, <2>3
<1>3. Near(calm) /\ Near(PingSoon(c))
  <2>1. GoodClient(calm) /\ SameUp(c, calm)
    BY <1>1, SoonGood, SoonUp
  <2>2. GoodClient(PingSoon(c)) /\ SameUp(c, PingSoon(c))
    BY SoonGood, SoonUp DEF PingSoon
  <2> QED
    BY <2>1, <2>2 DEF SameUp
<1> HIDE DEF calm
<1>4. Near(lazily)
  <2>1. GoodClient(PingSoon(calm)) /\ SameUp(calm, PingSoon(calm))
    BY <1>3, SoonGood, SoonUp DEF PingSoon
  <2> QED
    BY <1>3, <2>1 DEF SameUp
<1> HIDE DEF lazily
<1>5. b \in BodyRecord
  <2>1. << >> \in Seq(Cells)
    OBVIOUS
  <2> QED
    BY <1>1, <2>1 DEF WithoutStaleData, BodyRecord
<1> HIDE DEF b
<1>6. Near(received[1])
  BY <1>1, <1>4, <1>5, ReceiveGood, ReceiveUp DEF SameUp
<1>7. ASSUME NEW d, Near(d), NEW ack, NEW something
      PROVE  Next1(FinishAnswer(d, ack, something))
  <2> DEFINE offset == d.out.offset + d.out.sentlen
             gone == [ForgetOutpkt(d) EXCEPT !.done = d.done \cup {d.out.pkt}]
             next == [d EXCEPT !.out.offset = offset,
                               !.out.fragment = d.out.fragment + 1, !.out.resent = 0]
  <2>1. is_sending(d) => Near(PingSoon(gone))
    <3> SUFFICES ASSUME is_sending(d) PROVE Near(PingSoon(gone))
      OBVIOUS
    <3>1. d.done \cup {d.out.pkt} \subseteq Packet
      BY <1>7 DEF is_sending, Sending, GoodClient, ClientRecord
    <3>2. GoodClient(gone)
      BY <1>7, <3>1, ForgetGood
    <3>3. gone.num = c.num
      BY <1>7 DEF ForgetOutpkt, GoodClient, ClientRecord
    <3> HIDE DEF gone
    <3> QED
      BY <3>2, <3>3, SoonGood, SoonUp DEF PingSoon, SameUp
  <2>2. Next1(NoPing(send_chunk(next)))
    <3>1. next.num = c.num /\ DOMAIN next = DOMAIN d
      BY <1>7 DEF GoodClient, ClientRecord
    <3>2. "num" \in DOMAIN d /\ "tx" \in DOMAIN d /\ "soon" \in DOMAIN d /\ "out" \in DOMAIN d
      BY <1>7 DEF GoodClient, ClientRecord
    <3> HIDE DEF next
    <3> QED
      BY <3>1, <3>2 DEF NoPing, send_chunk, send_query
  <2>3. IF something THEN Next1(NoPing(send_ping(d))) ELSE Next1(d)
    BY <1>2, <1>7
  <2>4. is_sending(d) =>
          Next1(NoPing(send_ping(PingSoon(gone)))) /\ Next1(PingSoon(gone))
    BY <1>2, <2>1
  <2> HIDE DEF gone, next, Next1
  <2> QED
    BY <2>2, <2>3, <2>4 DEF FinishAnswer, IsUpstreamAck, gone, next
<1> HIDE DEF Near, Next1, received
<1>8. Next1(client_tunnel_dns(c, ans))
  BY <1>2, <1>3, <1>6, <1>7 DEF client_tunnel_dns, calm, lazily, b, received
<1> QED
  BY <1>8 DEF Next1

\* The client reads a packet and may throw it away.
LEMMA ReadMore ==
  ASSUME NEW h, NEW read \in Nat, GoodHistory(h, read)
  PROVE  GoodHistory(h, read + 1)
<1>1. 1 .. read \subseteq 1 .. read + 1
  OBVIOUS
<1> QED
  BY <1>1 DEF GoodHistory

LEMMA NextPacketIs ==
  ASSUME TunnelInvariant, upRead \in Nat, NEW p \in UpNext
  PROVE  p \in Packet /\ p[1] = upRead + 1
<1>1. scenario \in Scenarios
  BY DEF TunnelInvariant
<1>2. /\ scenario.up \in Seq(Packet)
      /\ \A k \in DOMAIN scenario.up : scenario.up[k][1] = k
  BY <1>1, TunnelAssumption
<1> QED
  BY <1>2, NextPacketType DEF UpNext, NextPackets

LEMMA ClientNextUp ==
  ASSUME TunnelInvariant, NEW h, UpInv(h), ClientNext, UNCHANGED scenario
  PROVE  user' = user /\ \E g : UpInv(g)'
<1> DEFINE frag == user.inp.fragment
           num == client.num
<1>1. /\ GoodHistory(h, upRead) /\ h \in UpHistory /\ ClientUp(h, frag, client)
      /\ num <= MaxQueries /\ upRead \in Nat
      /\ h.at > 0 => Assembled(h, user.inp)
  BY DEF UpInv, GoodHistory, ServerUp
<1>2. /\ num \in Nat /\ GoodClient(client) /\ client.tx = {}
      /\ answers \subseteq AnswerRecord
  BY DEF TunnelInvariant, GoodClient, ClientRecord
<1>3. user.inp.fragment \in Nat
  <2>1. frag \in FragNos
    BY DEF TunnelInvariant, GoodUser, UserRecord
  <2> DEFINE f == frag
  <2> HIDE DEF f
  <2>2. f \in Nat
    BY <2>1 DEF f
  <2> QED
    BY <2>2 DEF f
<1> HIDE DEF frag, num
<1>4. ASSUME NEW c, ClientBecomes(c), GoodClient(c), ClientUp(h, frag, c),
             c.num \in {num, num + 1}, c.done \subseteq client.done \cup Arrived(h),
             answers' \subseteq answers, user' = user, upRead' = upRead
      PROVE  \E g : UpInv(g)'
  <2>1. c.num \in Int /\ num <= c.num
    BY <1>2, <1>4
  <2>2. Later(h, frag, num, h, frag, c.num)
    BY <1>1, <1>2, <1>3, <2>1, LaterSame DEF frag
  <2>3. UpInv(h)'
    BY <1>1, <1>4, <2>1, <2>2, ClientStepUp DEF frag, num
  <2> QED
    BY <2>3
<1>5. CASE \E p \in UpNext : ClientTun(p)
  <2>1. PICK p \in UpNext : ClientTun(p)
    BY <1>5
  <2> DEFINE g == [sent |-> Append(h.sent, p), at |-> h.at, wrote |-> h.wrote]
             c == client_tunnel_tun(client, p)
  <2>2. p \in Packet /\ p[1] = upRead + 1
    BY <1>1, NextPacketIs
  <2>3. /\ ~ is_sending(client) /\ ClientBecomes(c) /\ upRead' = upRead + 1
        /\ user' = user /\ answers' \subseteq answers
    BY <2>1 DEF ClientTun, Fresh
  <2>4. /\ GoodHistory(g, upRead + 1) /\ ClientUp(g, frag, c)
        /\ c.num = num + 1 /\ c.done = client.done
        /\ Later(h, frag, num, g, frag, c.num)
    BY <1>1, <1>2, <1>3, <2>2, <2>3, ClientTunUp DEF frag, num
  <2>5. GoodClient(c)
    BY <1>2, <2>2, ClientTunGood
  <2>6. g.at = h.at /\ g.wrote = h.wrote
    OBVIOUS
  <2> HIDE DEF g, c
  <2>7. upRead' \in Nat /\ GoodHistory(g, upRead') /\ num <= c.num
    BY <1>1, <1>2, <2>3, <2>4
  <2>8. UpInv(g)'
    BY <2>3, <2>4, <2>5, <2>6, <2>7, ClientStepUp DEF frag, num
  <2> QED
    BY <2>3, <2>8
<1>6. CASE ClientDiscards
  <2>1. /\ upRead' = upRead + 1
        /\ client' = client /\ user' = user /\ queries' = queries /\ answers' = answers
    BY <1>6 DEF ClientDiscards
  <2>2. GoodHistory(h, upRead') /\ upRead' \in Nat
    BY <1>1, <2>1, ReadMore
  <2>3. UpInv(h)'
    BY <2>1, <2>2 DEF UpInv
  <2> QED
    BY <2>1, <2>3
<1>7. CASE \E ans \in answers : ClientDns(ans)
  <2>1. PICK ans \in answers : ClientDns(ans)
    BY <1>7
  <2> DEFINE c == client_tunnel_dns(client, ans)
  <2>2. /\ ClientBecomes(c) /\ upRead' = upRead /\ user' = user
        /\ answers' \subseteq answers
    BY <2>1 DEF ClientDns, Fresh
  <2>3. ans \in AnswerRecord /\ UpBody(h, frag, num, ans.num, ans.body)
    BY <1>2 DEF UpInv, frag, num
  <2>4. GoodClient(c)
    BY <1>2, <2>3, ClientDnsGood
  <2>5. /\ ClientUp(h, frag, c) /\ c.num \in {num, num + 1}
        /\ c.done \subseteq client.done \cup Arrived(h)
    BY <1>1, <1>2, <1>3, <2>3, ClientDnsUp DEF frag, num
  <2> HIDE DEF c
  <2> QED
    BY <1>4, <2>2, <2>4, <2>5
<1>8. CASE \E p \in UpNext, ans \in answers : ClientTunAndDns(p, ans)
  <2>1. PICK p \in UpNext, ans \in answers : ClientTunAndDns(p, ans)
    BY <1>8
  <2> DEFINE g == [sent |-> Append(h.sent, p), at |-> h.at, wrote |-> h.wrote]
             d == client_tunnel_tun(client, p)
             c == client_tunnel_dns(d, ans)
  <2>2. p \in Packet /\ p[1] = upRead + 1
    BY <1>1, NextPacketIs
  <2>3. /\ ~ is_sending(client) /\ ClientBecomes(c) /\ upRead' = upRead + 1
        /\ user' = user /\ answers' \subseteq answers
    BY <2>1 DEF ClientTunAndDns, Fresh
  <2>4. /\ GoodHistory(g, upRead + 1) /\ ClientUp(g, frag, d)
        /\ d.num = num + 1 /\ d.done = client.done
        /\ Later(h, frag, num, g, frag, d.num)
    BY <1>1, <1>2, <1>3, <2>2, <2>3, ClientTunUp DEF frag, num
  <2>5. GoodClient(d)
    BY <1>2, <2>2, ClientTunGood
  <2>6. g.at = h.at /\ g.wrote = h.wrote
    OBVIOUS
  <2>7. ans \in AnswerRecord /\ UpBody(h, frag, num, ans.num, ans.body)
    BY <1>2 DEF UpInv, frag, num
  <2>8. h.wrote > 0 => g.sent[h.wrote] = h.sent[h.wrote]
    <3>1. h.wrote \in Nat /\ h.wrote <= Len(h.sent) /\ Len(h.sent) \in Nat
      BY <1>1 DEF GoodHistory, UpHistory
    <3>2. h.wrote > 0 => h.wrote \in 1 .. Len(h.sent)
      BY <3>1
    <3> HIDE DEF g
    <3> QED
      BY <2>4, <3>2 DEF Later
  <2>9. h.at > 0 => Assembled(g, user.inp)
    <3>1. h.at \in Nat /\ h.at <= Len(h.sent) /\ Len(h.sent) \in Nat
      BY <1>1 DEF GoodHistory, UpHistory
    <3>2. h.at > 0 => h.at \in 1 .. Len(h.sent)
      BY <3>1
    <3> HIDE DEF g
    <3>3. h.at > 0 => g.sent[h.at] = h.sent[h.at]
      BY <2>4, <3>2 DEF Later
    <3> QED
      BY <1>1, <2>6, <3>3 DEF Assembled
  <2> HIDE DEF g, d
  <2>10. c.num \in {d.num, d.num + 1}
    BY <2>5, <2>7, DnsNumber
  <2>11. GoodClient(c)
    BY <2>5, <2>7, ClientDnsGood
  <2>12. d.num \in Nat /\ num <= d.num
    BY <1>2, <2>4
  <2>13. d.num <= MaxQueries
    <3>1. c.num <= scenario.queries
      BY <2>3 DEF ClientBecomes
    <3>2. scenario.queries \in Nat /\ scenario.queries <= MaxQueries /\ MaxQueries \in Nat
      BY TunnelAssumption, QueryBoundAssumption DEF TunnelInvariant
    <3> HIDE DEF c
    <3> QED
      BY <2>10, <2>12, <3>1, <3>2
  <2>14. UpBody(g, frag, d.num, ans.num, ans.body)
    <3>1. ans.num \in Nat /\ ans.body \in BodyRecord
      BY <2>7 DEF AnswerRecord
    <3> QED
      BY <1>1, <1>2, <1>3, <2>4, <2>7, <2>12, <3>1, BodyLater DEF frag
  <2>15. /\ ClientUp(g, frag, c) /\ c.done \subseteq d.done \cup Arrived(g)
    BY <1>3, <2>4, <2>5, <2>6, <2>7, <2>9, <2>13, <2>14, ClientDnsUp DEF frag
  <2> HIDE DEF c
  <2>16. c.done \subseteq client.done \cup Arrived(h)
    BY <2>4, <2>6, <2>8, <2>15 DEF Arrived
  <2>17. c.num \in Nat /\ num <= c.num /\ c.num - num >= d.num - num
    BY <1>2, <2>10, <2>12
  <2>18. Later(h, frag, num, g, frag, c.num)
    <3> DEFINE m == Len(g.sent)
               k == Len(h.sent)
    <3>1. m \in Nat /\ k \in Nat /\ m - k <= d.num - num
      BY <1>1, <2>4 DEF Later, UpHistory
    <3> HIDE DEF m, k
    <3>2. m - k <= c.num - num
      BY <1>2, <2>12, <2>17, <3>1
    <3> QED
      BY <2>4, <3>2 DEF Later, m, k
  <2>19. upRead' \in Nat /\ GoodHistory(g, upRead')
    BY <1>1, <2>3, <2>4
  <2>20. UpInv(g)'
    BY <2>3, <2>6, <2>11, <2>15, <2>16, <2>17, <2>18, <2>19, ClientStepUp DEF frag, num
  <2> QED
    BY <2>3, <2>20
<1>9. CASE ClientTimeout
  <2> DEFINE c == Timeout(client)
  <2>1. /\ ClientBecomes(c) /\ upRead' = upRead /\ user' = user
        /\ answers' \subseteq answers
    BY <1>9 DEF ClientTimeout, Fresh
  <2>2. GoodClient(c)
    BY <1>2, TimeoutGood
  <2>3. /\ ClientUp(h, frag, c) /\ c.num = num + 1 /\ c.done = client.done
    BY <1>1, <1>2, <1>3, TimeoutUp DEF frag, num
  <2> HIDE DEF c
  <2> QED
    BY <1>4, <2>1, <2>2, <2>3
<1>10. CASE ClientError
  <2> DEFINE c == PingSoon(client)
  <2>1. /\ ClientBecomes(c) /\ upRead' = upRead /\ user' = user
        /\ answers' \subseteq answers
    BY <1>10 DEF ClientError
  <2>2. GoodClient(c) /\ SameUp(client, c)
    BY <1>2, SoonGood, SoonUp DEF PingSoon
  <2> HIDE DEF c
  <2>3. ClientUp(h, frag, c) /\ c.num = num /\ c.done = client.done
    BY <1>1, <2>2, SameUpKeeps DEF SameUp, num
  <2> QED
    BY <1>4, <2>1, <2>2, <2>3
<1> QED
  BY <1>5, <1>6, <1>7, <1>8, <1>9, <1>10 DEF ClientNext

\* A step of iodined
LEMMA IodinedNextUp ==
  ASSUME TunnelInvariant, IodinedNext, MaxLag < RecentSpan, NEW h, UpInv(h)
  PROVE  \E g : UpInv(g)' /\ UpMoves(h, user, g, user') /\ upRead' = upRead
<1> DEFINE num == client.num
           frag == user.inp.fragment
<1>1. /\ upRead \in Nat /\ GoodHistory(h, upRead) /\ h \in UpHistory
      /\ num <= MaxQueries /\ ClientUp(h, frag, client)
      /\ \A p \in client.done : \E i \in DOMAIN user.written : user.written[i] = p
  BY DEF UpInv, GoodHistory
<1>2. /\ num \in Nat /\ client.tx = {} /\ answers \subseteq AnswerRecord
      /\ GoodUser(user) /\ user.written \in Seq(Packet) /\ frag \in FragNos
  BY DEF TunnelInvariant, GoodClient, ClientRecord, GoodUser, UserRecord
<1>3. UpState(h, num, user)
  BY <1>2 DEF UpInv, UpState
<1>4. PICK v : /\ Received(h, upRead, num, user, v)
               /\ UserBecomes(v)
               /\ queries' \subseteq queries
               /\ UNCHANGED << client, upRead >>
  BY <1>1, <1>3, IodinedUp DEF UpInv
<1>5. PICK g : GoodHistory(g, upRead) /\ UpState(g, num, v) /\ UpMoves(h, user, g, v)
  BY <1>4 DEF Received
<1> DEFINE w == [v EXCEPT !.tx = {}]
           frag2 == v.inp.fragment
<1>6. user' = w /\ answers' = Fresh(answers \cup v.tx, num)
  BY <1>4 DEF UserBecomes
<1>7. /\ GoodUser(v) /\ ServerUp(g, num, v) /\ v \in UserRecord
      /\ frag2 \in FragNos
  BY <1>5 DEF UpState, GoodUser, UserRecord
<1>8. /\ w.inp = v.inp /\ w.written = v.written /\ w.cache = v.cache /\ w.tx = {}
      /\ w.q = v.q /\ w.soonq = v.soonq
  BY <1>7 DEF UserRecord
<1>9. frag \in Nat /\ frag2 \in Nat
  <2> HIDE DEF frag, frag2
  <2> QED
    BY <1>2, <1>7
<1>10. ServerUp(g, num, w)
  BY <1>7, <1>8 DEF ServerUp
<1> HIDE DEF w
<1>11. UpMoves(h, user, g, user')
  BY <1>5, <1>6, <1>8 DEF UpMoves
<1>12. g \in UpHistory /\ g.sent = h.sent /\ g.at \in Nat /\ g.sent \in Seq(Packet)
  BY <1>5 DEF GoodHistory, UpHistory, UpMoves
<1>13. h.at < g.at \/ (h.at = g.at /\ frag <= frag2)
  BY <1>5 DEF UpMoves
<1> HIDE DEF num, frag, frag2
<1>14. Later(h, frag, num, g, frag2, num)
  <2> DEFINE k == Len(h.sent)
  <2>1. k \in Nat
    BY <1>1 DEF UpHistory
  <2> HIDE DEF k
  <2>2. k <= k /\ k - k <= num - num
    BY <1>2, <2>1
  <2> QED
    BY <1>12, <1>13, <2>2 DEF Later, k
<1>15. ASSUME NEW qry \in queries'
       PROVE  UpQuery(g, frag2, num, qry) /\ num <= qry.num + MaxLag
  <2>1. qry \in queries
    BY <1>4
  <2>2. UpQuery(h, frag, num, qry) /\ num <= qry.num + MaxLag
    BY <2>1 DEF UpInv, frag, num
  <2>3. qry.num \in Nat
    BY <2>1 DEF TunnelInvariant, NewQuery, QueryRecord
  <2> QED
    BY <1>1, <1>2, <1>9, <1>14, <2>2, <2>3, QueryLater
<1>16. ASSUME NEW a \in answers'
       PROVE  UpBody(g, frag2, num, a.num, a.body)
  <2>1. a \in answers \/ a \in v.tx
    BY <1>6 DEF Fresh
  <2>2. CASE a \in answers
    <3>1. UpBody(h, frag, num, a.num, a.body)
      BY <2>2 DEF UpInv, frag, num
    <3>2. a.num \in Nat /\ a.body \in BodyRecord
      BY <1>2, <2>2 DEF AnswerRecord
    <3> QED
      BY <1>1, <1>2, <1>9, <1>14, <3>1, <3>2, BodyLater
  <2>3. CASE a \in v.tx
    BY <1>7, <2>3 DEF ServerUp, frag2
  <2> QED
    BY <2>1, <2>2, <2>3
<1>17. ClientUp(g, frag2, client)
  <2> DEFINE o == client.out
             k == Len(h.sent)
  <2>1. ClientOut(h, frag, num, o) /\ k \in Nat /\ h.at \in Nat /\ h.at <= g.at
    BY <1>1, <1>12, <1>13 DEF ClientUp, UpHistory, num
  <2>2. k - g.at <= k - h.at
    <3> HIDE DEF k
    <3> QED
      BY <1>12, <2>1
  <2>3. \A n \in Nat : Got(h, frag, k, n) => Got(g, frag2, k, n)
    <3> HIDE DEF k
    <3> QED
      BY <1>9, <1>12, <1>13, <2>1 DEF Got
  <2>4. o.fragment \in Nat
    BY DEF TunnelInvariant, GoodClient, ClientRecord
  <2>5. ASSUME NEW m \in Int, 2 * (k - h.at) <= m PROVE 2 * (k - g.at) <= m
    <3> HIDE DEF k
    <3> QED
      BY <1>12, <2>1, <2>5
  <2>6. ASSUME Ready(h, frag, num - 1, o) PROVE Ready(g, frag2, num - 1, o)
    <3>1. o.fragment > 0 => o.fragment - 1 \in Nat
      BY <2>4
    <3>2. 2 * (k - g.at) <= (num - 1) + 2
      BY <1>2, <2>5, <2>6 DEF Ready
    <3>3. o.fragment > 0 => Got(g, frag2, k, o.fragment - 1)
      BY <2>3, <2>6, <3>1 DEF Ready
    <3> HIDE DEF o
    <3> QED
      BY <1>12, <2>6, <3>2, <3>3 DEF Ready
  <2>7. ~ Sending(o) => 2 * (k - g.at) <= num
    BY <1>2, <2>1, <2>5 DEF ClientOut
  <2> HIDE DEF o
  <2>8. ClientOut(g, frag2, num, o)
    BY <1>12, <2>1, <2>6, <2>7 DEF ClientOut
  <2> QED
    BY <1>2, <2>8 DEF ClientUp, o, num
<1>18. ASSUME NEW p \in client.done
       PROVE  \E i \in DOMAIN v.written : v.written[i] = p
  <2>1. PICK i \in DOMAIN user.written : user.written[i] = p
    BY <1>1
  <2>2. v.written = user.written \/ \E x : v.written = Append(user.written, x)
    BY <1>5 DEF UpMoves
  <2>3. i \in DOMAIN v.written /\ v.written[i] = p
    BY <1>2, <2>1, <2>2
  <2> QED
    BY <2>3
<1>19. /\ client' = client /\ upRead' = upRead /\ client'.num = num
       /\ user'.inp.fragment = frag2 /\ user'.written = v.written
  BY <1>4, <1>6, <1>8 DEF num, frag2
<1>20. /\ upRead' \in Nat /\ GoodHistory(g, upRead') /\ client'.num <= MaxQueries
       /\ ClientUp(g, user'.inp.fragment, client')
       /\ ServerUp(g, client'.num, user')
  BY <1>1, <1>5, <1>6, <1>10, <1>17, <1>19
<1>21. /\ \A qry \in queries' : /\ UpQuery(g, user'.inp.fragment, client'.num, qry)
                                /\ client'.num <= qry.num + MaxLag
       /\ \A a \in answers' : UpBody(g, user'.inp.fragment, client'.num, a.num, a.body)
       /\ \A p \in client'.done : \E i \in DOMAIN user'.written : user'.written[i] = p
  BY <1>15, <1>16, <1>18, <1>19
<1>22. UpInv(g)'
  BY <1>20, <1>21 DEF UpInv
<1> QED
  BY <1>11, <1>19, <1>22

\* A copy that a relay makes differs in its id.
LEMMA RepeatUp ==
  ASSUME TunnelInvariant, NEW qry \in queries, Repeat(qry), NEW h, UpInv(h)
  PROVE  UpInv(h)' /\ user' = user /\ upRead' = upRead
<1> DEFINE copy == [qry EXCEPT !.id = copies + 1]
<1>1. qry \in QueryRecord
  BY DEF TunnelInvariant, NewQuery
<1>2. /\ copy.num = qry.num /\ copy.kind = qry.kind /\ copy.up = qry.up
      /\ copy.data = qry.data /\ copy.last = qry.last
  BY <1>1 DEF QueryRecord
<1>3. /\ queries' = queries \cup {copy} /\ client' = client /\ user' = user
      /\ answers' = answers /\ upRead' = upRead
  BY DEF Repeat
<1> HIDE DEF copy
<1>4. /\ UpQuery(h, user.inp.fragment, client.num, copy)
      /\ client.num <= copy.num + MaxLag
  BY <1>2 DEF UpInv, UpQuery, Carried
<1>5. \A x \in queries' : /\ UpQuery(h, user.inp.fragment, client.num, x)
                          /\ client.num <= x.num + MaxLag
  BY <1>3, <1>4 DEF UpInv
<1>6. UpInv(h)'
  BY <1>3, <1>5 DEF UpInv
<1> QED
  BY <1>3, <1>6

NoHistory == [sent |-> << >>, at |-> 0, wrote |-> 0]

LEMMA InitUp ==
  ASSUME Init
  PROVE  UpInv(NoHistory)
<1> DEFINE h == NoHistory
<1>1. /\ h.sent = << >> /\ Len(h.sent) = 0 /\ h.at = 0 /\ h.wrote = 0
      /\ h \in UpHistory
  <2>1. << >> \in Seq(Packet)
    OBVIOUS
  <2> QED
    BY <2>1 DEF NoHistory, UpHistory
<1> HIDE DEF h
<1>2. GoodHistory(h, 0)
  BY <1>1 DEF GoodHistory
<1>3. /\ upRead = 0 /\ queries = {} /\ answers = {}
      /\ client.num = 0 /\ client.tx = {} /\ client.done = {} /\ ~ Sending(client.out)
      /\ client.out.seqno = 0 /\ client.out.offset = 0
  BY DEF Init, FreshClient, Sending
<1>4. /\ user.inp.seqno = 0 /\ user.written = << >> /\ user.cache = << >> /\ user.tx = {}
      /\ user.q.num = 0 /\ user.soonq.num = 0
  BY DEF Init, FreshUser, NoQuery, Query
<1>5. ClientUp(h, user.inp.fragment, client)
  BY <1>1, <1>3 DEF ClientUp, ClientOut
<1>6. ServerUp(h, client.num, user)
  <2>1. DOMAIN user.cache = {}
    BY <1>4
  <2> QED
    BY <1>1, <1>3, <1>4, <2>1 DEF ServerUp, Wrote
<1>7. client.num <= MaxQueries
  BY <1>3, QueryBoundAssumption
<1> QED
  BY <1>2, <1>3, <1>5, <1>6, <1>7 DEF UpInv, h

\* The invariant of this direction
UpInvariant == TunnelInvariant /\ \E h : UpInv(h)

\* How a step takes the history on: the client moves it, or the server does.
LEMMA StepUp ==
  ASSUME TunnelInvariant, Next, MaxLag < RecentSpan, NEW h, UpInv(h)
  PROVE  /\ \E g : UpInv(g)'
         /\ \/ user' = user
            \/ upRead' = upRead /\ \E g : UpInv(g)' /\ UpMoves(h, user, g, user')
<1>1. CASE ClientNext
  BY <1>1, ClientNextUp DEF Next
<1>2. CASE IodinedNext
  BY <1>2, IodinedNextUp
<1>3. CASE \E qry \in queries : Repeat(qry)
  <2>1. PICK qry \in queries : Repeat(qry)
    BY <1>3
  <2>2. UpInv(h)' /\ user' = user
    BY <2>1, RepeatUp
  <2> QED
    BY <2>2
<1> QED
  BY <1>1, <1>2, <1>3 DEF Next

LEMMA UpInvariantHolds ==
  ASSUME MaxLag < RecentSpan
  PROVE  Spec => []UpInvariant
<1>1. Init => \E h : UpInv(h)
  BY InitUp
<1>2. TunnelInvariant /\ (\E h : UpInv(h)) /\ [Next]_vars => (\E h : UpInv(h))'
  <2>1. CASE UNCHANGED vars
    <3>1. /\ client' = client /\ user' = user /\ queries' = queries
          /\ answers' = answers /\ upRead' = upRead
      BY <2>1 DEF vars
    <3> QED
      BY <3>1 DEF UpInv
  <2>2. CASE Next
    BY <2>2, StepUp
  <2> QED
    BY <2>1, <2>2
<1> DEFINE E == \E h : UpInv(h)
<1>3. Init => E
  BY <1>1
<1>4. TunnelInvariant /\ E /\ [Next]_vars => E'
  BY <1>2
<1> HIDE DEF E
<1>5. Spec => []E
  BY <1>3, <1>4, TunnelInvariantHolds, PTL DEF Spec
<1>6. TunnelInvariant /\ E => UpInvariant
  BY DEF E, UpInvariant
<1> QED
  BY <1>5, <1>6, TunnelInvariantHolds, PTL

-----------------------------------------------------------------------------
(***************************************************************************)
(* What follows from it.                                                   *)
(***************************************************************************)
\* What the client has had acknowledged of a packet is in inpacket of the
\* server or written to its tun device, whatever the relays lose, delay,
\* reorder and repeat, as long as the client sends no more than RecentSpan
\* queries meanwhile (handle_null_request, tunnel_dns).
THEOREM AcknowledgedFragmentsAreHeld ==
  ASSUME MaxLag < RecentSpan
  PROVE  Spec => []AckedUpFragmentsHeld
<1>1. ASSUME TunnelInvariant, NEW h, UpInv(h) PROVE AckedUpFragmentsHeld
  <2> DEFINE o == client.out
             k == Len(h.sent)
             f == user.inp.fragment
             n == UpBytes(f + 1)
             p == h.sent[h.at]
  <2> SUFFICES ASSUME o.offset > 0
               PROVE  /\ user.inp.seqno = o.seqno
                      /\ \/ user.inp.buf = CellsOf(o.pkt, 0, Len(user.inp.buf))
                            /\ Len(user.inp.buf) >= o.offset
                         \/ \E i \in DOMAIN user.written : user.written[i] = o.pkt
    BY DEF AckedUpFragmentsHeld
  <2>1. /\ ClientOut(h, f, client.num, o) /\ ServerUp(h, client.num, user)
        /\ h.at \in Nat /\ h.at <= k /\ k \in Nat
    BY <1>1 DEF UpInv, ClientUp, GoodHistory, UpHistory
  <2>2. /\ o.fragment \in Nat /\ user.inp.fragment \in FragNos
        /\ user.written \in Seq(Packet)
    BY <1>1 DEF TunnelInvariant, GoodClient, ClientRecord, GoodUser, UserRecord
  <2>3. Sending(o)
    BY <2>1 DEF ClientOut
  <2>4. /\ k > 0 /\ o.pkt = h.sent[k] /\ o.offset = UpBytes(o.fragment)
        /\ o.fragment > 0 => Got(h, f, k, o.fragment - 1)
        /\ o.seqno = k % SeqCount
    BY <2>1, <2>3 DEF ClientOut, Ready
  <2>5. f \in Nat
    <3> HIDE DEF f
    <3>1. f \in FragNos
      BY <2>2 DEF f
    <3> QED
      BY <3>1
  <2> HIDE DEF k, o, f
  <2>6. o.fragment > 0
    <3>1. 0 \in Nat
      OBVIOUS
    <3>2. UpBytes(0) = 0
      BY <3>1, BytesType
    <3>3. o.fragment # 0
      BY <2>4, <3>2
    <3> QED
      BY <2>2, <3>3
  <2>7. k = h.at /\ o.fragment <= f + 1
    BY <2>1, <2>2, <2>4, <2>5, <2>6 DEF Got
  <2>8. user.inp.seqno = o.seqno
    BY <2>1, <2>4, <2>7 DEF ServerUp
  <2>9. Assembled(h, user.inp) /\ p = o.pkt
    BY <2>1, <2>4, <2>7 DEF ServerUp
  <2>10. CASE h.wrote = h.at
    <3>1. user.written # << >> /\ user.written[Len(user.written)] = o.pkt
      BY <2>1, <2>4, <2>7, <2>9, <2>10 DEF ServerUp, Wrote
    <3>2. Len(user.written) \in DOMAIN user.written
      BY <2>2, <3>1
    <3> QED
      BY <2>8, <3>1, <3>2
  <2>11. CASE h.wrote # h.at
    <3>1. user.inp.buf = CellsOf(o.pkt, 0, n)
      BY <2>9, <2>11 DEF Assembled, f
    <3>2. n \in Nat /\ n >= o.offset
      <4>1. f + 1 \in Nat /\ o.fragment \in Nat /\ o.fragment <= f + 1
        BY <2>2, <2>5, <2>7
      <4>2. n \in Nat /\ UpBytes(o.fragment) \in Nat
        BY <4>1, BytesType
      <4>3. UpBytes(o.fragment) <= n
        BY <4>1, BytesGrow
      <4> QED
        BY <2>4, <4>2, <4>3
    <3> HIDE DEF n
    <3>3. Len(CellsOf(o.pkt, 0, n)) = n
      BY <3>2 DEF CellsOf
    <3> QED
      BY <2>8, <3>1, <3>2, <3>3
  <2> QED
    BY <2>10, <2>11
<1>2. UpInvariant => AckedUpFragmentsHeld
  BY <1>1 DEF UpInvariant
<1> QED
  BY <1>2, UpInvariantHolds, PTL

\* A packet whose last fragment was acknowledged to the client has been
\* written to the tun device of the server: the first half of
\* AckedMeansDelivered.
AckedUpMeansDelivered ==
  \A p \in client.done : \E i \in DOMAIN user.written : user.written[i] = p

\* No answer makes the client drop a packet that the server has not put
\* together (handle_null_request, tunnel_dns of client.c).
THEOREM AcknowledgedPacketsAreDelivered ==
  ASSUME MaxLag < RecentSpan
  PROVE  Spec => []AckedUpMeansDelivered
<1>1. UpInvariant => AckedUpMeansDelivered
  BY DEF UpInvariant, UpInv, AckedUpMeansDelivered
<1> QED
  BY <1>1, UpInvariantHolds, PTL

LEMMA NumbersAppend ==
  ASSUME NEW s \in Seq(Packet), NEW p \in Packet
  PROVE  /\ Numbers(Append(s, p)) = Append(Numbers(s), p[1])
         /\ Numbers(s) # << >> <=> s # << >>
         /\ s # << >> => Numbers(s)[Len(Numbers(s))] = s[Len(s)][1]
<1> DEFINE n == Len(s)
           t == Append(s, p)
           V == {q[1] : q \in Packet}
           r == Append(Numbers(s), p[1])
<1>1. n \in Nat /\ DOMAIN s = 1 .. n /\ \A i \in 1 .. n : s[i] \in Packet
  OBVIOUS
<1>2. /\ t \in Seq(Packet) /\ Len(t) = n + 1 /\ DOMAIN t = 1 .. n + 1
      /\ t[n + 1] = p /\ \A i \in 1 .. n : t[i] = s[i]
  BY AppendProperties
<1>3. Numbers(s) = [i \in 1 .. n |-> s[i][1]] /\ Numbers(t) = [i \in 1 .. n + 1 |-> t[i][1]]
  BY <1>1, <1>2 DEF Numbers
<1>4. Numbers(s) \in Seq(V) /\ Len(Numbers(s)) = n
  <2>1. \A i \in 1 .. n : s[i][1] \in V
    BY <1>1
  <2> HIDE DEF n, V
  <2> QED
    BY <1>1, <1>3, <2>1
<1>5. p[1] \in V
  OBVIOUS
<1> HIDE DEF n, t, V
<1>6. /\ r \in Seq(V) /\ Len(r) = n + 1 /\ r[n + 1] = p[1]
      /\ \A i \in 1 .. n : r[i] = Numbers(s)[i]
  BY <1>4, <1>5, AppendProperties
<1> HIDE DEF r
<1>7. r = [i \in 1 .. n + 1 |-> r[i]]
  BY <1>1, <1>6
<1>8. ASSUME NEW i \in 1 .. n + 1 PROVE r[i] = t[i][1]
  <2>1. CASE i = n + 1
    BY <1>2, <1>6, <2>1
  <2>2. CASE i # n + 1
    <3>1. i \in 1 .. n
      BY <1>1, <2>2
    <3> QED
      BY <1>2, <1>3, <1>6, <3>1
  <2> QED
    BY <2>1, <2>2
<1>9. Numbers(t) = r
  BY <1>3, <1>7, <1>8
<1>10. Numbers(s) # << >> <=> s # << >>
  BY <1>1, <1>4 DEF n
<1>11. s # << >> => n \in 1 .. n
  BY <1>1 DEF n
<1>12. s # << >> => Numbers(s)[Len(Numbers(s))] = s[Len(s)][1]
  BY <1>3, <1>4, <1>11 DEF n
<1> QED
  BY <1>9, <1>10, <1>12 DEF t, r

\* The packet the server writes next was read by the client after the last.
LEMMA ArrivesInOrder ==
  ASSUME TunnelInvariant, NEW h, UpInv(h), NEW g, UpInv(g)', UpMoves(h, user, g, user'),
         upRead' = upRead
  PROVE  UpLine!Next \/ Numbers(user'.written) = Numbers(user.written)
<1> DEFINE n == g.wrote
           m == h.wrote
           k == Len(h.sent)
           p == h.sent[n]
<1>1. CASE n = m /\ user'.written = user.written
  BY <1>1
<1>2. CASE n > m /\ user'.written = Append(user.written, p)
  <2>1. /\ h.sent \in Seq(Packet) /\ g.sent = h.sent /\ user.written \in Seq(Packet)
        /\ m \in Nat /\ n \in Nat /\ m <= k /\ n <= k /\ k \in Nat
        /\ \A i \in 1 .. k : /\ h.sent[i][1] \in 1 .. upRead
                             /\ \A j \in 1 .. i - 1 : h.sent[j][1] < h.sent[i][1]
    <3>1. GoodHistory(h, upRead) /\ GoodHistory(g, upRead') /\ g.sent = h.sent
      BY DEF UpInv, UpMoves
    <3>2. user.written \in Seq(Packet)
      BY DEF TunnelInvariant, GoodUser, UserRecord
    <3>3. /\ h \in UpHistory /\ g \in UpHistory
          /\ h.wrote <= h.at /\ h.at <= k /\ g.wrote <= g.at /\ g.at <= k
      BY <3>1 DEF GoodHistory
    <3>4. h.at \in Nat /\ g.at \in Nat /\ m \in Nat /\ n \in Nat /\ k \in Nat
      BY <3>3 DEF UpHistory
    <3>5. m <= k /\ n <= k
      <4> HIDE DEF m, n, k
      <4> QED
        BY <3>3, <3>4 DEF m, n
    <3> QED
      BY <3>1, <3>2, <3>3, <3>4, <3>5 DEF GoodHistory, UpHistory
  <2>2. n \in 1 .. k /\ p \in Packet /\ p[1] \in 1 .. upRead
    <3>1. n \in 1 .. k
      <4> HIDE DEF n, m, k
      <4> QED
        BY <1>2, <2>1
    <3> QED
      BY <2>1, <3>1
  <2>3. Numbers(user'.written) = Append(Numbers(user.written), p[1])
    BY <1>2, <2>1, <2>2, NumbersAppend
  <2>4. UpLine!Last < p[1]
    <3>1. CASE user.written = << >>
      <4>1. UpLine!Last = 0 /\ upRead \in Nat
        BY <2>1, <2>2, <3>1, NumbersAppend DEF UpLine!Last, UpInv
      <4> HIDE DEF p
      <4> QED
        BY <2>2, <4>1
    <3>2. CASE user.written # << >>
      <4>1. m # 0 /\ user.written[Len(user.written)] = h.sent[m]
        BY <3>2 DEF UpInv, ServerUp, Wrote
      <4>2. UpLine!Last = h.sent[m][1]
        BY <2>1, <2>2, <3>2, <4>1, NumbersAppend DEF UpLine!Last
      <4>3. m \in 1 .. n - 1
        <5> HIDE DEF n, m
        <5> QED
          BY <1>2, <2>1, <4>1
      <4> QED
        BY <2>1, <2>2, <4>2, <4>3
    <3> QED
      BY <3>1, <3>2
  <2> HIDE DEF p
  <2>5. \E x \in 1 .. upRead : UpLine!Arrive(x)
    <3>1. upRead \in Nat
      BY DEF UpInv
    <3>2. UpLine!Last \in Nat
      <4>1. CASE user.written = << >>
        BY <2>1, <2>2, <4>1, NumbersAppend DEF UpLine!Last
      <4>2. CASE user.written # << >>
        <5>1. m # 0 /\ user.written[Len(user.written)] = h.sent[m]
          BY <4>2 DEF UpInv, ServerUp, Wrote
        <5>2. UpLine!Last = h.sent[m][1] /\ m \in 1 .. k
          BY <2>1, <2>2, <4>2, <5>1, NumbersAppend DEF UpLine!Last
        <5> QED
          BY <2>1, <5>2
      <4> QED
        BY <4>1, <4>2
    <3>3. p[1] > UpLine!Last
      BY <2>2, <2>4, <3>1, <3>2
    <3> QED
      BY <2>2, <2>3, <3>3 DEF UpLine!Arrive
  <2> QED
    BY <2>5 DEF UpLine!Next
<1> QED
  BY <1>1, <1>2 DEF UpMoves

\* What the server writes to its tun device is what the client read from its
\* own, in that order, each packet once and whole: the tunnel in this
\* direction is an IP link, whatever the relays do with the queries, as long
\* as none is older than three when it gets through (upstream_ok and
\* recent_seqno of handle_null_request).
THEOREM UpstreamIsAnIpLink ==
  ASSUME MaxLag < RecentSpan
  PROVE  Spec => ImplementsUpLine
<1> DEFINE line == << upRead, Numbers(user.written), {} >>
<1>1. Init => UpLine!Init
  BY DEF Init, FreshUser, Numbers, UpLine!Init
<1>2. UpInvariant /\ [Next]_vars => [UpLine!Next]_line
  <2> SUFFICES ASSUME UpInvariant, [Next]_vars
               PROVE  UpLine!Next \/ line' = line
    OBVIOUS
  <2>1. PICK h : UpInv(h)
    BY DEF UpInvariant
  <2>2. TunnelInvariant
    BY DEF UpInvariant
  <2>3. upRead' = upRead \/ (upRead' = upRead + 1 /\ ClientNext)
    BY DEF vars, Next, ClientNext, ClientTun, ClientDiscards, ClientDns, ClientTunAndDns,
           ClientTimeout, ClientError, IodinedNext, IodinedTun, IodinedDns,
           IodinedTunAndDns, IodinedIdle, Repeat
  <2>4. CASE user' = user
    <3>1. CASE upRead' = upRead
      BY <2>4, <3>1
    <3>2. CASE upRead' = upRead + 1
      BY <2>4, <3>2 DEF UpLine!Next, UpLine!Send
    <3> QED
      BY <2>3, <3>1, <3>2
  <2>5. CASE upRead' = upRead /\ \E g : UpInv(g)' /\ UpMoves(h, user, g, user')
    BY <2>1, <2>2, <2>5, ArrivesInOrder
  <2>6. CASE UNCHANGED vars
    BY <2>6 DEF vars
  <2>7. CASE Next
    BY <2>1, <2>2, <2>4, <2>5, <2>7, StepUp
  <2> QED
    BY <2>6, <2>7
<1> QED
  BY <1>1, <1>2, UpInvariantHolds, PTL DEF Spec, ImplementsUpLine, UpLine!Spec

-----------------------------------------------------------------------------
(***************************************************************************)
(* The packets to the client.  A history h again: the packets that came    *)
(* into outpacket or its queue, and how many of them outpacket has had.    *)
(* read are the packets iodined has read from tun, fewer than RecentSpan:  *)
(* so their numbers are what the code makes of them, and one that is older *)
(* than another looks it.                                                  *)
(***************************************************************************)
DownHistory == [line : Seq(Packet), at : Nat]

GoodRead(read) ==
  /\ read \in Seq(Packet) /\ Len(read) < RecentSpan
  /\ \A k \in DOMAIN read : read[k][1] = k

\* The first byte of fragment f
DownBytes(f) == f * FragSize

\* The packets in line are some of those read, in their order; the last of
\* them are in the ring.
LineIs(h, read, o) ==
  /\ h \in DownHistory
  /\ Len(h.line) = h.at + o.filled /\ Len(h.line) <= Len(read)
  /\ \A k \in 1 .. Len(h.line) :
       /\ h.line[k][1] \in DOMAIN read /\ read[h.line[k][1]] = h.line[k]
       /\ \A j \in 1 .. k - 1 : h.line[j][1] < h.line[k][1]
  /\ \A i \in 0 .. o.filled - 1 : o.ring[Wrap(o.use + i)] = h.line[h.at + 1 + i]

\* Fragment f of packet t, or one after it, was sent.
WasSent(h, o, t, f) ==
  \/ t < h.at
  \/ /\ t = h.at
     /\ Sending(o) => f < o.fragment \/ (f = o.fragment /\ o.sentlen # 0)

\* Packet t is not sent any more.
IsOver(h, o, t) == t < h.at \/ (t = h.at /\ ~ Sending(o))

\* The client, its inpkt inp, has had fragment f of packet t.
Had(inp, t, f) ==
  \/ t < inp.seqno
  \/ t = inp.seqno /\ f <= inp.fragment /\ (inp.fragment > 0 \/ inp.buf # << >>)

\* What outpacket is about.  A packet that was sent in one piece is forgotten.
OutIs(h, c, o) ==
  /\ o.seqno = h.at
  /\ o.fragment <= c.num
  /\ o.fragment > 0 => Had(c.inp, h.at, o.fragment - 1)
  /\ Sending(o) =>
       /\ h.at > 0 /\ o.pkt = h.line[h.at]
       /\ o.offset = DownBytes(o.fragment)
       /\ o.sentlen \in {0, Smaller(FragSize, PacketLen[o.pkt] - o.offset)}
       /\ o.sentlen # PacketLen[o.pkt]

\* Of the packets written the last came into tun before p.
WrittenBefore(written, p) ==
  written # << >> => written[Len(written)][1] \in 1 .. p[1] - 1

\* What the client has of packet t = inp.seqno: a part, all of it, or, having
\* learnt of it from an answer without data, nothing.
ClientHas(h, inp, written) ==
  LET t == inp.seqno
      p == h.line[t]
      n == DownBytes(inp.fragment + 1)
  IN  \/ /\ t > 0 /\ inp.buf = CellsOf(p, 0, n) /\ n < PacketLen[p]
         /\ WrittenBefore(written, p)
      \/ /\ t > 0 /\ inp.buf = << >> /\ n >= PacketLen[p]
         /\ written # << >> /\ written[Len(written)] = p

ClientSkipped(h, inp, written) ==
  /\ inp.buf = << >> /\ inp.fragment = 0
  /\ IF inp.seqno = 0 THEN written = << >>
     ELSE WrittenBefore(written, h.line[inp.seqno])

ClientDown(h, o, c) ==
  /\ c.inp.seqno <= h.at /\ c.inp.fragment <= c.num
  /\ \/ ClientHas(h, c.inp, c.written) /\ WasSent(h, o, c.inp.seqno, c.inp.fragment)
     \/ ClientSkipped(h, c.inp, c.written) /\ IsOver(h, o, c.inp.seqno)

\* An answer carries a fragment that was sent, and the one before it had
\* arrived; or it has no data, and tells of a packet that is over.
DownData(h, b, t, f) ==
  LET p == h.line[t]
      avail == PacketLen[p] - DownBytes(f)
      len == Smaller(FragSize, avail)
  IN  /\ t > 0 /\ avail > 0
      /\ b.data = CellsOf(p, DownBytes(f), len)
      /\ b.last = (len = avail)

DownBody(h, o, c, b) ==
  LET t == b.down.seqno
      f == b.down.fragment
  IN  b.legal =>
        /\ t <= h.at /\ f <= c.num
        /\ f > 0 => Had(c.inp, t, f - 1)
        /\ IF b.data = << >> THEN IsOver(h, o, t)
           ELSE DownData(h, b, t, f) /\ WasSent(h, o, t, f)

\* A query acknowledges what inpkt is or was about.
DownQuery(c, qry) ==
  /\ qry.num <= c.num /\ qry.ack.fragment < qry.num
  /\ \/ qry.ack.seqno < c.inp.seqno
     \/ qry.ack.seqno = c.inp.seqno /\ qry.ack.fragment <= c.inp.fragment

OutDown(h, c, read, o) ==
  GoodOut(o) /\ LineIs(h, read, o) /\ OutIs(h, c, o) /\ ClientDown(h, o, c)

Delivered(acked, written) == \A p \in acked : \E i \in DOMAIN written : written[i] = p

\* S are the answers on their way.
DownState(h, c, read, u, S) ==
  /\ GoodUser(u) /\ OutDown(h, c, read, u.out)
  /\ \A i \in DOMAIN u.cache : DownBody(h, u.out, c, u.cache[i].body)
  /\ \A a \in u.tx : DownBody(h, u.out, c, a.body)
  /\ \A a \in S : DownBody(h, u.out, c, a.body)
  /\ S \subseteq AnswerRecord
  /\ Delivered(u.acked, c.written)

ReadDown == [k \in 1 .. downRead |-> scenario.down[k]]

DownInv(h) ==
  /\ downRead \in 0 .. Len(scenario.down) /\ Len(scenario.down) < RecentSpan
  /\ client.num <= MaxQueries
  /\ DownState(h, client, ReadDown, user, answers)
  /\ \A qry \in queries : DownQuery(client, qry)

\* From the server's h and o to a later g and o2: outpacket has gone on.
Further(h, o, g, o2) ==
  /\ g \in DownHistory
  /\ \A k \in 1 .. h.at : g.line[k] = h.line[k]
  /\ \/ h.at < g.at
     \/ /\ h.at = g.at
        /\ Sending(o2) =>
             /\ Sending(o)
             /\ \/ o.fragment < o2.fragment
                \/ o.fragment = o2.fragment /\ (o.sentlen # 0 => o2.sentlen # 0)

-----------------------------------------------------------------------------
LEMMA DownBytesType ==
  ASSUME NEW f \in Nat
  PROVE  /\ DownBytes(f) \in Nat /\ DownBytes(f + 1) = DownBytes(f) + FragSize
         /\ DownBytes(0) = 0 /\ DownBytes(1) = FragSize
         /\ FragSize \in Nat \ {0}
<1>1. FragSize \in Nat \ {0}
  BY UserAssumption, LimitAssumption
<1> QED
  BY <1>1 DEF DownBytes

\* There are few packets, so that their numbers tell them apart.
LEMMA FewPackets ==
  ASSUME NEW h, NEW read, GoodRead(read), NEW o, GoodOut(o), LineIs(h, read, o)
  PROVE  /\ h \in DownHistory /\ h.line \in Seq(Packet) /\ h.at \in 0 .. 3
         /\ Len(h.line) \in 0 .. 3 /\ h.at <= Len(h.line) /\ o.filled \in Nat
         /\ Len(h.line) = h.at + o.filled
         /\ \A k \in 1 .. h.at : k \in 1 .. Len(h.line) /\ h.line[k] \in Packet
         /\ \A k \in 1 .. h.at : h.line[k][1] \in 1 .. 3
<1> DEFINE n == Len(h.line)
           m == Len(read)
<1>1. /\ h \in DownHistory /\ n = h.at + o.filled /\ n <= m /\ m < 4
      /\ read \in Seq(Packet) /\ m \in Nat
      /\ \A k \in 1 .. n : h.line[k][1] \in DOMAIN read
  BY DEF LineIs, GoodRead, RecentSpan
<1>2. h.line \in Seq(Packet) /\ h.at \in Nat /\ n \in Nat /\ o.filled \in Nat
  BY <1>1, LimitAssumption DEF DownHistory, GoodOut, OutRecord
<1>3. DOMAIN read = 1 .. m
  BY <1>1
<1> HIDE DEF n, m
<1>4. h.at \in 0 .. 3 /\ n \in 0 .. 3 /\ h.at <= n
  BY <1>1, <1>2
<1>5. \A k \in 1 .. h.at : k \in 1 .. n
  BY <1>4
<1>6. 1 .. m \subseteq 1 .. 3
  BY <1>1
<1>7. \A k \in 1 .. h.at : h.line[k] \in Packet
  BY <1>2, <1>5 DEF n
<1> QED
  BY <1>1, <1>2, <1>3, <1>4, <1>5, <1>6, <1>7 DEF n

LEMMA FurtherSame ==
  ASSUME NEW h \in DownHistory, NEW o
  PROVE  Further(h, o, h, o)
BY DEF Further

LEMMA FurtherTwice ==
  ASSUME NEW h \in DownHistory, NEW o, GoodOut(o), NEW g, NEW o2, GoodOut(o2),
         NEW i, NEW o3, GoodOut(o3), Further(h, o, g, o2), Further(g, o2, i, o3)
  PROVE  Further(h, o, i, o3)
<1>1. h.at \in Nat /\ g.at \in Nat /\ i.at \in Nat /\ i \in DownHistory
  BY DEF Further, DownHistory
<1>2. o.fragment \in Nat /\ o2.fragment \in Nat /\ o3.fragment \in Nat
  BY DEF GoodOut, OutRecord
<1>3. h.at <= g.at
  BY <1>1 DEF Further
<1>4. \A k \in 1 .. h.at : k \in 1 .. g.at
  BY <1>1, <1>3
<1>5. \A k \in 1 .. h.at : i.line[k] = h.line[k]
  BY <1>4 DEF Further
<1>6. \/ h.at < i.at
      \/ h.at = g.at /\ g.at = i.at
  BY <1>1 DEF Further
<1>7. CASE h.at = g.at /\ g.at = i.at
  <2>1. /\ Sending(o2) =>
             /\ Sending(o)
             /\ \/ o.fragment < o2.fragment
                \/ o.fragment = o2.fragment /\ (o.sentlen # 0 => o2.sentlen # 0)
        /\ Sending(o3) =>
             /\ Sending(o2)
             /\ \/ o2.fragment < o3.fragment
                \/ o2.fragment = o3.fragment /\ (o2.sentlen # 0 => o3.sentlen # 0)
    BY <1>1, <1>7 DEF Further
  <2>2. Sending(o3) =>
             /\ Sending(o)
             /\ \/ o.fragment < o3.fragment
                \/ o.fragment = o3.fragment /\ (o.sentlen # 0 => o3.sentlen # 0)
    BY <1>2, <2>1
  <2> QED
    BY <1>1, <1>5, <1>7, <2>2 DEF Further
<1> QED
  BY <1>1, <1>5, <1>6, <1>7 DEF Further

\* What was sent and what is over stays so.
LEMMA SentStays ==
  ASSUME NEW h \in DownHistory, NEW o, GoodOut(o), NEW g, NEW o2, GoodOut(o2),
         Further(h, o, g, o2), NEW t \in Nat, NEW f \in Nat
  PROVE  /\ WasSent(h, o, t, f) => WasSent(g, o2, t, f)
         /\ IsOver(h, o, t) => IsOver(g, o2, t)
         /\ t <= h.at => t <= g.at
         /\ t <= h.at /\ t > 0 => g.line[t] = h.line[t]
<1>1. /\ h.at \in Nat /\ g.at \in Nat
      /\ \A k \in 1 .. h.at : g.line[k] = h.line[k]
  BY DEF Further, DownHistory
<1>2. o.fragment \in Nat /\ o2.fragment \in Nat
  BY DEF GoodOut, OutRecord
<1>3. h.at <= g.at /\ (t <= h.at => t <= g.at) /\ (t <= h.at /\ t > 0 => t \in 1 .. h.at)
  BY <1>1 DEF Further
<1>4. CASE h.at < g.at
  <2>1. t < h.at \/ t = h.at => t < g.at
    BY <1>1, <1>4
  <2> QED
    BY <1>1, <1>3, <2>1 DEF WasSent, IsOver
<1>5. CASE ~ h.at < g.at
  <2>1. /\ h.at = g.at
        /\ Sending(o2) =>
             /\ Sending(o)
             /\ \/ o.fragment < o2.fragment
                \/ o.fragment = o2.fragment /\ (o.sentlen # 0 => o2.sentlen # 0)
    BY <1>5 DEF Further
  <2>2. f < o.fragment \/ (f = o.fragment /\ o.sentlen # 0)
          => (Sending(o2) => f < o2.fragment \/ (f = o2.fragment /\ o2.sentlen # 0))
    BY <1>2, <2>1
  <2>3. WasSent(h, o, t, f) => WasSent(g, o2, t, f)
    BY <2>1, <2>2 DEF WasSent
  <2>4. IsOver(h, o, t) => IsOver(g, o2, t)
    BY <2>1 DEF IsOver
  <2> QED
    BY <1>1, <1>3, <2>3, <2>4
<1> QED
  BY <1>4, <1>5

LEMMA DataStays ==
  ASSUME NEW h, NEW g, NEW b, NEW t, NEW f, g.line[t] = h.line[t], DownData(h, b, t, f)
  PROVE  DownData(g, b, t, f)
BY DEF DownData

LEMMA BodyFurther ==
  ASSUME NEW h \in DownHistory, NEW o, GoodOut(o), NEW g, NEW o2, GoodOut(o2),
         Further(h, o, g, o2), NEW c, NEW b \in BodyRecord, DownBody(h, o, c, b)
  PROVE  DownBody(g, o2, c, b)
<1> SUFFICES ASSUME b.legal PROVE DownBody(g, o2, c, b)
  BY DEF DownBody
<1> DEFINE t == b.down.seqno
           f == b.down.fragment
<1>1. t \in Seqnos /\ f \in FragNos
  BY DEF BodyRecord, Headers
<1>2. /\ t <= h.at /\ f <= c.num
      /\ f > 0 => Had(c.inp, t, f - 1)
      /\ IF b.data = << >> THEN IsOver(h, o, t)
         ELSE DownData(h, b, t, f) /\ WasSent(h, o, t, f)
  BY DEF DownBody
<1> HIDE DEF t, f
<1>3. t \in Nat /\ f \in Nat
  BY <1>1
<1>4. /\ t <= g.at
      /\ IF b.data = << >> THEN IsOver(g, o2, t)
         ELSE DownData(g, b, t, f) /\ WasSent(g, o2, t, f)
  <2>1. b.data # << >> => t > 0
    BY <1>2 DEF DownData
  <2> QED
    BY <1>2, <1>3, <2>1, SentStays, DataStays
<1> QED
  BY <1>2, <1>4 DEF DownBody, t, f

LEMMA ClientFurther ==
  ASSUME NEW h \in DownHistory, NEW o, GoodOut(o), NEW g, NEW o2, GoodOut(o2),
         Further(h, o, g, o2), NEW c, GoodClient(c), ClientDown(h, o, c)
  PROVE  ClientDown(g, o2, c)
<1> DEFINE t == c.inp.seqno
           f == c.inp.fragment
<1>1. t \in Seqnos /\ f \in FragNos
  BY DEF GoodClient, ClientRecord
<1>2. /\ t <= h.at /\ f <= c.num
      /\ \/ ClientHas(h, c.inp, c.written) /\ WasSent(h, o, t, f)
         \/ ClientSkipped(h, c.inp, c.written) /\ IsOver(h, o, t)
  BY DEF ClientDown
<1> HIDE DEF t, f
<1>3. t \in Nat /\ f \in Nat
  BY <1>1
<1>4. /\ t <= g.at
      /\ t > 0 => g.line[t] = h.line[t]
      /\ WasSent(h, o, t, f) => WasSent(g, o2, t, f)
      /\ IsOver(h, o, t) => IsOver(g, o2, t)
  BY <1>2, <1>3, SentStays
<1>5. ClientHas(h, c.inp, c.written) => ClientHas(g, c.inp, c.written)
  BY <1>4 DEF ClientHas, t
<1>6. ClientSkipped(h, c.inp, c.written) => ClientSkipped(g, c.inp, c.written)
  BY <1>3, <1>4 DEF ClientSkipped, t
<1> QED
  BY <1>2, <1>4, <1>5, <1>6 DEF ClientDown, t, f

-----------------------------------------------------------------------------
(***************************************************************************)
(* What the functions of the downstream queue do.                          *)
(***************************************************************************)
LEMMA ForgetFields ==
  ASSUME NEW o \in OutRecord
  PROVE  LET f == ForgetPacket(o)
         IN  /\ f \in OutRecord /\ ~ Sending(f) /\ f.seqno = o.seqno
             /\ f.fragment = o.fragment /\ f.ring = o.ring /\ f.use = o.use
             /\ f.filled = o.filled
BY DEF ForgetPacket, OutRecord, Sending

LEMMA GetFields ==
  ASSUME NEW o \in OutRecord, o.filled # 0
  PROVE  LET n == get_from_outpacketq(o)
         IN  /\ n.pkt = o.ring[o.use] /\ n.offset = 0 /\ n.sentlen = 0
             /\ n.fragment = 0 /\ n.seqno = NextSeqno(o.seqno)
             /\ n.ring = o.ring /\ n.use = Wrap(o.use + 1)
             /\ n.filled = o.filled - 1
BY DEF get_from_outpacketq, start_new_outpacket, OutRecord

\* Two steps round the ring
LEMMA WrapTwice ==
  ASSUME NEW u \in Slots, NEW i \in Nat, i + 1 < QueueLen
  PROVE  Wrap(Wrap(u + 1) + i) = Wrap(u + (i + 1))
BY LimitAssumption DEF Wrap, Slots

\* The seqno of outpacket counts.
LEMMA CountsOn ==
  ASSUME NEW k \in 0 .. 2
  PROVE  NextSeqno(k) = k + 1
BY DEF NextSeqno

\* A packet the server starts to send
LEMMA StartedIs ==
  ASSUME NEW h, NEW c, GoodClient(c), NEW o, GoodOut(o), o.seqno = h.at,
         h.at \in 1 .. 3, o.pkt = h.line[h.at], o.offset = 0, o.sentlen = 0,
         o.fragment = 0, o.pkt \in Packet
  PROVE  OutIs(h, c, o)
<1>1. DownBytes(0) = 0 /\ c.num \in Nat /\ PacketLen[o.pkt] # 0
  BY DownBytesType, PacketAssumption DEF GoodClient, ClientRecord
<1> QED
  BY <1>1 DEF OutIs

LEMMA NextDown ==
  ASSUME NEW h, NEW c, GoodClient(c), NEW read, GoodRead(read),
         NEW o, OutDown(h, c, read, o)
  PROVE  LET n == get_from_outpacketq(ForgetPacket(o))
         IN  \E g : /\ OutDown(g, c, read, n) /\ Further(h, o, g, n)
                    /\ IsOver(g, n, h.at)
<1> DEFINE f == ForgetPacket(o)
           n == get_from_outpacketq(f)
           Goal(g) == OutDown(g, c, read, n) /\ Further(h, o, g, n) /\ IsOver(g, n, h.at)
<1>1. /\ GoodOut(o) /\ LineIs(h, read, o) /\ OutIs(h, c, o) /\ ClientDown(h, o, c)
      /\ o \in OutRecord
  BY DEF OutDown, GoodOut
<1>2. /\ h \in DownHistory /\ h.line \in Seq(Packet) /\ h.at \in 0 .. 3
      /\ Len(h.line) \in 0 .. 3 /\ o.filled \in Nat
      /\ Len(h.line) = h.at + o.filled
  BY <1>1, FewPackets
<1>3. GoodOut(n)
  BY <1>1, NextFromQueueGood
<1>4. /\ f \in OutRecord /\ ~ Sending(f) /\ f.seqno = o.seqno
      /\ f.fragment = o.fragment /\ f.ring = o.ring /\ f.use = o.use
      /\ f.filled = o.filled
  BY <1>1, ForgetFields
<1> HIDE DEF f
<1>5. CASE o.filled = 0
  <2>1. n = f
    BY <1>4, <1>5 DEF get_from_outpacketq
  <2> HIDE DEF n
  <2>2. LineIs(h, read, n)
    BY <1>1, <1>4, <2>1 DEF LineIs
  <2>3. OutIs(h, c, n)
    BY <1>1, <1>4, <2>1 DEF OutIs
  <2>4. Further(h, o, h, n) /\ IsOver(h, n, h.at)
    BY <1>2, <1>4, <2>1 DEF Further, IsOver
  <2>5. ClientDown(h, n, c)
    BY <1>1, <1>2, <1>3, <2>4, ClientFurther
  <2>6. Goal(h)
    BY <1>3, <2>2, <2>3, <2>4, <2>5 DEF OutDown
  <2> QED
    BY <2>6 DEF n, f
<1>6. CASE o.filled # 0
  <2> DEFINE k == h.at + 1
             g == [line |-> h.line, at |-> k]
  <2>1. /\ n.pkt = o.ring[o.use] /\ n.offset = 0 /\ n.sentlen = 0
        /\ n.fragment = 0 /\ n.seqno = NextSeqno(o.seqno)
        /\ n.ring = o.ring /\ n.use = Wrap(o.use + 1)
        /\ n.filled = o.filled - 1
    BY <1>4, <1>6, GetFields
  <2> HIDE DEF n
  <2>2. h.at \in 0 .. 2 /\ k \in 1 .. 3 /\ k \in 1 .. Len(h.line)
    BY <1>2, <1>6
  <2>3. n.seqno = k
    BY <1>1, <2>1, <2>2, CountsOn DEF OutIs
  <2>4. o.use \in Slots /\ o.filled <= QueueLen /\ QueueLen \in Nat \ {0}
    BY <1>1, LimitAssumption DEF OutRecord
  <2>5. n.pkt = h.line[k]
    <3>1. Wrap(o.use + 0) = o.use
      BY <2>4 DEF Wrap, Slots
    <3>2. 0 \in 0 .. o.filled - 1
      BY <1>2, <1>6
    <3>3. o.ring[Wrap(o.use + 0)] = h.line[h.at + 1 + 0]
      BY <1>1, <3>2 DEF LineIs
    <3>4. h.at + 1 + 0 = k
      BY <1>2
    <3> QED
      BY <2>1, <3>1, <3>3, <3>4
  <2>6. g \in DownHistory /\ g.line = h.line /\ g.at = k
    BY <1>2, <2>2 DEF DownHistory
  <2> HIDE DEF g
  <2>7. LineIs(g, read, n)
    <3>1. Len(g.line) = g.at + n.filled
      BY <1>2, <2>1, <2>6
    <3>2. ASSUME NEW i \in 0 .. n.filled - 1
          PROVE  n.ring[Wrap(n.use + i)] = g.line[g.at + 1 + i]
      <4>1. i \in Nat /\ i + 1 \in 0 .. o.filled - 1 /\ i + 1 < QueueLen
        BY <1>2, <2>1, <2>4
      <4>2. Wrap(n.use + i) = Wrap(o.use + (i + 1))
        BY <2>1, <2>4, <4>1, WrapTwice
      <4>3. o.ring[Wrap(o.use + (i + 1))] = h.line[h.at + 1 + (i + 1)]
        BY <1>1, <4>1 DEF LineIs
      <4>4. h.at + 1 + (i + 1) = g.at + 1 + i
        BY <1>2, <2>6, <4>1
      <4> QED
        BY <2>1, <2>6, <4>2, <4>3, <4>4
    <3> QED
      BY <1>1, <2>6, <3>1, <3>2 DEF LineIs
  <2>8. OutIs(g, c, n)
    <3>1. n.pkt \in Packet
      BY <1>2, <2>2, <2>5
    <3> QED
      BY <1>3, <2>1, <2>2, <2>3, <2>5, <2>6, <3>1, StartedIs
  <2>9. Further(h, o, g, n) /\ IsOver(g, n, h.at)
    BY <1>2, <2>6 DEF Further, IsOver
  <2>10. ClientDown(g, n, c)
    BY <1>1, <1>2, <1>3, <2>9, ClientFurther
  <2>11. Goal(g)
    BY <1>3, <2>7, <2>8, <2>9, <2>10 DEF OutDown
  <2> QED
    BY <2>11 DEF n, f
<1> QED
  BY <1>5, <1>6

LEMMA CellsNone ==
  ASSUME NEW p, NEW from, NEW len \in Nat
  PROVE  (CellsOf(p, from, len) = << >>) <=> (len = 0)
<1>1. Len(CellsOf(p, from, len)) = len
  BY DEF CellsOf
<1>2. len = 0 => CellsOf(p, from, len) = << >>
  BY DEF CellsOf
<1> QED
  BY <1>1, <1>2

\* The server gives a packet up.
LEMMA DropDown ==
  ASSUME NEW h, NEW c, GoodClient(c), NEW read, GoodRead(read),
         NEW o, OutDown(h, c, read, o)
  PROVE  LET n == DropIfResentTooOften(o)
         IN  \E g : OutDown(g, c, read, n) /\ Further(h, o, g, n)
<1>1. h \in DownHistory
  BY DEF OutDown, LineIs
<1>2. Further(h, o, h, o)
  BY <1>1, FurtherSame
<1>3. \E g : /\ OutDown(g, c, read, get_from_outpacketq(ForgetPacket(o)))
             /\ Further(h, o, g, get_from_outpacketq(ForgetPacket(o)))
  BY NextDown
<1> QED
  BY <1>2, <1>3 DEF DropIfResentTooOften

\* The body of an answer b has what is in this chunk.
Tells(b, chunk) ==
  /\ b.down = Header(chunk) /\ b.last = chunk.last
  /\ b.data = CellsOf(chunk.pkt, chunk.from, chunk.len)

\* In the four-bit field of a header there is room for the fragment.
LEMMA FieldFits ==
  ASSUME NEW f \in Nat, NEW num \in Nat, f <= num, num <= MaxQueries
  PROVE  f \in FragNos /\ FragField(f) = f
<1>1. f \in 0 .. 12
  BY ClientAssumption, QueryBoundAssumption
<1> QED
  BY <1>1 DEF FragField

LEMMA ChunkTells ==
  ASSUME NEW o, NEW b, Tells(b, ChunkOf(o, FragSize)), FragField(o.fragment) = o.fragment
  PROVE  /\ b.down.seqno = o.seqno /\ b.down.fragment = o.fragment
         /\ b.data = CellsOf(o.pkt, o.offset, DataLen(o, FragSize))
         /\ b.last = (Sending(o) /\ o.offset + DataLen(o, FragSize) = PacketLen[o.pkt])
BY DEF Tells, ChunkOf, Header

\* The server cuts the next chunk, n is outpacket afterwards.
LEMMA CutTells ==
  ASSUME NEW h, NEW c, GoodClient(c), c.num <= MaxQueries, NEW read, GoodRead(read),
         NEW o, OutDown(h, c, read, o), Sending(o),
         NEW b, Tells(b, ChunkOf(o, FragSize)),
         NEW g, NEW n, h.at <= g.at, g.line[h.at] = h.line[h.at],
         WasSent(g, n, h.at, o.fragment)
  PROVE  DownBody(g, n, c, b)
<1> DEFINE f == o.fragment
           t == h.at
           p == h.line[t]
           avail == PacketLen[p] - DownBytes(f)
           len == Smaller(FragSize, avail)
<1>1. /\ OutIs(h, c, o) /\ o \in OutRecord /\ WithinPacket(o)
      /\ o.fragment \in Nat /\ c.num \in Nat
  BY DEF OutDown, GoodOut, OutRecord, GoodClient, ClientRecord
<1>2. /\ o.seqno = t /\ f <= c.num
      /\ f > 0 => Had(c.inp, t, f - 1)
      /\ t > 0 /\ o.pkt = p /\ o.offset = DownBytes(f) /\ o.offset < PacketLen[p]
  BY <1>1 DEF OutIs, WithinPacket
<1>3. PacketLen[p] \in Nat /\ DownBytes(f) \in Nat /\ FragSize \in Nat \ {0}
  <2>1. p \in Packet
    BY <1>1, <1>2 DEF OutRecord, Sending
  <2> QED
    BY <1>1, <2>1, PacketAssumption, DownBytesType
<1>4. FragField(f) = f
  BY <1>1, <1>2, FieldFits
<1>5. /\ b.down.seqno = t /\ b.down.fragment = f
      /\ b.data = CellsOf(o.pkt, o.offset, DataLen(o, FragSize))
      /\ b.last = (Sending(o) /\ o.offset + DataLen(o, FragSize) = PacketLen[o.pkt])
  BY <1>2, <1>4, ChunkTells
<1>6. DataLen(o, FragSize) = len
  BY <1>2 DEF DataLen
<1> HIDE DEF f, t, p
<1>7. avail \in Nat \ {0} /\ len \in Nat \ {0}
  BY <1>2, <1>3 DEF Smaller
<1>8. b.last = (len = avail)
  <2>1. (DownBytes(f) + len = PacketLen[p]) <=> (len = avail)
    BY <1>3, <1>7
  <2>2. b.last = (DownBytes(f) + len = PacketLen[p])
    BY <1>2, <1>5, <1>6
  <2> QED
    BY <2>1, <2>2
<1>9. b.data = CellsOf(p, DownBytes(f), len) /\ b.data # << >>
  BY <1>2, <1>5, <1>6, <1>7, CellsNone
<1>10. DownData(g, b, t, f)
  <2>1. g.line[t] = p
    BY DEF t, p
  <2> QED
    BY <1>2, <1>7, <1>8, <1>9, <2>1 DEF DownData
<1>11. t <= g.at /\ WasSent(g, n, t, f)
  BY DEF t, f
<1> QED
  BY <1>2, <1>5, <1>9, <1>10, <1>11 DEF DownBody

LEMMA CutFields ==
  ASSUME NEW o \in OutRecord, Sending(o)
  PROVE  LET n == CutChunk(o, FragSize)
         IN  /\ n.pkt = o.pkt /\ n.seqno = o.seqno /\ n.fragment = o.fragment
             /\ n.offset = o.offset /\ n.sentlen = DataLen(o, FragSize)
             /\ n.ring = o.ring /\ n.use = o.use /\ n.filled = o.filled
             /\ ForgetPacket(n) = ForgetPacket(o)
BY DEF CutChunk, OutRecord, ForgetPacket

LEMMA CutDown ==
  ASSUME NEW h, NEW c, GoodClient(c), c.num <= MaxQueries, NEW read, GoodRead(read),
         NEW o, OutDown(h, c, read, o), Sending(o), o.resent <= ResendLimit
  PROVE  LET n == AfterSend(CutChunk(o, FragSize))
         IN  \E g : /\ OutDown(g, c, read, n) /\ Further(h, o, g, n)
                    /\ \A b : Tells(b, ChunkOf(o, FragSize)) => DownBody(g, n, c, b)
<1> DEFINE cut == CutChunk(o, FragSize)
           n == AfterSend(cut)
           Goal(g) == /\ OutDown(g, c, read, n) /\ Further(h, o, g, n)
                      /\ \A b : Tells(b, ChunkOf(o, FragSize)) => DownBody(g, n, c, b)
<1>1. /\ GoodOut(o) /\ LineIs(h, read, o) /\ OutIs(h, c, o) /\ ClientDown(h, o, c)
      /\ o \in OutRecord
  BY DEF OutDown, GoodOut
<1>2. h \in DownHistory /\ h.at \in Nat /\ h.at > 0
  BY <1>1, FewPackets DEF OutIs
<1>3. /\ cut.pkt = o.pkt /\ cut.seqno = o.seqno /\ cut.fragment = o.fragment
      /\ cut.offset = o.offset /\ cut.sentlen = DataLen(o, FragSize)
      /\ cut.ring = o.ring /\ cut.use = o.use /\ cut.filled = o.filled
      /\ ForgetPacket(cut) = ForgetPacket(o)
  BY <1>1, CutFields
<1>4. GoodOut(cut)
  BY <1>1, CutGood, UserAssumption
<1> HIDE DEF cut
<1>5. CASE WentOutWhole(cut)
  <2>1. n = get_from_outpacketq(ForgetPacket(o))
    BY <1>3, <1>5 DEF AfterSend
  <2> HIDE DEF n
  <2>2. PICK g : /\ OutDown(g, c, read, n) /\ Further(h, o, g, n)
                 /\ IsOver(g, n, h.at)
    BY <2>1, NextDown
  <2>3. h.at <= g.at /\ g.line[h.at] = h.line[h.at]
    <3>1. h.at \in 1 .. h.at
      BY <1>2
    <3>2. g.at \in Nat
      BY <2>2 DEF Further, DownHistory
    <3> QED
      BY <1>2, <2>2, <3>1, <3>2 DEF Further
  <2>4. WasSent(g, n, h.at, o.fragment)
    BY <2>2 DEF IsOver, WasSent
  <2>5. \A b : Tells(b, ChunkOf(o, FragSize)) => DownBody(g, n, c, b)
    BY <2>3, <2>4, CutTells
  <2>6. Goal(g)
    BY <2>2, <2>5
  <2> QED
    BY <2>6 DEF n, cut
<1>6. CASE ~ WentOutWhole(cut)
  <2>1. n = cut
    BY <1>6 DEF AfterSend
  <2> HIDE DEF n
  <2>2. /\ n.sentlen = Smaller(FragSize, PacketLen[o.pkt] - o.offset)
        /\ n.sentlen # 0
    <3>1. o.offset < PacketLen[o.pkt] /\ o.offset \in Nat /\ PacketLen[o.pkt] \in Nat
      BY <1>1, PacketAssumption DEF GoodOut, WithinPacket, OutRecord, Sending
    <3> QED
      BY <1>3, <2>1, <3>1, DownBytesType DEF DataLen, Smaller
  <2>3. OutIs(h, c, n)
    BY <1>1, <1>3, <1>6, <2>1, <2>2 DEF OutIs, WentOutWhole, Sending
  <2>4. LineIs(h, read, n)
    BY <1>1, <1>3, <2>1 DEF LineIs
  <2>5. Further(h, o, h, n) /\ WasSent(h, n, h.at, o.fragment)
    BY <1>2, <1>3, <2>1, <2>2 DEF Further, WasSent
  <2>6. ClientDown(h, n, c)
    BY <1>1, <1>2, <1>4, <2>1, <2>5, ClientFurther
  <2>7. h.at <= h.at
    BY <1>2
  <2>8. \A b : Tells(b, ChunkOf(o, FragSize)) => DownBody(h, n, c, b)
    BY <2>5, <2>7, CutTells
  <2>9. Goal(h)
    BY <1>4, <2>1, <2>3, <2>4, <2>5, <2>6, <2>8 DEF OutDown
  <2> QED
    BY <2>9 DEF n, cut
<1> QED
  BY <1>5, <1>6

\* send_chunk_or_dataless: it sends what is next, or tells of a packet that
\* is over.
LEMMA SendOutDown ==
  ASSUME NEW h, NEW c, GoodClient(c), c.num <= MaxQueries, NEW read, GoodRead(read),
         NEW o, OutDown(h, c, read, o)
  PROVE  LET s == send_next_chunk(o, FragSize)
         IN  \E g : /\ OutDown(g, c, read, s.out) /\ Further(h, o, g, s.out)
                    /\ \A b : Tells(b, s.chunk) => DownBody(g, s.out, c, b)
<1> DEFINE r == DropIfResentTooOften(o)
           s == send_next_chunk(o, FragSize)
           n == AfterSend(CutChunk(r, FragSize))
<1>1. s.out = n /\ s.chunk = ChunkOf(r, FragSize)
  BY DEF send_next_chunk
<1> HIDE DEF s
<1>2. GoodOut(o) /\ h \in DownHistory
  BY DEF OutDown, LineIs
<1>3. GoodOut(r) /\ (Sending(r) => r.resent <= ResendLimit)
  BY <1>2, DropGood
<1>4. PICK i : OutDown(i, c, read, r) /\ Further(h, o, i, r)
  BY DropDown
<1> HIDE DEF r
<1>5. \E g : /\ OutDown(g, c, read, n) /\ Further(i, r, g, n)
             /\ \A b : Tells(b, ChunkOf(r, FragSize)) => DownBody(g, n, c, b)
  <2>1. CASE Sending(r)
    BY <1>3, <1>4, <2>1, CutDown
  <2>2. CASE ~ Sending(r)
    <3>1. n = r
      BY <2>2 DEF AfterSend, CutChunk, WentOutWhole
    <3> HIDE DEF n
    <3>2. i \in DownHistory /\ i.at \in Nat /\ OutIs(i, c, r) /\ r.fragment \in Nat /\ c.num \in Nat
      BY <1>3, <1>4 DEF OutDown, LineIs, DownHistory, GoodOut, OutRecord, GoodClient, ClientRecord
    <3>3. FragField(r.fragment) = r.fragment
      BY <3>2, FieldFits DEF OutIs
    <3>4. DataLen(r, FragSize) = 0
      BY <2>2 DEF DataLen
    <3>5. ASSUME NEW b, Tells(b, ChunkOf(r, FragSize))
          PROVE  DownBody(i, r, c, b)
      <4>1. /\ b.down.seqno = r.seqno /\ b.down.fragment = r.fragment
            /\ b.data = CellsOf(r.pkt, r.offset, 0)
        BY <3>3, <3>4, <3>5, ChunkTells
      <4>2. b.data = << >>
        BY <4>1, CellsNone
      <4>3. IsOver(i, r, i.at) /\ i.at <= i.at
        BY <2>2, <3>2 DEF IsOver
      <4> QED
        BY <3>2, <4>1, <4>2, <4>3 DEF DownBody, OutIs
    <3>6. Further(i, r, i, r)
      BY <3>2, FurtherSame
    <3> QED
      BY <1>4, <3>1, <3>5, <3>6
  <2> QED
    BY <2>1, <2>2
<1>6. PICK g : /\ OutDown(g, c, read, n) /\ Further(i, r, g, n)
               /\ \A b : Tells(b, ChunkOf(r, FragSize)) => DownBody(g, n, c, b)
  BY <1>5
<1> HIDE DEF n
<1>7. Further(h, o, g, n)
  <2>1. GoodOut(n)
    BY <1>6 DEF OutDown
  <2> QED
    BY <1>2, <1>3, <1>4, <1>6, <2>1, FurtherTwice
<1> QED
  BY <1>1, <1>6, <1>7 DEF s

\* Another packet is read.
LEMMA ReadAppend ==
  ASSUME NEW read, GoodRead(read), NEW p \in Packet, GoodRead(Append(read, p))
  PROVE  LET more == Append(read, p)
         IN  /\ Len(more) = Len(read) + 1 /\ p[1] = Len(read) + 1
             /\ p[1] \in DOMAIN more /\ more[p[1]] = p
             /\ \A k \in DOMAIN read : k \in DOMAIN more /\ more[k] = read[k]
             /\ \A k \in DOMAIN read : k < p[1]
<1> DEFINE more == Append(read, p)
           n == Len(read)
<1>1. read \in Seq(Packet) /\ n \in Nat /\ DOMAIN read = 1 .. n
  BY DEF GoodRead
<1>2. /\ Len(more) = n + 1 /\ DOMAIN more = 1 .. n + 1 /\ more[n + 1] = p
      /\ \A k \in 1 .. n : more[k] = read[k]
  BY <1>1, AppendProperties
<1>3. \A k \in DOMAIN more : more[k][1] = k
  BY DEF GoodRead
<1> HIDE DEF more, n
<1>4. n + 1 \in DOMAIN more
  BY <1>1, <1>2
<1>5. p[1] = n + 1
  BY <1>2, <1>3, <1>4
<1>6. \A k \in 1 .. n : k \in 1 .. n + 1 /\ k < n + 1
  BY <1>1
<1> QED
  BY <1>1, <1>2, <1>4, <1>5, <1>6 DEF more, n

\* The line is in the packets read.
InRead(line, read) ==
  \A k \in 1 .. Len(line) :
    /\ line[k][1] \in DOMAIN read /\ read[line[k][1]] = line[k]
    /\ \A j \in 1 .. k - 1 : line[j][1] < line[k][1]

LEMMA InReadMore ==
  ASSUME NEW line \in Seq(Packet), NEW read, GoodRead(read), InRead(line, read),
         NEW p \in Packet, GoodRead(Append(read, p))
  PROVE  /\ InRead(line, Append(read, p)) /\ InRead(Append(line, p), Append(read, p))
         /\ Len(Append(line, p)) = Len(line) + 1 /\ Append(line, p)[Len(line) + 1] = p
         /\ Append(line, p) \in Seq(Packet)
         /\ \A k \in 1 .. Len(line) : Append(line, p)[k] = line[k]
<1> DEFINE more == Append(read, p)
           long == Append(line, p)
           n == Len(line)
<1>1. /\ p[1] \in DOMAIN more /\ more[p[1]] = p
      /\ \A k \in DOMAIN read : k \in DOMAIN more /\ more[k] = read[k]
      /\ \A k \in DOMAIN read : k < p[1]
  BY ReadAppend
<1> HIDE DEF more
<1>2. InRead(line, more)
  BY <1>1 DEF InRead
<1>3. /\ Len(long) = n + 1 /\ long[n + 1] = p /\ n \in Nat /\ long \in Seq(Packet)
      /\ \A k \in 1 .. n : long[k] = line[k]
  BY AppendProperties
<1> HIDE DEF long
<1>4. ASSUME NEW k \in 1 .. n + 1
      PROVE  /\ long[k][1] \in DOMAIN more /\ more[long[k][1]] = long[k]
             /\ \A j \in 1 .. k - 1 : long[j][1] < long[k][1]
  <2>1. CASE k \in 1 .. n
    <3>1. \A j \in 1 .. k - 1 : j \in 1 .. n
      BY <1>3, <2>1
    <3> QED
      BY <1>2, <1>3, <2>1, <3>1 DEF InRead
  <2>2. CASE k = n + 1
    <3>1. \A j \in 1 .. k - 1 : j \in 1 .. n
      BY <1>3, <2>2
    <3>2. \A j \in 1 .. n : long[j][1] \in DOMAIN read
      BY <1>3 DEF InRead
    <3> QED
      BY <1>1, <1>3, <2>2, <3>1, <3>2
  <2> QED
    BY <1>3, <2>1, <2>2
<1>5. InRead(long, more)
  BY <1>3, <1>4 DEF InRead
<1> QED
  BY <1>2, <1>3, <1>5 DEF more, long

LEMMA LineIsInRead ==
  ASSUME NEW h, NEW read, NEW o
  PROVE  LineIs(h, read, o) <=>
           /\ h \in DownHistory /\ InRead(h.line, read)
           /\ Len(h.line) = h.at + o.filled /\ Len(h.line) <= Len(read)
           /\ \A i \in 0 .. o.filled - 1 : o.ring[Wrap(o.use + i)] = h.line[h.at + 1 + i]
BY DEF LineIs, InRead

LEMMA SlotSum ==
  ASSUME NEW q \in Nat \ {0}, NEW a \in 0 .. q - 1, NEW b \in 0 .. q - 1
  PROVE  a + b \in 0 .. 2 * q - 1
OBVIOUS

LEMMA StartFields ==
  ASSUME NEW o \in OutRecord, NEW p
  PROVE  LET n == start_new_outpacket(o, p)
         IN  /\ n.pkt = p /\ n.offset = 0 /\ n.sentlen = 0 /\ n.fragment = 0
             /\ n.seqno = NextSeqno(o.seqno)
             /\ n.ring = o.ring /\ n.use = o.use /\ n.filled = o.filled
BY DEF start_new_outpacket, OutRecord

LEMMA SaveFields ==
  ASSUME NEW o \in OutRecord, NEW p, o.filled < QueueLen
  PROVE  LET n == save_to_outpacketq(o, p)
             last == Wrap(o.use + o.filled)
         IN  /\ n.pkt = o.pkt /\ n.offset = o.offset /\ n.sentlen = o.sentlen
             /\ n.fragment = o.fragment /\ n.seqno = o.seqno /\ n.use = o.use
             /\ n.filled = o.filled + 1
             /\ \A i \in Slots : n.ring[i] = IF i = last THEN p ELSE o.ring[i]
<1> DEFINE last == Wrap(o.use + o.filled)
           ring == [o.ring EXCEPT ![last] = p]
           n == save_to_outpacketq(o, p)
<1>1. o.filled \in Nat /\ QueueLen \in Nat
  BY LimitAssumption DEF OutRecord
<1>2. n = [o EXCEPT !.ring = ring, !.filled = o.filled + 1]
  BY <1>1 DEF save_to_outpacketq
<1>3. \A i \in Slots : ring[i] = IF i = last THEN p ELSE o.ring[i]
  BY DEF OutRecord
<1> HIDE DEF ring, n
<1>4. /\ n.pkt = o.pkt /\ n.offset = o.offset /\ n.sentlen = o.sentlen
      /\ n.fragment = o.fragment /\ n.seqno = o.seqno /\ n.use = o.use
      /\ n.filled = o.filled + 1 /\ n.ring = ring
  BY <1>2 DEF OutRecord
<1> QED
  BY <1>3, <1>4 DEF n

\* tunnel_tun: the packet is started, queued or thrown away.
LEMMA AcceptDown ==
  ASSUME NEW h, NEW c, GoodClient(c), NEW read, GoodRead(read),
         NEW o, OutDown(h, c, read, o), NEW p \in Packet, GoodRead(Append(read, p))
  PROVE  LET n == AcceptPacket(o, p)
         IN  \E g : OutDown(g, c, Append(read, p), n) /\ Further(h, o, g, n)
<1> DEFINE n == AcceptPacket(o, p)
           more == Append(read, p)
           long == Append(h.line, p)
           size == Len(h.line)
           Goal(g) == OutDown(g, c, more, n) /\ Further(h, o, g, n)
<1>1. /\ GoodOut(o) /\ LineIs(h, read, o) /\ OutIs(h, c, o) /\ ClientDown(h, o, c)
      /\ o \in OutRecord
  BY DEF OutDown, GoodOut
<1>2. /\ h \in DownHistory /\ h.line \in Seq(Packet) /\ h.at \in 0 .. 3
      /\ size \in 0 .. 3 /\ h.at <= size /\ o.filled \in Nat
      /\ size = h.at + o.filled
  BY <1>1, FewPackets
<1>3. GoodOut(n)
  BY <1>1, AcceptOut
<1>4. /\ InRead(h.line, read) /\ size <= Len(read) /\ Len(read) \in Nat
      /\ \A i \in 0 .. o.filled - 1 : o.ring[Wrap(o.use + i)] = h.line[h.at + 1 + i]
  BY <1>1, LineIsInRead DEF GoodRead
<1>5. Len(more) = Len(read) + 1 /\ Len(more) < 4
  BY ReadAppend DEF GoodRead, RecentSpan
<1>6. /\ InRead(h.line, more) /\ InRead(long, more)
      /\ Len(long) = size + 1 /\ long[size + 1] = p
      /\ long \in Seq(Packet)
      /\ \A k \in 1 .. size : long[k] = h.line[k]
  BY <1>2, <1>4, InReadMore
<1> HIDE DEF more, long, size
<1>7. o.use \in Slots /\ o.filled <= QueueLen /\ QueueLen \in Nat \ {0}
  BY <1>1, LimitAssumption DEF OutRecord
<1>8. \A k \in 1 .. h.at : k \in 1 .. size
  BY <1>2
<1>9. CASE ~ Sending(o)
  <2> DEFINE k == h.at + 1
             g == [line |-> long, at |-> k]
  <2>1. o.filled = 0 /\ size = h.at
    BY <1>1, <1>2, <1>9 DEF GoodOut
  <2>2. /\ n.pkt = p /\ n.offset = 0 /\ n.sentlen = 0 /\ n.fragment = 0
        /\ n.seqno = NextSeqno(o.seqno) /\ n.filled = 0
    BY <1>1, <1>9, <2>1, StartFields DEF AcceptPacket
  <2> HIDE DEF n
  <2>3. h.at \in 0 .. 2 /\ k \in 1 .. 3
    BY <1>2, <1>4, <1>5, <2>1
  <2>4. n.seqno = k
    BY <1>1, <2>2, <2>3, CountsOn DEF OutIs
  <2>5. g \in DownHistory /\ g.line = long /\ g.at = k
    BY <1>6, <2>3 DEF DownHistory
  <2> HIDE DEF g
  <2>6. LineIs(g, more, n)
    <3>1. Len(g.line) = g.at + n.filled /\ Len(g.line) <= Len(more)
      BY <1>2, <1>4, <1>5, <1>6, <2>1, <2>2, <2>5
    <3>2. 0 .. n.filled - 1 = {}
      BY <2>2
    <3> QED
      BY <1>6, <2>5, <3>1, <3>2, LineIsInRead
  <2>7. OutIs(g, c, n)
    <3>1. n.pkt = g.line[g.at]
      BY <1>6, <2>1, <2>2, <2>5
    <3> QED
      BY <1>3, <2>2, <2>3, <2>4, <2>5, <3>1, StartedIs
  <2>8. Further(h, o, g, n)
    BY <1>2, <1>6, <1>8, <2>5 DEF Further
  <2>9. ClientDown(g, n, c)
    BY <1>1, <1>2, <1>3, <2>8, ClientFurther
  <2>10. Goal(g)
    BY <1>3, <2>6, <2>7, <2>8, <2>9 DEF OutDown
  <2> QED
    BY <2>10 DEF n, more
<1>10. CASE Sending(o) /\ o.filled >= QueueLen
  <2>1. n = o
    BY <1>10 DEF AcceptPacket, save_to_outpacketq
  <2> HIDE DEF n
  <2>2. LineIs(h, more, o)
    <3>1. size <= Len(more)
      BY <1>2, <1>4, <1>5
    <3> QED
      BY <1>1, <1>6, <3>1, LineIsInRead DEF size
  <2>3. Goal(h)
    BY <1>1, <1>2, <2>1, <2>2, FurtherSame DEF OutDown
  <2> QED
    BY <2>3 DEF n, more
<1>11. CASE Sending(o) /\ o.filled < QueueLen
  <2> DEFINE g == [line |-> long, at |-> h.at]
             last == Wrap(o.use + o.filled)
  <2>1. /\ n.pkt = o.pkt /\ n.offset = o.offset /\ n.sentlen = o.sentlen
        /\ n.fragment = o.fragment /\ n.seqno = o.seqno /\ n.use = o.use
        /\ n.filled = o.filled + 1
        /\ \A i \in Slots : n.ring[i] = IF i = last THEN p ELSE o.ring[i]
    BY <1>1, <1>11, SaveFields DEF AcceptPacket
  <2> HIDE DEF n
  <2>2. g \in DownHistory /\ g.line = long /\ g.at = h.at
    BY <1>2, <1>6 DEF DownHistory
  <2> HIDE DEF g
  <2>3. ASSUME NEW i \in 0 .. n.filled - 1
        PROVE  n.ring[Wrap(n.use + i)] = g.line[g.at + 1 + i]
    <3>1. i \in 0 .. o.filled /\ Wrap(o.use + i) \in Slots
      <4>1. i \in 0 .. o.filled
        BY <1>2, <2>1
      <4>2. o.use + i \in 0 .. 2 * QueueLen - 1
        <5>1. o.use \in 0 .. QueueLen - 1
          BY <1>7 DEF Slots
        <5>2. i \in 0 .. QueueLen - 1
          BY <1>2, <1>7, <1>11, <4>1
        <5> QED
          BY <1>7, <5>1, <5>2, SlotSum
      <4> QED
        BY <4>1, <4>2, WrapInSlots
    <3>2. CASE i = o.filled
      <4>1. n.ring[Wrap(n.use + i)] = p
        BY <2>1, <3>1, <3>2
      <4>2. h.at + 1 + i = size + 1
        BY <1>2, <3>2
      <4> QED
        BY <1>6, <2>2, <4>1, <4>2
    <3>3. CASE i # o.filled
      <4>1. i \in 0 .. o.filled - 1 /\ h.at + 1 + i \in 1 .. size
        BY <1>2, <3>1, <3>3
      <4>2. Wrap(o.use + i) # last
        <5>1. o.use \in 0 .. QueueLen - 1 /\ o.filled \in Nat
          BY <1>2, <1>7 DEF Slots
        <5> QED
          BY <1>7, <1>11, <4>1, <5>1 DEF Wrap
      <4>3. n.ring[Wrap(n.use + i)] = h.line[h.at + 1 + i]
        BY <1>4, <2>1, <3>1, <4>1, <4>2
      <4> QED
        BY <1>6, <2>2, <4>1, <4>3
    <3> QED
      BY <3>2, <3>3
  <2>4. LineIs(g, more, n)
    <3>1. Len(long) = h.at + o.filled + 1 /\ Len(long) <= Len(more)
      BY <1>2, <1>4, <1>5, <1>6
    <3>2. Len(g.line) = g.at + n.filled /\ Len(g.line) <= Len(more)
      BY <1>2, <2>1, <2>2, <3>1
    <3> QED
      BY <1>6, <2>2, <2>3, <3>2, LineIsInRead
  <2>5. OutIs(g, c, n)
    <3>1. h.at > 0 => g.line[h.at] = h.line[h.at]
      BY <1>2, <1>6, <1>8, <2>2
    <3> QED
      BY <1>1, <2>1, <2>2, <3>1 DEF OutIs, Sending
  <2>6. Further(h, o, g, n)
    BY <1>6, <1>8, <2>1, <2>2 DEF Further, Sending
  <2>7. ClientDown(g, n, c)
    BY <1>1, <1>2, <1>3, <2>6, ClientFurther
  <2>8. Goal(g)
    BY <1>3, <2>4, <2>5, <2>6, <2>7 DEF OutDown
  <2> QED
    BY <2>8 DEF n, more
<1> QED
  BY <1>2, <1>7, <1>9, <1>10, <1>11

-----------------------------------------------------------------------------
\* qry acknowledges the fragment that is sent.
IsAckOf(qry, o) == IsAwaitedAck(o, qry.ack.seqno, qry.ack.fragment)

\* The client has the fragment that is sent: that is all of it, or the next
\* one begins where the client's inpkt ends.
HasThis(h, c, o) ==
  /\ Sending(o) /\ h.at > 0 /\ o.pkt = h.line[h.at]
  /\ o.offset = DownBytes(o.fragment) /\ o.fragment + 1 <= c.num
  /\ c.inp.seqno = h.at /\ c.inp.fragment = o.fragment
  /\ \/ /\ o.offset + o.sentlen >= PacketLen[o.pkt]
        /\ c.written # << >> /\ c.written[Len(c.written)] = o.pkt
     \/ /\ o.offset + o.sentlen < PacketLen[o.pkt]
        /\ o.offset + o.sentlen = DownBytes(o.fragment + 1)
        /\ c.inp.buf # << >>

\* An acknowledgement of what outpacket is about: the client has it.
LEMMA AckIsOfThis ==
  ASSUME NEW h, NEW c, GoodClient(c), NEW read, GoodRead(read),
         NEW o, OutDown(h, c, read, o), NEW qry, NewQuery(qry), DownQuery(c, qry),
         IsAckOf(qry, o)
  PROVE  HasThis(h, c, o)
<1> DEFINE f == o.fragment
           t == h.at
           n == DownBytes(f + 1)
           len == PacketLen[o.pkt]
           ack == qry.ack
<1>1. /\ GoodOut(o) /\ LineIs(h, read, o) /\ OutIs(h, c, o) /\ ClientDown(h, o, c)
      /\ o \in OutRecord /\ f \in Nat
  BY DEF OutDown, GoodOut, OutRecord
<1>2. /\ Sending(o) /\ o.seqno = ack.seqno /\ f = ack.fragment
  BY DEF IsAckOf, IsAwaitedAck
<1>3. /\ t > 0 /\ o.pkt = h.line[t] /\ o.offset = DownBytes(f) /\ o.seqno = t
      /\ o.sentlen \in {0, Smaller(FragSize, len - o.offset)}
      /\ o.offset < len
  BY <1>1, <1>2 DEF OutIs, GoodOut, WithinPacket
<1>4. o.pkt \in Packet /\ len \in Nat /\ o.offset \in Nat
  BY <1>1, <1>2, PacketAssumption DEF OutRecord, Sending
<1>5. /\ c.num \in Nat /\ qry.num \in Nat /\ h.at \in Nat
      /\ c.inp.seqno \in Seqnos /\ c.inp.fragment \in FragNos
  <2>1. h.at \in Nat
    BY <1>1 DEF LineIs, DownHistory
  <2>2. qry.num \in Nat
    BY DEF NewQuery, QueryRecord, Nums
  <2>3. c \in ClientRecord
    BY DEF GoodClient
  <2>4. c.num \in Nat
    BY <2>3 DEF ClientRecord
  <2>5. c.inp.seqno \in Seqnos /\ c.inp.fragment \in FragNos
    BY <2>3 DEF ClientRecord
  <2> QED
    BY <2>1, <2>2, <2>4, <2>5
<1> DEFINE s == c.inp.seqno
           e == c.inp.fragment
<1>6. s \in Nat /\ e \in Nat
  <2> HIDE DEF s, e
  <2> QED
    BY <1>5 DEF s, e
<1>7. /\ s <= t
      /\ \/ ack.seqno < s
         \/ ack.seqno = s /\ ack.fragment <= e
      /\ qry.num <= c.num /\ ack.fragment < qry.num
  BY <1>1 DEF ClientDown, DownQuery
<1> HIDE DEF s, e, f, t, n, len, ack
<1>8. s = t /\ f <= e /\ f + 1 <= c.num
  <2>1. t \in Nat
    BY <1>5 DEF t
  <2> QED
    BY <1>1, <1>2, <1>3, <1>5, <1>6, <1>7, <2>1
<1>9. ClientHas(h, c.inp, c.written) /\ WasSent(h, o, s, e)
  <2>1. ~ IsOver(h, o, s)
    BY <1>2, <1>5, <1>8 DEF IsOver, t
  <2> QED
    BY <1>1, <2>1 DEF ClientDown, s, e
<1>10. e = f /\ o.sentlen # 0
  <2>1. ~ (s < h.at)
    BY <1>5, <1>8 DEF t
  <2>2. e < o.fragment \/ (e = o.fragment /\ o.sentlen # 0)
    BY <1>2, <1>9, <2>1 DEF WasSent
  <2> QED
    BY <1>1, <1>6, <1>8, <2>2 DEF f
<1>11. o.sentlen = Smaller(FragSize, len - o.offset)
  BY <1>3, <1>10
<1>12. n = o.offset + FragSize /\ FragSize \in Nat \ {0}
  BY <1>1, <1>3, DownBytesType DEF n
<1>13. \/ o.offset + o.sentlen >= len /\ n >= len
       \/ o.offset + o.sentlen < len /\ o.offset + o.sentlen = n /\ n < len
  BY <1>3, <1>4, <1>11, <1>12 DEF Smaller
<1>14. n \in Nat /\ n # 0
  BY <1>4, <1>12
<1>15. \/ c.inp.buf = CellsOf(o.pkt, 0, n) /\ n < len
       \/ n >= len /\ c.written # << >> /\ c.written[Len(c.written)] = o.pkt
  BY <1>3, <1>8, <1>9, <1>10 DEF ClientHas, s, e, n, len, t
<1>16. c.inp.buf = CellsOf(o.pkt, 0, n) => c.inp.buf # << >>
  BY <1>14, CellsNone
<1>17. \/ /\ o.offset + o.sentlen >= len
          /\ c.written # << >> /\ c.written[Len(c.written)] = o.pkt
       \/ /\ o.offset + o.sentlen < len
          /\ o.offset + o.sentlen = n
          /\ c.inp.buf # << >>
  <2>1. ~ (n >= len /\ n < len)
    BY <1>4, <1>14 DEF len
  <2> QED
    BY <1>13, <1>15, <1>16, <2>1
<1> QED
  BY <1>2, <1>3, <1>4, <1>8, <1>10, <1>17 DEF HasThis, s, e, f, t, n, len

LEMMA AckFields ==
  ASSUME NEW o \in OutRecord, NEW seq, NEW frag, IsAwaitedAck(o, seq, frag),
         ~ o.offset + o.sentlen >= PacketLen[o.pkt]
  PROVE  LET n == process_downstream_ack(o, seq, frag)
         IN  /\ n.pkt = o.pkt /\ n.offset = o.offset + o.sentlen /\ n.sentlen = 0
             /\ n.fragment = o.fragment + 1 /\ n.seqno = o.seqno
             /\ n.ring = o.ring /\ n.use = o.use /\ n.filled = o.filled
BY DEF process_downstream_ack, OutRecord

\* process_downstream_ack: on to the next fragment, or to the next packet
LEMMA AckDown ==
  ASSUME NEW h, NEW c, GoodClient(c), NEW read, GoodRead(read),
         NEW o, OutDown(h, c, read, o), NEW qry, NewQuery(qry), DownQuery(c, qry)
  PROVE  LET seq == qry.ack.seqno
             frag == qry.ack.fragment
             n == process_downstream_ack(o, seq, frag)
         IN  /\ \E g : OutDown(g, c, read, n) /\ Further(h, o, g, n)
             /\ IsAwaitedAck(o, seq, frag) /\ o.offset + o.sentlen >= PacketLen[o.pkt]
                  => c.written # << >> /\ c.written[Len(c.written)] = o.pkt
<1> DEFINE seq == qry.ack.seqno
           frag == qry.ack.fragment
           n == process_downstream_ack(o, seq, frag)
           Goal(g) == OutDown(g, c, read, n) /\ Further(h, o, g, n)
<1>1. /\ GoodOut(o) /\ LineIs(h, read, o) /\ OutIs(h, c, o) /\ ClientDown(h, o, c)
      /\ o \in OutRecord
  BY DEF OutDown, GoodOut
<1>2. h \in DownHistory /\ h.at \in Nat
  BY <1>1, FewPackets
<1>3. frag \in FragNos
  BY DEF NewQuery, QueryRecord, Headers
<1>4. GoodOut(n)
  BY <1>1, <1>3, AckOut
<1> HIDE DEF seq, frag
<1>5. CASE ~ IsAwaitedAck(o, seq, frag)
  <2>1. n = o
    BY <1>5 DEF process_downstream_ack
  <2> HIDE DEF n
  <2>2. Goal(h)
    BY <1>2, <2>1, FurtherSame
  <2> QED
    BY <1>5, <2>2 DEF n, seq, frag
<1>6. CASE IsAwaitedAck(o, seq, frag) /\ o.offset + o.sentlen >= PacketLen[o.pkt]
  <2>1. n = get_from_outpacketq(ForgetPacket(o))
    BY <1>6 DEF process_downstream_ack
  <2> HIDE DEF n
  <2>2. \E g : Goal(g)
    BY <2>1, NextDown
  <2>3. c.written # << >> /\ c.written[Len(c.written)] = o.pkt
    <3>1. PacketLen[o.pkt] \in Nat /\ o.offset + o.sentlen \in Nat
      BY <1>1, <1>6, PacketAssumption DEF OutRecord, IsAwaitedAck, Sending
    <3>2. IsAckOf(qry, o)
      BY <1>6 DEF IsAckOf, seq, frag
    <3>3. HasThis(h, c, o)
      BY <3>2, AckIsOfThis
    <3> QED
      BY <1>6, <3>1, <3>3 DEF HasThis
  <2> QED
    BY <2>2, <2>3 DEF n, seq, frag
<1>7. CASE IsAwaitedAck(o, seq, frag) /\ ~ o.offset + o.sentlen >= PacketLen[o.pkt]
  <2> DEFINE f == o.fragment
             k == f + 1
             m == o.offset + o.sentlen
  <2>1. /\ n.pkt = o.pkt /\ n.offset = m /\ n.sentlen = 0
        /\ n.fragment = k /\ n.seqno = o.seqno
        /\ n.ring = o.ring /\ n.use = o.use /\ n.filled = o.filled
    BY <1>1, <1>7, AckFields
  <2>2. /\ Sending(o) /\ h.at > 0 /\ o.pkt = h.line[h.at] /\ o.pkt \in Packet
        /\ k <= c.num /\ c.inp.seqno = h.at /\ c.inp.fragment = f
        /\ m = DownBytes(k) /\ c.inp.buf # << >>
    <3>1. IsAckOf(qry, o)
      BY <1>7 DEF IsAckOf, seq, frag
    <3>2. HasThis(h, c, o)
      BY <3>1, AckIsOfThis
    <3>3. o.pkt \in Packet /\ Sending(o)
      BY <1>1, <1>7 DEF OutRecord, IsAwaitedAck, Sending
    <3>4. PacketLen[o.pkt] \in Nat
      BY <3>3, PacketAssumption
    <3> QED
      BY <1>7, <3>2, <3>3, <3>4 DEF HasThis
  <2> HIDE DEF n, m
  <2>3. f \in Nat /\ k \in Nat /\ k - 1 = f /\ f < k /\ f # k
    BY <1>1 DEF OutRecord
  <2> HIDE DEF f, k
  <2>4. Had(c.inp, h.at, f)
    BY <2>2, <2>3 DEF Had
  <2>5. PacketLen[o.pkt] # 0
    BY <2>2, PacketAssumption
  <2>6. OutIs(h, c, n)
    BY <1>1, <2>1, <2>2, <2>3, <2>4, <2>5 DEF OutIs
  <2>7. LineIs(h, read, n)
    BY <1>1, <2>1 DEF LineIs
  <2>8. Further(h, o, h, n)
    BY <1>2, <2>1, <2>2, <2>3 DEF Further, f
  <2>9. ClientDown(h, n, c)
    BY <1>1, <1>2, <1>4, <2>8, ClientFurther
  <2>10. Goal(h)
    BY <1>4, <2>6, <2>7, <2>8, <2>9 DEF OutDown
  <2> QED
    BY <1>7, <2>10 DEF n, seq, frag
<1> QED
  BY <1>5, <1>6, <1>7

-----------------------------------------------------------------------------
(***************************************************************************)
(* The handlers of iodined keep it, whatever answers are on their way.     *)
(***************************************************************************)
Served(c, read, u, S) == \E h : DownState(h, c, read, u, S)

\* A client that has not sent more than a run allows, and what iodined has read
Peer(c, read) == GoodClient(c) /\ c.num <= MaxQueries /\ GoodRead(read)

LEMMA ServedIf ==
  ASSUME NEW c, NEW read, NEW u, NEW S, NEW h, DownState(h, c, read, u, S),
         NEW v, GoodUser(v), NEW more,
         NEW g, OutDown(g, c, more, v.out), Further(h, u.out, g, v.out),
         \A k \in DOMAIN v.cache :
           \/ \E i \in DOMAIN u.cache : v.cache[k] = u.cache[i]
           \/ DownBody(g, v.out, c, v.cache[k].body),
         \A a \in v.tx : a \in u.tx \/ DownBody(g, v.out, c, a.body),
         \A p \in v.acked : p \in u.acked \/ \E i \in DOMAIN c.written : c.written[i] = p
  PROVE  Served(c, more, v, S)
<1>1. /\ GoodUser(u) /\ OutDown(h, c, read, u.out)
      /\ \A i \in DOMAIN u.cache : DownBody(h, u.out, c, u.cache[i].body)
      /\ \A a \in u.tx : DownBody(h, u.out, c, a.body)
      /\ \A a \in S : DownBody(h, u.out, c, a.body)
      /\ S \subseteq AnswerRecord
      /\ Delivered(u.acked, c.written)
  BY DEF DownState
<1>2. GoodOut(u.out) /\ GoodOut(v.out) /\ h \in DownHistory
  BY <1>1 DEF GoodUser, OutDown, LineIs
<1>3. \A b \in BodyRecord : DownBody(h, u.out, c, b) => DownBody(g, v.out, c, b)
  BY <1>2, BodyFurther
<1>4. /\ \A i \in DOMAIN u.cache : u.cache[i].body \in BodyRecord
      /\ \A a \in u.tx : a.body \in BodyRecord
      /\ \A a \in S : a.body \in BodyRecord
  <2>1. u.cache \in Seq(CacheRecord) /\ u.tx \subseteq AnswerRecord
    BY <1>1 DEF GoodUser, UserRecord
  <2>2. \A i \in DOMAIN u.cache : u.cache[i] \in CacheRecord
    BY <2>1
  <2> QED
    BY <1>1, <2>1, <2>2 DEF CacheRecord, AnswerRecord
<1>5. \A k \in DOMAIN v.cache : DownBody(g, v.out, c, v.cache[k].body)
  BY <1>1, <1>3, <1>4
<1>6. \A a \in v.tx : DownBody(g, v.out, c, a.body)
  BY <1>1, <1>3, <1>4
<1>7. \A a \in S : DownBody(g, v.out, c, a.body)
  BY <1>1, <1>3, <1>4
<1>8. Delivered(v.acked, c.written)
  BY <1>1 DEF Delivered
<1> QED
  BY <1>1, <1>5, <1>6, <1>7, <1>8 DEF DownState, Served

\* outpacket and what was acknowledged stay.
LEMMA ServedSame ==
  ASSUME NEW c, NEW read, NEW u, NEW S, Served(c, read, u, S),
         NEW v, GoodUser(v), v.out = u.out, v.acked = u.acked, v.cache = u.cache,
         v.tx = u.tx
  PROVE  Served(c, read, v, S)
BY DEF Served, DownState

LEMMA SendServed ==
  ASSUME NEW c, NEW read, Peer(c, read), NEW u, NEW S, Served(c, read, u, S),
         NEW f \in {"q", "soonq"}, Held(u[f])
  PROVE  Served(c, read, SendOn(u, f), S)
<1> DEFINE s == send_next_chunk(u.out, FragSize)
           chunk == s.chunk
           body == AnswerBody(u, chunk)
           v == SendOn(u, f)
<1>1. PICK h : DownState(h, c, read, u, S)
  BY DEF Served
<1>2. GoodUser(u) /\ OutDown(h, c, read, u.out)
  BY <1>1 DEF DownState
<1>3. Sent(u, f, v)
  BY <1>2, SendUser
<1>4. /\ \A a \in v.tx : a \in u.tx \/ (a.num = u[f].num /\ a.body = body)
      /\ \A k \in DOMAIN v.cache :
           \/ \E i \in DOMAIN u.cache : v.cache[k] = u.cache[i]
           \/ v.cache[k].num = u[f].num /\ v.cache[k].body = body
  BY <1>2, SendBodies
<1>5. PICK g : /\ OutDown(g, c, read, s.out) /\ Further(h, u.out, g, s.out)
               /\ \A b : Tells(b, chunk) => DownBody(g, s.out, c, b)
  BY <1>2, SendOutDown DEF Peer
<1>6. v.out = s.out /\ v.acked = u.acked /\ GoodUser(v)
  BY <1>3 DEF Sent
<1> HIDE DEF v, s
<1>7. Tells(body, chunk)
  <2> DEFINE data == CellsOf(chunk.pkt, chunk.from, chunk.len)
             b == Body(Header(u.inp), Header(chunk), chunk.last, data)
  <2>1. b.down = Header(chunk) /\ b.last = chunk.last /\ b.data = data
    <3> DEFINE hd == Header(chunk)
    <3> HIDE DEF data, hd, chunk
    <3> QED
      BY DEF Body
  <2>2. body = b
    BY DEF AnswerBody
  <2> QED
    BY <2>1, <2>2 DEF Tells
<1> HIDE DEF body, chunk
<1>8. DownBody(g, v.out, c, body)
  BY <1>5, <1>6, <1>7
<1>9. \A a \in v.tx : a \in u.tx \/ DownBody(g, v.out, c, a.body)
  BY <1>4, <1>8
<1>10. \A k \in DOMAIN v.cache :
         \/ \E i \in DOMAIN u.cache : v.cache[k] = u.cache[i]
         \/ DownBody(g, v.out, c, v.cache[k].body)
  BY <1>4, <1>8
<1>11. Served(c, read, v, S)
  BY <1>1, <1>5, <1>6, <1>9, <1>10, ServedIf
<1> QED
  BY <1>11 DEF v

LEMMA AckServed ==
  ASSUME NEW c, NEW read, Peer(c, read), NEW u, NEW S, Served(c, read, u, S),
         NEW qry, NewQuery(qry), DownQuery(c, qry)
  PROVE  Served(c, read, Acknowledge(u, qry.ack), S)
<1> DEFINE o == u.out
           n == process_downstream_ack(o, qry.ack.seqno, qry.ack.fragment)
           completes == /\ IsAwaitedAck(o, qry.ack.seqno, qry.ack.fragment)
                        /\ o.offset + o.sentlen >= PacketLen[o.pkt]
           v == Acknowledge(u, qry.ack)
<1>1. PICK h : DownState(h, c, read, u, S)
  BY DEF Served
<1>2. GoodUser(u) /\ OutDown(h, c, read, o)
  BY <1>1 DEF DownState
<1>3. /\ \E g : OutDown(g, c, read, n) /\ Further(h, o, g, n)
      /\ completes => c.written # << >> /\ c.written[Len(c.written)] = o.pkt
  BY <1>2, AckDown DEF Peer
<1>4. PICK g : OutDown(g, c, read, n) /\ Further(h, o, g, n)
  BY <1>3
<1>5. qry.ack \in Headers /\ c.written \in Seq(Packet)
  BY DEF NewQuery, QueryRecord, Peer, GoodClient, ClientRecord
<1>6. GoodUser(v) /\ v.cache = u.cache /\ v.tx = u.tx
  BY <1>2, <1>5, AckCarries DEF Carries, SameQueries
<1>7. v.out = n /\ v.acked = IF completes THEN u.acked \cup {o.pkt} ELSE u.acked
  BY <1>2 DEF Acknowledge, GoodUser, UserRecord
<1> HIDE DEF v, n, completes
<1>8. c.written # << >> => Len(c.written) \in DOMAIN c.written
  BY <1>5
<1>9. \A p \in v.acked : p \in u.acked \/ \E i \in DOMAIN c.written : c.written[i] = p
  BY <1>3, <1>7, <1>8
<1>10. Served(c, read, v, S)
  BY <1>1, <1>4, <1>6, <1>7, <1>9, ServedIf
<1> QED
  BY <1>10 DEF v

LEMMA StoreServed ==
  ASSUME NEW c, NEW read, NEW u, NEW S, Served(c, read, u, S), NEW qry, NewQuery(qry)
  PROVE  LET v == [u EXCEPT !.q = qry]
         IN  Served(c, read, v, S) /\ v.q = qry /\ Held(v["q"])
<1> DEFINE v == [u EXCEPT !.q = qry]
<1>1. GoodUser(u)
  BY DEF Served, DownState
<1>2. /\ v \in UserRecord /\ v.q = qry /\ v.soonq = u.soonq /\ v.out = u.out
      /\ v.tx = u.tx /\ v.cache = u.cache /\ v.acked = u.acked /\ v["q"] = v.q
  BY <1>1 DEF GoodUser, UserRecord, NewQuery
<1> HIDE DEF v
<1>3. Held(qry)
  BY DEF NewQuery, Held, Ids, NoId
<1>4. GoodUser(v)
  BY <1>1, <1>2, <1>3 DEF GoodUser, HeldOrNone, NewQuery
<1>5. Served(c, read, v, S)
  BY <1>2, <1>4, ServedSame
<1> QED
  BY <1>2, <1>3, <1>5 DEF v

LEMMA PostponeServed ==
  ASSUME NEW c, NEW read, NEW u, NEW S, Served(c, read, u, S)
  PROVE  Served(c, read, Postpone(u), S)
<1> DEFINE v == Postpone(u)
<1>1. GoodUser(u)
  BY DEF Served, DownState
<1>2. /\ v \in UserRecord /\ v.q = NoQuery /\ v.soonq = u.q /\ v.out = u.out
      /\ v.tx = u.tx /\ v.cache = u.cache /\ v.acked = u.acked
  BY <1>1, NoQueryType DEF Postpone, GoodUser, UserRecord
<1> HIDE DEF v
<1>3. GoodUser(v)
  BY <1>1, <1>2, NoQueryType DEF GoodUser, HeldOrNone
<1>4. Served(c, read, v, S)
  BY <1>2, <1>3, ServedSame
<1> QED
  BY <1>4 DEF v

LEMMA LoopHeadServed ==
  ASSUME NEW c, NEW read, NEW u, NEW S, Served(c, read, u, S)
  PROVE  Served(c, read, LoopHead(u), S)
<1> DEFINE v == LoopHead(u)
<1>1. GoodUser(u)
  BY DEF Served, DownState
<1>2. GoodUser(v)
  BY <1>1, LoopHeadCarries DEF Carries
<1>3. v.out = u.out /\ v.tx = u.tx /\ v.cache = u.cache /\ v.acked = u.acked
  BY <1>1 DEF LoopHead, GoodUser, UserRecord
<1> HIDE DEF v
<1>4. Served(c, read, v, S)
  BY <1>2, <1>3, ServedSame
<1> QED
  BY <1>4 DEF v

LEMMA SendIfHeldServed ==
  ASSUME NEW c, NEW read, Peer(c, read), NEW u, NEW S, Served(c, read, u, S)
  PROVE  /\ Served(c, read, SendIfHeld(u, "soonq"), S)
         /\ Held(u.soonq) => Served(c, read, SendOn(u, "soonq"), S)
         /\ Held(u.q) => Served(c, read, SendOn(u, "q"), S)
         /\ Served(c, read, LoopEnd(u), S)
<1>1. u["q"] = u.q /\ u["soonq"] = u.soonq /\ "q" \in {"q", "soonq"} /\ "soonq" \in {"q", "soonq"}
  OBVIOUS
<1>2. Held(u.q) => Served(c, read, SendOn(u, "q"), S)
  BY <1>1, SendServed
<1>3. Held(u.soonq) => Served(c, read, SendOn(u, "soonq"), S)
  BY <1>1, SendServed
<1>4. Served(c, read, SendIfHeld(u, "soonq"), S)
  BY <1>1, <1>3 DEF SendIfHeld
<1>5. Served(c, read, LoopEnd(u), S)
  BY <1>3 DEF LoopEnd
<1> QED
  BY <1>2, <1>3, <1>4, <1>5

\* A packet from tun
LEMMA TunServed ==
  ASSUME NEW c, NEW read, Peer(c, read), NEW u, NEW S, Served(c, read, u, S),
         NEW p \in Packet, GoodRead(Append(read, p))
  PROVE  Served(c, Append(read, p), iodined_tunnel_tun(u, p), S)
<1> DEFINE o == AcceptPacket(u.out, p)
           started == [u EXCEPT !.out = o]
           v == iodined_tunnel_tun(u, p)
           more == Append(read, p)
<1>1. PICK h : DownState(h, c, read, u, S)
  BY DEF Served
<1>2. GoodUser(u) /\ OutDown(h, c, read, u.out)
  BY <1>1 DEF DownState
<1>3. /\ GoodUser(started) /\ started.q = u.q /\ started.soonq = u.soonq
      /\ started.tx = u.tx /\ started.cache = u.cache /\ started.out = o
  BY <1>2, AcceptCarries DEF Carries, SameQueries
<1>4. started.acked = u.acked
  BY <1>2 DEF GoodUser, UserRecord
<1>5. PICK g : OutDown(g, c, more, o) /\ Further(h, u.out, g, o)
  BY <1>2, AcceptDown DEF Peer
<1>6. v = IF Sending(u.out) \/ ~ (Held(u.q) \/ Held(u.soonq)) THEN started
          ELSE SendOn(started, IF Held(u.soonq) THEN "soonq" ELSE "q")
  BY DEF iodined_tunnel_tun
<1>7. Peer(c, more)
  BY DEF Peer
<1> HIDE DEF started, v, o, more
<1>8. Served(c, more, started, S)
  BY <1>1, <1>3, <1>4, <1>5, ServedIf
<1>9. /\ Held(u.soonq) => Served(c, more, SendOn(started, "soonq"), S)
      /\ Held(u.q) => Served(c, more, SendOn(started, "q"), S)
  BY <1>3, <1>7, <1>8, SendIfHeldServed
<1>10. Served(c, more, v, S)
  BY <1>6, <1>8, <1>9
<1> QED
  BY <1>10 DEF v, more

\* A query seen before is answered as it was, or not yet.
LEMMA DuplicateServed ==
  ASSUME NEW c, NEW read, NEW u, NEW S, Served(c, read, u, S),
         NEW qry, NewQuery(qry), SeenBefore(u, qry)
  PROVE  Served(c, read, HandleDuplicate(u, qry), S)
<1> DEFINE v == HandleDuplicate(u, qry)
<1>1. PICK h : DownState(h, c, read, u, S)
  BY DEF Served
<1>2. /\ GoodUser(u) /\ OutDown(h, c, read, u.out) /\ h \in DownHistory
      /\ \A i \in DOMAIN u.cache : DownBody(h, u.out, c, u.cache[i].body)
  BY <1>1 DEF DownState, OutDown, LineIs
<1>3. GoodUser(v) /\ v.out = u.out
  BY <1>2, DuplicateHandled
<1>4. Further(h, u.out, h, u.out)
  BY <1>2, FurtherSame
<1>5. ASSUME NEW body, DownBody(h, u.out, c, body),
             v = [u EXCEPT !.tx = u.tx \cup {Answer(qry.num, qry.id, body)}]
      PROVE  Served(c, read, v, S)
  <2> DEFINE ans == Answer(qry.num, qry.id, body)
             tx == u.tx \cup {ans}
  <2>1. ans.body = body
    BY DEF Answer
  <2>2. v = [u EXCEPT !.tx = tx]
    BY <1>5
  <2> HIDE DEF ans, v
  <2>3. \A a \in tx : a \in u.tx \/ DownBody(h, u.out, c, a.body)
    BY <1>5, <2>1
  <2> HIDE DEF tx
  <2>4. v.tx = tx /\ v.cache = u.cache /\ v.acked = u.acked
    BY <1>2, <2>2 DEF GoodUser, UserRecord
  <2> QED
    BY <1>1, <1>2, <1>3, <1>4, <2>3, <2>4, ServedIf
<1>6. CASE InCache(u, qry.num)
  <2>1. v = answer_from_dnscache(u, qry)
    BY <1>6 DEF HandleDuplicate
  <2>2. PICK body \in BodyRecord :
          /\ \E i \in DOMAIN u.cache : u.cache[i].num = qry.num /\ u.cache[i].body = body
          /\ v = [u EXCEPT !.tx = u.tx \cup {Answer(qry.num, qry.id, body)}]
    BY <1>2, <1>6, <2>1, CacheAnswers
  <2>3. DownBody(h, u.out, c, body)
    BY <1>2, <2>2
  <2> HIDE DEF v
  <2> QED
    BY <1>5, <2>2, <2>3 DEF v
<1>7. CASE ~ InCache(u, qry.num) /\ InQmem(u, qry)
  <2>1. v = [u EXCEPT !.tx = u.tx \cup {Answer(qry.num, qry.id, QmemBody)}]
    BY <1>7 DEF HandleDuplicate, answer_from_qmem
  <2>2. DownBody(h, u.out, c, QmemBody)
    BY DEF DownBody, QmemBody
  <2> HIDE DEF v
  <2> QED
    BY <1>5, <2>1, <2>2 DEF v
<1>8. CASE ~ InCache(u, qry.num) /\ ~ InQmem(u, qry)
  <2>1. \/ v = [u EXCEPT !.q.id2 = qry.id]
        \/ v = [u EXCEPT !.soonq.id2 = qry.id]
    BY <1>8 DEF HandleDuplicate
  <2> HIDE DEF v
  <2>2. v.tx = u.tx /\ v.cache = u.cache /\ v.acked = u.acked
    BY <1>2, <2>1 DEF GoodUser, UserRecord
  <2>3. Served(c, read, v, S)
    BY <1>3, <2>2, ServedSame
  <2> QED
    BY <2>3 DEF v
<1> QED
  BY <1>6, <1>7, <1>8

LEMMA ReceiveServed ==
  ASSUME NEW c, NEW read, NEW u, NEW S, Served(c, read, u, S), NEW qry, NewQuery(qry)
  PROVE  Served(c, read, ReceiveUpstream(u, qry), S)
<1> DEFINE v == ReceiveUpstream(u, qry)
<1>1. GoodUser(u) /\ qry \in QueryRecord
  BY DEF Served, DownState, NewQuery
<1>2. GoodUser(v) /\ SameQueries(u, v) /\ v.out = u.out
  BY <1>1, ReceiveCarries DEF Carries
<1>3. v.acked = u.acked
  BY <1>1 DEF ReceiveUpstream, handle_full_packet, GoodUser, UserRecord
<1> HIDE DEF v
<1>4. Served(c, read, v, S)
  BY <1>2, <1>3, ServedSame DEF SameQueries
<1> QED
  BY <1>4 DEF v

LEMMA PingServed ==
  ASSUME NEW c, NEW read, Peer(c, read), NEW u, NEW S, Served(c, read, u, S),
         NEW qry, NewQuery(qry), DownQuery(c, qry)
  PROVE  Served(c, read, HandlePing(u, qry), S)
<1> DEFINE k == Acknowledge(u, qry.ack)
           a == SendIfHeld(k, "soonq")
           s == send_chunk_or_dataless(a, "q")
           r == IF Held(a.q) THEN s.user ELSE a
           b == [r EXCEPT !.q = qry]
           v == HandlePing(u, qry)
<1>1. v = b \/ v = SendOn(b, "q")
  BY DEF HandlePing
<1>2. Served(c, read, k, S)
  BY AckServed
<1> HIDE DEF k, v
<1>3. Served(c, read, a, S)
  BY <1>2, SendIfHeldServed
<1> HIDE DEF a
<1>4. Served(c, read, r, S)
  <2>1. Held(a.q) => r = SendOn(a, "q")
    BY DEF SendOn
  <2>2. ~ Held(a.q) => r = a
    OBVIOUS
  <2> HIDE DEF r
  <2> QED
    BY <1>3, <2>1, <2>2, SendIfHeldServed
<1> HIDE DEF r
<1>5. Served(c, read, b, S) /\ b.q = qry /\ Held(b["q"])
  BY <1>4, StoreServed
<1> HIDE DEF b
<1>6. Served(c, read, SendOn(b, "q"), S)
  <2>1. "q" \in {"q", "soonq"}
    OBVIOUS
  <2> QED
    BY <1>5, <2>1, SendServed
<1> QED
  BY <1>1, <1>5, <1>6 DEF v

LEMMA DataServed ==
  ASSUME NEW c, NEW read, Peer(c, read), NEW u, NEW S, Served(c, read, u, S),
         NEW qry, NewQuery(qry), DownQuery(c, qry)
  PROVE  Served(c, read, HandleData(u, qry), S)
<1> DEFINE ok == upstream_ok(u, qry.up)
           x == ReceiveUpstream(Acknowledge(u, qry.ack), qry)
           soon == AnswerPutOff(x)
           a == soon[1]
           roomy == MakeRoom(a, soon[2], ok, qry.last)
           r == roomy[1]
           b == [r EXCEPT !.q = qry]
           v == AnswerOrKeep(b, roomy[2], ok, qry.last)
<1>1. HandleData(u, qry) = v
  BY DEF HandleData
<1>2. Served(c, read, x, S)
  BY AckServed, ReceiveServed
<1> HIDE DEF x, ok
<1>3. Served(c, read, a, S)
  <2>1. IF Held(x.soonq) THEN a = SendOn(x, "soonq") ELSE a = x
    BY DEF AnswerPutOff, SendNow, SendOn
  <2> HIDE DEF a
  <2> QED
    BY <1>2, <2>1, SendIfHeldServed
<1>4. r = a \/ (Held(a.q) /\ r = SendOn(a, "q")) \/ r = Postpone(a)
  <2> DEFINE early == soon[2]
  <2> HIDE DEF a, early
  <2> QED
    BY DEF MakeRoom, SendNow, SendOn
<1> HIDE DEF a, r
<1>5. Served(c, read, r, S)
  BY <1>3, <1>4, SendIfHeldServed, PostponeServed
<1>6. Served(c, read, b, S) /\ Held(b["q"])
  BY <1>5, StoreServed
<1>7. v = SendOn(b, "q") \/ v = b \/ v = Postpone(b)
  <2> DEFINE didsend == roomy[2]
  <2> HIDE DEF b, didsend
  <2> QED
    BY DEF AnswerOrKeep
<1> HIDE DEF b, v
<1>8. Served(c, read, SendOn(b, "q"), S)
  <2>1. "q" \in {"q", "soonq"}
    OBVIOUS
  <2> QED
    BY <1>6, <2>1, SendServed
<1>9. Served(c, read, v, S)
  BY <1>6, <1>7, <1>8, PostponeServed
<1> QED
  BY <1>1, <1>9

LEMMA DnsServed ==
  ASSUME NEW c, NEW read, Peer(c, read), NEW u, NEW S, Served(c, read, u, S),
         NEW qry, NewQuery(qry), DownQuery(c, qry)
  PROVE  Served(c, read, iodined_tunnel_dns(u, qry), S)
BY DuplicateServed, PingServed, DataServed DEF iodined_tunnel_dns

-----------------------------------------------------------------------------
(***************************************************************************)
(* The client.  What it sends acknowledges its inpkt, whatever it does     *)
(* with its own packets.                                                   *)
(***************************************************************************)
Asks(c, d) ==
  /\ d.inp = c.inp /\ d.written = c.written
  /\ c.num \in Nat /\ d.num \in Nat /\ c.num <= d.num
  /\ \A qry \in d.tx :
       \/ qry \in c.tx
       \/ /\ qry.ack = Header(c.inp)
          /\ qry.num \in Nat /\ c.num < qry.num /\ qry.num <= d.num

SameDown(c, d) == d.inp = c.inp /\ d.written = c.written /\ d.num = c.num /\ d.tx = c.tx

LEMMA AsksSame ==
  ASSUME NEW c, GoodClient(c), NEW d, SameDown(c, d)
  PROVE  Asks(c, d)
BY DEF Asks, SameDown, GoodClient, ClientRecord

LEMMA AsksTwice ==
  ASSUME NEW c, NEW d, NEW e, Asks(c, d), Asks(d, e)
  PROVE  Asks(c, e)
<1>1. /\ c.num \in Nat /\ d.num \in Nat /\ e.num \in Nat /\ c.num <= d.num /\ d.num <= e.num
      /\ d.inp = c.inp
  BY DEF Asks
<1>2. ASSUME NEW qry \in e.tx
      PROVE  \/ qry \in c.tx
             \/ /\ qry.ack = Header(c.inp)
                /\ qry.num \in Nat /\ c.num < qry.num /\ qry.num <= e.num
  <2>1. \/ qry \in d.tx
        \/ /\ qry.ack = Header(c.inp)
           /\ qry.num \in Nat /\ d.num < qry.num /\ qry.num <= e.num
    BY <1>1 DEF Asks
  <2>2. CASE qry \in d.tx
    <3>1. \/ qry \in c.tx
          \/ /\ qry.ack = Header(c.inp)
             /\ qry.num \in Nat /\ c.num < qry.num /\ qry.num <= d.num
      BY <2>2 DEF Asks
    <3> QED
      BY <1>1, <3>1
  <2>3. CASE qry \notin d.tx
    BY <1>1, <2>1, <2>3
  <2> QED
    BY <2>2, <2>3
<1> QED
  BY <1>1, <1>2 DEF Asks

LEMMA SoonSame ==
  ASSUME NEW c, GoodClient(c), NEW soon
  PROVE  SameDown(c, [c EXCEPT !.soon = soon])
BY DEF GoodClient, ClientRecord, SameDown

LEMMA SendAsks ==
  ASSUME NEW c, GoodClient(c), NEW qry, qry.ack = Header(c.inp), qry.num = c.num + 1
  PROVE  Asks(c, send_query(c, qry))
<1> DEFINE d == send_query(c, qry)
           n == c.num + 1
<1>1. /\ d.inp = c.inp /\ d.written = c.written /\ d.num = n
      /\ d.tx = c.tx \cup {qry} /\ c.num \in Nat
  BY DEF send_query, GoodClient, ClientRecord
<1> HIDE DEF d
<1>2. n \in Nat /\ c.num < n /\ c.num <= n /\ n <= n
  BY <1>1
<1> HIDE DEF n
<1>3. \A x \in d.tx : x \in c.tx \/ (x.ack = Header(c.inp) /\ x.num = n)
  BY <1>1 DEF n
<1> QED
  BY <1>1, <1>2, <1>3 DEF Asks, d

LEMMA PingAsks ==
  ASSUME NEW c, GoodClient(c)
  PROVE  Asks(c, send_ping(c)) /\ Asks(c, NoPing(send_ping(c)))
<1> DEFINE ack == Header(c.inp)
           n == c.num + 1
           qry == Query(n, "ping", ack, NoHeader, FALSE, << >>)
           d == send_ping(c)
<1>1. qry.ack = ack /\ qry.num = n
  <2> HIDE DEF ack, n
  <2> QED
    BY DEF Query
<1>2. d = send_query(c, qry)
  BY DEF send_ping
<1> HIDE DEF qry, d
<1>3. Asks(c, d)
  BY <1>1, <1>2, SendAsks
<1>4. GoodClient(d)
  BY SendPingGood DEF d
<1>5. Asks(d, NoPing(d))
  BY <1>4, SoonSame, AsksSame DEF NoPing
<1>6. Asks(c, NoPing(d))
  BY <1>3, <1>5, AsksTwice
<1> QED
  BY <1>3, <1>6 DEF d

LEMMA ChunkAsks ==
  ASSUME NEW c, GoodClient(c), is_sending(c)
  PROVE  Asks(c, NoPing(send_chunk(c)))
<1> DEFINE avail == PacketLen[c.out.pkt] - c.out.offset
           len == Smaller(ChunkLen, avail)
           cut == [c EXCEPT !.out.sentlen = len]
           ack == Header(c.inp)
           up == Header(c.out)
           n == c.num + 1
           last == (len = avail)
           data == CellsOf(c.out.pkt, c.out.offset, len)
           qry == Query(n, "data", ack, up, last, data)
           d == send_chunk(c)
<1>1. qry.ack = ack /\ qry.num = n
  <2> HIDE DEF ack, n, up, last, data
  <2> QED
    BY DEF Query
<1>2. d = send_query(cut, qry)
  BY DEF send_chunk
<1>3. c \in ClientRecord
  BY DEF GoodClient
<1> HIDE DEF qry, len
<1>4. SameDown(c, cut) /\ DOMAIN cut = DOMAIN c
  BY <1>3 DEF SameDown, ClientRecord
<1>5. "num" \in DOMAIN cut /\ "tx" \in DOMAIN cut /\ "inp" \in DOMAIN cut /\ "written" \in DOMAIN cut
  BY <1>3, <1>4 DEF ClientRecord
<1> HIDE DEF cut
<1>6. /\ d.inp = c.inp /\ d.written = c.written /\ d.num = n
      /\ d.tx = c.tx \cup {qry} /\ c.num \in Nat
  BY <1>2, <1>3, <1>4, <1>5 DEF send_query, SameDown, ClientRecord
<1> HIDE DEF d
<1>7. n \in Nat /\ c.num < n /\ c.num <= n /\ n <= n
  BY <1>6
<1>8. \A x \in d.tx : x \in c.tx \/ (x.ack = ack /\ x.num = n)
  BY <1>1, <1>6
<1> HIDE DEF n
<1>9. Asks(c, d)
  BY <1>6, <1>7, <1>8 DEF Asks
<1>10. GoodClient(d)
  BY SendChunkGood DEF d
<1>11. Asks(d, NoPing(d))
  BY <1>10, SoonSame, AsksSame DEF NoPing
<1>12. Asks(c, NoPing(d))
  BY <1>9, <1>11, AsksTwice
<1> QED
  BY <1>12 DEF d

LEMMA ForgetAsks ==
  ASSUME NEW c, GoodClient(c), NEW done
  PROVE  SameDown(c, ForgetOutpkt(c)) /\ SameDown(c, [ForgetOutpkt(c) EXCEPT !.done = done])
BY DEF SameDown, ForgetOutpkt, GoodClient, ClientRecord

LEMMA TunAsks ==
  ASSUME NEW c, GoodClient(c), NEW p \in Packet
  PROVE  Asks(c, client_tunnel_tun(c, p))
<1> DEFINE out == [pkt |-> p, offset |-> 0, sentlen |-> 0,
                   seqno |-> NextSeqno(c.out.seqno), fragment |-> 0, resent |-> 0]
           started == [c EXCEPT !.out = out]
<1>1. NextSeqno(c.out.seqno) \in Seqnos
  BY DEF GoodClient, ClientRecord, NextSeqno
<1>2. /\ started \in ClientRecord /\ started.tx = c.tx /\ started.out = out
      /\ SameDown(c, started)
  BY <1>1 DEF GoodClient, ClientRecord, SameDown
<1>3. is_sending(started) /\ out.offset < PacketLen[out.pkt]
  BY <1>2, PacketAssumption DEF is_sending, Sending
<1> HIDE DEF started, out
<1>4. GoodClient(started)
  BY <1>2, <1>3 DEF GoodClient
<1>5. Asks(c, started) /\ Asks(started, NoPing(send_chunk(started)))
  BY <1>2, <1>3, <1>4, AsksSame, ChunkAsks
<1>6. client_tunnel_tun(c, p) = NoPing(send_chunk(started))
  BY DEF client_tunnel_tun, started, out
<1> QED
  BY <1>5, <1>6, AsksTwice

LEMMA TimeoutAsks ==
  ASSUME NEW c, GoodClient(c)
  PROVE  Asks(c, Timeout(c))
<1> DEFINE again == [c EXCEPT !.out.resent = c.out.resent + 1]
           forgot == ForgetOutpkt(c)
<1>1. c.out.resent + 1 \in Nat
  BY DEF GoodClient, ClientRecord
<1>2. /\ again \in ClientRecord /\ again.tx = c.tx /\ SameDown(c, again)
      /\ again.out.pkt = c.out.pkt /\ again.out.offset = c.out.offset
  BY <1>1 DEF GoodClient, ClientRecord, SameDown
<1> HIDE DEF again
<1>3. GoodClient(again) /\ (is_sending(again) <=> is_sending(c))
  BY <1>2 DEF GoodClient, is_sending, Sending
<1>4. is_sending(c) => Asks(c, NoPing(send_chunk(again)))
  BY <1>2, <1>3, AsksSame, ChunkAsks, AsksTwice
<1>5. Asks(c, NoPing(send_ping(c)))
  BY PingAsks
<1>6. Asks(c, NoPing(send_ping(forgot)))
  <2>1. GoodClient(forgot) /\ SameDown(c, forgot)
    <3>1. c.done \subseteq Packet
      BY DEF GoodClient, ClientRecord
    <3> QED
      BY <3>1, ForgetGood, ForgetAsks
  <2> HIDE DEF forgot
  <2> QED
    BY <2>1, PingAsks, AsksSame, AsksTwice
<1> QED
  BY <1>4, <1>5, <1>6 DEF Timeout, again

LEMMA FinishAsks ==
  ASSUME NEW c, GoodClient(c), NEW ack, NEW something
  PROVE  Asks(c, FinishAnswer(c, ack, something))
<1> DEFINE offset == c.out.offset + c.out.sentlen
           next == [c EXCEPT !.out.offset = offset,
                             !.out.fragment = c.out.fragment + 1,
                             !.out.resent = 0]
           over == [ForgetOutpkt(c) EXCEPT !.done = c.done \cup {c.out.pkt}]
           soon == PingSoon(over)
           d == FinishAnswer(c, ack, something)
           pl == PacketLen[c.out.pkt]
<1>1. Asks(c, c) /\ Asks(c, NoPing(send_ping(c)))
  BY PingAsks, AsksSame DEF SameDown
<1>2. ASSUME is_sending(c) PROVE Asks(c, soon) /\ Asks(c, NoPing(send_ping(soon)))
  <2>1. c.done \cup {c.out.pkt} \subseteq Packet
    BY <1>2 DEF is_sending, Sending, GoodClient, ClientRecord
  <2>2. GoodClient(over) /\ SameDown(c, over)
    BY <2>1, ForgetGood, ForgetAsks
  <2> HIDE DEF over
  <2>3. GoodClient(soon) /\ SameDown(over, soon)
    BY <2>2, SoonGood, SoonSame DEF PingSoon
  <2> HIDE DEF soon
  <2>4. Asks(c, over) /\ Asks(over, soon) /\ Asks(soon, NoPing(send_ping(soon)))
    BY <2>2, <2>3, AsksSame, PingAsks
  <2> QED
    BY <2>4, AsksTwice
<1>3. ASSUME is_sending(c), ~ (offset >= pl)
      PROVE  Asks(c, NoPing(send_chunk(next)))
  <2>1. /\ c.out.offset \in Nat /\ c.out.sentlen \in Nat /\ c.out.fragment \in Nat
        /\ c.out.pkt \in Packet
    BY <1>3 DEF GoodClient, ClientRecord, is_sending, Sending
  <2>2. pl \in Nat /\ offset \in Nat /\ c.out.fragment + 1 \in Nat
    BY <2>1, PacketAssumption
  <2> HIDE DEF pl, offset
  <2>3. offset < pl
    BY <1>3, <2>2
  <2>4. /\ next \in ClientRecord /\ next.tx = c.tx /\ SameDown(c, next)
        /\ next.out.pkt = c.out.pkt /\ next.out.offset = offset
    BY <2>2 DEF GoodClient, ClientRecord, SameDown
  <2> HIDE DEF next
  <2>5. GoodClient(next) /\ is_sending(next)
    BY <1>3, <2>3, <2>4 DEF GoodClient, is_sending, Sending, pl
  <2> QED
    BY <2>4, <2>5, AsksSame, ChunkAsks, AsksTwice
<1>4. \/ d \in {c, NoPing(send_ping(c))}
      \/ IsUpstreamAck(c, ack) /\ offset >= pl /\ d \in {soon, NoPing(send_ping(soon))}
      \/ IsUpstreamAck(c, ack) /\ ~ (offset >= pl) /\ d = NoPing(send_chunk(next))
  BY DEF FinishAnswer, PingSoon
<1>5. IsUpstreamAck(c, ack) => is_sending(c)
  BY DEF IsUpstreamAck
<1> HIDE DEF d, offset, next, soon, pl
<1>6. Asks(c, d)
  BY <1>1, <1>2, <1>3, <1>4, <1>5
<1> QED
  BY <1>6 DEF d

-----------------------------------------------------------------------------
(***************************************************************************)
(* inpkt only moves on; what was true of the fragments it has had stays.   *)
(***************************************************************************)
InpGrows(i, j) ==
  \/ i.seqno < j.seqno
  \/ /\ i.seqno = j.seqno /\ i.fragment <= j.fragment
     /\ i.buf # << >> => j.fragment > 0 \/ j.buf # << >>

Grows(c, d) == InpGrows(c.inp, d.inp) /\ c.num <= d.num

InpNumbers(i) == i.seqno \in Nat /\ i.fragment \in Nat

LEMMA NumbersOf ==
  ASSUME NEW c, GoodClient(c)
  PROVE  InpNumbers(c.inp) /\ c.num \in Nat /\ c.inp.fragment \in FragNos
<1> DEFINE s == c.inp.seqno
           e == c.inp.fragment
<1>1. s \in Seqnos /\ e \in FragNos /\ c.num \in Nat
  BY DEF GoodClient, ClientRecord
<1> HIDE DEF s, e
<1>2. s \in Nat /\ e \in Nat
  BY <1>1
<1> QED
  BY <1>1, <1>2 DEF InpNumbers, s, e

LEMMA HadStays ==
  ASSUME NEW i, InpNumbers(i), NEW j, InpNumbers(j), InpGrows(i, j),
         NEW t \in Nat, NEW f \in Nat, Had(i, t, f)
  PROVE  Had(j, t, f)
<1>1. CASE t < i.seqno
  BY <1>1 DEF InpGrows, InpNumbers, Had
<1>2. CASE t = i.seqno /\ f <= i.fragment /\ (i.fragment > 0 \/ i.buf # << >>)
  <2>1. CASE i.seqno < j.seqno
    BY <1>2, <2>1 DEF Had
  <2>2. CASE /\ i.seqno = j.seqno /\ i.fragment <= j.fragment
             /\ i.buf # << >> => j.fragment > 0 \/ j.buf # << >>
    <3>1. f <= j.fragment /\ t = j.seqno
      BY <1>2, <2>2 DEF InpNumbers
    <3>2. j.fragment > 0 \/ j.buf # << >>
      BY <1>2, <2>2 DEF InpNumbers
    <3> QED
      BY <3>1, <3>2 DEF Had
  <2> QED
    BY <2>1, <2>2 DEF InpGrows
<1> QED
  BY <1>1, <1>2 DEF Had

LEMMA QueryStays ==
  ASSUME NEW c, GoodClient(c), NEW d, GoodClient(d), Grows(c, d),
         NEW qry, NewQuery(qry), DownQuery(c, qry)
  PROVE  DownQuery(d, qry)
<1> DEFINE s == qry.ack.seqno
           e == qry.ack.fragment
<1>1. s \in Seqnos /\ e \in FragNos /\ qry.num \in Nat
  BY DEF NewQuery, QueryRecord, Headers
<1>2. /\ qry.num <= c.num /\ e < qry.num
      /\ s < c.inp.seqno \/ (s = c.inp.seqno /\ e <= c.inp.fragment)
  BY DEF DownQuery
<1> HIDE DEF s, e
<1>3. s \in Nat /\ e \in Nat
  BY <1>1
<1>4. InpNumbers(c.inp) /\ InpNumbers(d.inp) /\ c.num \in Nat /\ d.num \in Nat
  BY NumbersOf
<1>5. c.num <= d.num /\ InpGrows(c.inp, d.inp)
  BY DEF Grows
<1>6. qry.num <= d.num
  BY <1>1, <1>2, <1>4, <1>5
<1>7. s < d.inp.seqno \/ (s = d.inp.seqno /\ e <= d.inp.fragment)
  BY <1>2, <1>3, <1>4, <1>5 DEF InpGrows, InpNumbers
<1> QED
  BY <1>2, <1>6, <1>7 DEF DownQuery, s, e

LEMMA BodyStays ==
  ASSUME NEW c, GoodClient(c), NEW d, GoodClient(d), Grows(c, d),
         NEW h, NEW o, NEW b \in BodyRecord, DownBody(h, o, c, b)
  PROVE  DownBody(h, o, d, b)
<1> SUFFICES ASSUME b.legal PROVE DownBody(h, o, d, b)
  BY DEF DownBody
<1> DEFINE t == b.down.seqno
           f == b.down.fragment
<1>1. t \in Seqnos /\ f \in FragNos
  BY DEF BodyRecord, Headers
<1>2. /\ t <= h.at /\ f <= c.num
      /\ f > 0 => Had(c.inp, t, f - 1)
      /\ IF b.data = << >> THEN IsOver(h, o, t)
         ELSE DownData(h, b, t, f) /\ WasSent(h, o, t, f)
  BY DEF DownBody
<1> HIDE DEF t, f
<1>3. t \in Nat /\ f \in Nat /\ (f > 0 => f - 1 \in Nat)
  BY <1>1
<1>4. InpNumbers(c.inp) /\ InpNumbers(d.inp) /\ c.num \in Nat /\ d.num \in Nat
  BY NumbersOf
<1>5. c.num <= d.num /\ InpGrows(c.inp, d.inp)
  BY DEF Grows
<1>6. f <= d.num
  BY <1>2, <1>3, <1>4, <1>5
<1>7. f > 0 => Had(d.inp, t, f - 1)
  BY <1>2, <1>3, <1>4, <1>5, HadStays
<1> QED
  BY <1>2, <1>6, <1>7 DEF DownBody, t, f

LEMMA OutStays ==
  ASSUME NEW c, GoodClient(c), NEW d, GoodClient(d), Grows(c, d),
         NEW h, h.at \in Nat, NEW o, GoodOut(o), OutIs(h, c, o)
  PROVE  OutIs(h, d, o)
<1> DEFINE f == o.fragment
<1>1. f \in Nat
  BY DEF GoodOut, OutRecord
<1>2. f <= c.num /\ (f > 0 => Had(c.inp, h.at, f - 1))
  BY DEF OutIs
<1> HIDE DEF f
<1>3. f > 0 => f - 1 \in Nat
  BY <1>1
<1>4. InpNumbers(c.inp) /\ InpNumbers(d.inp) /\ c.num \in Nat /\ d.num \in Nat
  BY NumbersOf
<1>5. c.num <= d.num /\ InpGrows(c.inp, d.inp)
  BY DEF Grows
<1>6. f <= d.num
  BY <1>1, <1>2, <1>4, <1>5
<1>7. f > 0 => Had(d.inp, h.at, f - 1)
  BY <1>2, <1>3, <1>4, <1>5, HadStays
<1> QED
  BY <1>6, <1>7 DEF OutIs, f

LEMMA GrowsTwice ==
  ASSUME NEW c, GoodClient(c), NEW d, GoodClient(d), NEW e, GoodClient(e),
         Grows(c, d), Grows(d, e)
  PROVE  Grows(c, e)
<1>1. /\ InpNumbers(c.inp) /\ InpNumbers(d.inp) /\ InpNumbers(e.inp)
      /\ c.num \in Nat /\ d.num \in Nat /\ e.num \in Nat
  BY NumbersOf
<1>2. c.num <= e.num
  BY <1>1 DEF Grows
<1>3. InpGrows(c.inp, d.inp) /\ InpGrows(d.inp, e.inp)
  BY DEF Grows
<1>4. InpGrows(c.inp, e.inp)
  BY <1>1, <1>3 DEF InpGrows, InpNumbers
<1> QED
  BY <1>2, <1>4 DEF Grows

-----------------------------------------------------------------------------
(***************************************************************************)
(* The client between two operations of a step                             *)
(***************************************************************************)
ClientState(h, o, c) ==
  GoodClient(c) /\ ClientDown(h, o, c) /\ \A qry \in c.tx : DownQuery(c, qry)

\* A query of the client is one its inpkt is behind.
LEMMA AsksKeeps ==
  ASSUME NEW h, NEW o, NEW c, ClientState(h, o, c), NEW d, GoodClient(d), Asks(c, d)
  PROVE  ClientState(h, o, d) /\ Grows(c, d) /\ d.written = c.written
<1>1. /\ GoodClient(c) /\ ClientDown(h, o, c) /\ \A qry \in c.tx : DownQuery(c, qry)
  BY DEF ClientState
<1>2. /\ d.inp = c.inp /\ d.written = c.written /\ c.num \in Nat /\ d.num \in Nat
      /\ c.num <= d.num
  BY DEF Asks
<1>3. InpNumbers(c.inp) /\ c.inp.fragment \in FragNos
  BY <1>1, NumbersOf
<1>4. Grows(c, d)
  BY <1>2, <1>3 DEF Grows, InpGrows, InpNumbers
<1>5. ClientDown(h, o, d)
  BY <1>1, <1>2, <1>3 DEF ClientDown, InpNumbers
<1>6. ASSUME NEW qry \in d.tx PROVE DownQuery(d, qry)
  <2>1. CASE qry \in c.tx
    <3>1. NewQuery(qry)
      BY <1>1, <2>1 DEF GoodClient
    <3> QED
      BY <1>1, <1>4, <2>1, <3>1, QueryStays
  <2>2. CASE qry \notin c.tx
    <3> DEFINE e == c.inp.fragment
               n == qry.num
    <3>1. /\ qry.ack = Header(c.inp) /\ n \in Nat /\ c.num < n /\ n <= d.num
      BY <2>2 DEF Asks
    <3>2. e <= c.num /\ e \in Nat /\ e \in 0 .. 15
      BY <1>1, <1>3 DEF ClientDown, InpNumbers
    <3>3. qry.ack.seqno = c.inp.seqno /\ qry.ack.fragment = FragField(e)
      BY <3>1 DEF Header
    <3> HIDE DEF e, n
    <3>4. FragField(e) = e
      BY <3>2 DEF FragField
    <3>5. e < n /\ e <= e
      BY <1>2, <3>1, <3>2
    <3> QED
      BY <1>2, <3>1, <3>3, <3>4, <3>5 DEF DownQuery, e, n
  <2> QED
    BY <2>1, <2>2
<1> QED
  BY <1>2, <1>4, <1>5, <1>6 DEF ClientState

\* The packet in line after the one the client is at was not written yet.
LEMMA LaterIsNew ==
  ASSUME NEW h, NEW read, GoodRead(read), NEW o, GoodOut(o), LineIs(h, read, o),
         NEW c, GoodClient(c), ClientDown(h, o, c),
         NEW t \in Nat, c.inp.seqno < t, t <= h.at
  PROVE  WrittenBefore(c.written, h.line[t])
<1> DEFINE s == c.inp.seqno
           p == h.line[s]
           r == h.line[t]
           n == Len(h.line)
<1>1. s \in Nat /\ h.at \in Nat /\ n \in Nat /\ h.at <= n
  <2>1. h.at \in 0 .. 3 /\ n \in 0 .. 3 /\ h.at <= n
    BY FewPackets
  <2>2. s \in Nat
    BY NumbersOf DEF InpNumbers
  <2> HIDE DEF n, s
  <2> QED
    BY <2>1, <2>2
<1>2. t \in 1 .. n /\ (s > 0 => s \in 1 .. t - 1 /\ s \in 1 .. n)
  <2> HIDE DEF s, n
  <2> QED
    BY <1>1 DEF s
<1>3. read \in Seq(Packet) /\ Len(read) \in Nat
  BY DEF GoodRead
<1>4. /\ r[1] \in 1 .. Len(read)
      /\ s > 0 => p[1] \in 1 .. Len(read) /\ p[1] < r[1]
  <2>1. \A k \in 1 .. n : /\ h.line[k][1] \in 1 .. Len(read)
                          /\ \A j \in 1 .. k - 1 : h.line[j][1] < h.line[k][1]
    BY <1>3 DEF LineIs
  <2> HIDE DEF s, n
  <2> QED
    BY <1>2, <2>1
<1>5. \/ ClientHas(h, c.inp, c.written) \/ ClientSkipped(h, c.inp, c.written)
  BY DEF ClientDown
<1>6. \/ c.written = << >>
      \/ s > 0 /\ WrittenBefore(c.written, p)
      \/ s > 0 /\ c.written[Len(c.written)] = p
  BY <1>1, <1>5 DEF ClientHas, ClientSkipped
<1> DEFINE w == c.written[Len(c.written)]
<1>7. c.written # << >> =>
        \/ s > 0 /\ w[1] \in 1 .. p[1] - 1
        \/ s > 0 /\ w = p
  BY <1>6 DEF WrittenBefore
<1> HIDE DEF w, p, r, s
<1>8. c.written # << >> => w[1] \in 1 .. r[1] - 1
  BY <1>3, <1>4, <1>7
<1> QED
  BY <1>8 DEF WrittenBefore, w, r

-----------------------------------------------------------------------------
(***************************************************************************)
(* Data from iodined.  It is the next fragment of the packet the client    *)
(* has a part of, or the first of one after it, or of this one again if    *)
(* the client has nothing of it.                                           *)
(***************************************************************************)
\* Among so few packets the older one is recent.
LEMMA OlderIsRecent ==
  ASSUME NEW s \in 0 .. 3, NEW t \in 0 .. 3
  PROVE  recent_seqno(s, t) <=> t <= s
<1>1. ASSUME NEW back \in 0 .. 3 PROVE (s - back) % 8 = IF back <= s THEN s - back ELSE s - back + 8
  OBVIOUS
<1>2. recent_seqno(s, t) <=> \E back \in 0 .. 3 : t = IF back <= s THEN s - back ELSE s - back + 8
  BY <1>1 DEF recent_seqno, RecentSpan, SeqCount
<1>3. t <= s => \E back \in 0 .. 3 : t = IF back <= s THEN s - back ELSE s - back + 8
  <2> SUFFICES ASSUME t <= s
               PROVE  \E back \in 0 .. 3 : t = IF back <= s THEN s - back ELSE s - back + 8
    OBVIOUS
  <2>1. s - t \in 0 .. 3 /\ s - t <= s /\ t = s - (s - t)
    OBVIOUS
  <2> QED
    BY <2>1
<1>4. (\E back \in 0 .. 3 : t = IF back <= s THEN s - back ELSE s - back + 8) => t <= s
  OBVIOUS
<1> QED
  BY <1>2, <1>3, <1>4

PieceDown(p, f, avail, len) ==
  DownBytes(f) + avail = PacketLen[p] /\ len = Smaller(FragSize, avail)

LEMMA DownPieceAdded ==
  ASSUME NEW p \in Packet, NEW f \in Nat, NEW avail \in Nat \ {0},
         NEW len \in Nat, PieceDown(p, f, avail, len)
  PROVE  /\ len = avail => DownBytes(f) + len = PacketLen[p] /\ DownBytes(f + 1) >= PacketLen[p]
         /\ len # avail => DownBytes(f) + len = DownBytes(f + 1) /\ DownBytes(f + 1) < PacketLen[p]
<1> DEFINE n == DownBytes(f)
           m == DownBytes(f + 1)
<1>1. /\ PacketLen[p] \in Nat \ {0} /\ FragSize \in Nat \ {0}
      /\ n \in Nat /\ m = n + FragSize
  BY PacketAssumption, DownBytesType
<1> HIDE DEF n, m
<1>2. n + avail = PacketLen[p]
  BY DEF PieceDown, n
<1>3. avail \in Nat /\ len \in Nat /\ len <= FragSize /\ len <= avail
      /\ (len = avail \/ len = FragSize)
  BY <1>1 DEF Smaller, PieceDown
<1>4. len = avail => n + len = PacketLen[p] /\ m >= PacketLen[p]
  BY <1>1, <1>2, <1>3
<1>5. len # avail => len = FragSize /\ len < avail
  BY <1>3
<1>6. len # avail => n + len = m /\ m < PacketLen[p]
  BY <1>1, <1>2, <1>3, <1>5
<1> QED
  BY <1>4, <1>6 DEF m, n

Kept(c, b) == IF b.down.seqno = c.inp.seqno THEN c.inp.buf ELSE << >>

\* The client after the data of b, fragment f of p, has been appended
LEMMA AppendedIs ==
  ASSUME NEW c, GoodClient(c), NEW b \in BodyRecord,
         NEW p \in Packet, NEW f \in Nat, NEW avail \in Nat \ {0},
         NEW len \in Nat, PieceDown(p, f, avail, len),
         b.data = CellsOf(p, DownBytes(f), len), b.last = (len = avail),
         Kept(c, b) = CellsOf(p, 0, DownBytes(f))
  PROVE  LET d == AppendData(c, b)
             n == DownBytes(f + 1)
         IN  /\ d.inp.seqno = b.down.seqno /\ d.inp.fragment = b.down.fragment
             /\ d.num = c.num /\ d.tx = c.tx
             /\ IF b.last
                THEN /\ d.inp.buf = << >> /\ n >= PacketLen[p]
                     /\ d.written = Append(c.written, p)
                ELSE /\ d.inp.buf = CellsOf(p, 0, n) /\ n < PacketLen[p]
                     /\ d.written = c.written
<1> DEFINE kept == Kept(c, b)
           all == kept \o b.data
           wrote == \E x \in Packet : IsPacket(all, x)
           buf == IF b.last THEN << >> ELSE all
           inp == [buf |-> buf, seqno |-> b.down.seqno, fragment |-> b.down.fragment]
           written == IF b.last /\ wrote THEN Append(c.written, all[1][1]) ELSE c.written
           n == DownBytes(f + 1)
           d == AppendData(c, b)
<1>1. d = [c EXCEPT !.inp = inp, !.written = written]
  BY DEF AppendData, Kept
<1>2. /\ b.last => /\ IsPacket(all, p) /\ all[1][1] = p
                   /\ n >= PacketLen[p]
      /\ ~ b.last => /\ all = CellsOf(p, 0, n)
                     /\ n < PacketLen[p]
  <2>1. /\ all = CellsOf(p, 0, DownBytes(f)) \o CellsOf(p, DownBytes(f), len)
        /\ b.last <=> len = avail
    OBVIOUS
  <2> HIDE DEF all, kept, wrote, buf, inp, written, d
  <2>2. all = CellsOf(p, 0, DownBytes(f) + len)
    <3>1. DownBytes(f) \in Nat
      BY DownBytesType
    <3>2. CellsOf(p, 0, DownBytes(f)) \o CellsOf(p, DownBytes(f), len)
            = CellsOf(p, 0, DownBytes(f) + len)
      BY <3>1, CellsJoin
    <3> QED
      BY <2>1, <3>2
  <2>3. /\ len = avail => DownBytes(f) + len = PacketLen[p] /\ n >= PacketLen[p]
        /\ len # avail => DownBytes(f) + len = n /\ n < PacketLen[p]
    BY DownPieceAdded
  <2>4. /\ len = avail => IsPacket(all, p) /\ n >= PacketLen[p]
        /\ len # avail => all = CellsOf(p, 0, n) /\ n < PacketLen[p]
    <3> HIDE DEF n
    <3> QED
      BY <2>2, <2>3 DEF IsPacket
  <2>5. len = avail => all[1][1] = p
    BY <2>4, FirstCell
  <2> HIDE DEF n
  <2> QED
    BY <2>1, <2>4, <2>5
<1>3. inp.buf = buf /\ inp.seqno = b.down.seqno /\ inp.fragment = b.down.fragment
  OBVIOUS
<1> HIDE DEF all, inp, n
<1>4. written = IF b.last THEN Append(c.written, p) ELSE c.written
  BY <1>2
<1> HIDE DEF written
<1>5. d.inp = inp /\ d.written = written /\ d.num = c.num /\ d.tx = c.tx
  BY <1>1 DEF GoodClient, ClientRecord
<1> HIDE DEF d
<1>6. CASE b.last
  BY <1>2, <1>3, <1>4, <1>5, <1>6 DEF d, n
<1>7. CASE ~ b.last
  BY <1>2, <1>3, <1>4, <1>5, <1>7 DEF d, n
<1> QED
  BY <1>6, <1>7

\* p, of which fragment f comes, was not written yet; or it is the last that
\* was, of one fragment.
IsNewOrAgain(c, p, f) ==
  \/ WrittenBefore(c.written, p)
  \/ /\ f = 0 /\ c.written # << >> /\ c.written[Len(c.written)] = p
     /\ PacketLen[p] <= FragSize

\* The data of b fits to what the client has.
Fits(h, c, b) ==
  LET t == b.down.seqno
      f == b.down.fragment
      p == h.line[t]
  IN  /\ Kept(c, b) = CellsOf(p, 0, DownBytes(f))
      /\ IsNewOrAgain(c, p, f)
      /\ \/ c.inp.seqno < t
         \/ /\ c.inp.seqno = t /\ c.inp.fragment <= f
            /\ c.inp.buf # << >> => f > 0

NotOlder(c, b) == c.inp.seqno <= b.down.seqno

LEMMA DataFits ==
  ASSUME NEW h, NEW read, GoodRead(read), NEW o, GoodOut(o), LineIs(h, read, o),
         NEW c, GoodClient(c), ClientDown(h, o, c),
         NEW b \in BodyRecord, b.legal, DownBody(h, o, c, b), b.data # << >>,
         NotOlder(c, b), ~ IgnoresData(c, b)
  PROVE  Fits(h, c, b)
<1> DEFINE t == b.down.seqno
           f == b.down.fragment
           p == h.line[t]
           s == c.inp.seqno
           e == c.inp.fragment
           avail == PacketLen[p] - DownBytes(f)
<1>1. t \in Seqnos /\ f \in FragNos
  BY DEF BodyRecord, Headers
<1>2. /\ t <= h.at /\ f <= c.num
      /\ f > 0 => Had(c.inp, t, f - 1)
      /\ DownData(h, b, t, f)
  BY DEF DownBody
<1>3. avail > 0 /\ t > 0
  BY <1>2 DEF DownData
<1>4. s \in Nat /\ e \in Nat /\ s <= t
  BY NumbersOf DEF InpNumbers, NotOlder
<1>5. t \in Nat /\ f \in Nat
  <2> HIDE DEF t, f
  <2> QED
    BY <1>1
<1>6. s = t => WeirdSituation(c, b) \/ f = e + 1
  BY DEF IgnoresData
<1>7. WeirdSituation(c, b) <=> e = 0 /\ f = 0 /\ c.inp.buf = << >>
  BY DEF WeirdSituation
<1>8. Kept(c, b) = IF t = s THEN c.inp.buf ELSE << >>
  BY DEF Kept
<1>9. /\ ClientHas(h, c.inp, c.written) \/ ClientSkipped(h, c.inp, c.written)
  BY DEF ClientDown
<1>10. /\ DownBytes(0) = 0 /\ DownBytes(1) = FragSize /\ FragSize \in Nat \ {0}
       /\ DownBytes(f) \in Nat /\ DownBytes(e + 1) \in Nat
  <2>1. e + 1 \in Nat
    BY <1>4
  <2> QED
    BY <1>4, <1>5, <2>1, DownBytesType
<1>11. CellsOf(p, 0, 0) = << >> /\ \A n \in Nat \ {0} : CellsOf(p, 0, n) # << >>
  BY CellsNone
<1>12. CASE s < t
  <2>1. f = 0
    <3>1. f > 0 => t < s \/ t = s
      BY <1>2 DEF Had
    <3> HIDE DEF s, t, f
    <3> QED
      BY <1>4, <1>5, <1>12, <3>1
  <2>2. Kept(c, b) = << >>
    <3>1. s # t
      BY <1>4, <1>12
    <3> QED
      BY <1>8, <3>1
  <2>3. WrittenBefore(c.written, p)
    BY <1>2, <1>5, <1>12, LaterIsNew
  <2>4. CellsOf(p, 0, DownBytes(f)) = << >>
    BY <1>10, <1>11, <2>1
  <2> QED
    BY <1>12, <2>2, <2>3, <2>4 DEF Fits, IsNewOrAgain
<1>13. CASE s = t /\ WeirdSituation(c, b)
  <2>1. f = 0 /\ e = 0 /\ c.inp.buf = << >> /\ Kept(c, b) = << >>
    BY <1>7, <1>8, <1>13
  <2>2. CellsOf(p, 0, DownBytes(f)) = << >>
    BY <1>10, <1>11, <2>1
  <2>3. IsNewOrAgain(c, p, f)
    <3>1. CASE ClientSkipped(h, c.inp, c.written)
      <4>1. WrittenBefore(c.written, p)
        BY <1>3, <1>13, <3>1 DEF ClientSkipped
      <4> QED
        BY <4>1 DEF IsNewOrAgain
    <3>2. CASE ClientHas(h, c.inp, c.written)
      <4>1. e + 1 = 1 /\ DownBytes(e + 1) = FragSize
        BY <1>10, <2>1
      <4>2. CellsOf(p, 0, DownBytes(e + 1)) # << >>
        BY <1>10, <1>11, <4>1
      <4>3. /\ c.written # << >> /\ c.written[Len(c.written)] = p
            /\ DownBytes(e + 1) >= PacketLen[p]
        BY <1>13, <2>1, <3>2, <4>2 DEF ClientHas
      <4>4. PacketLen[p] <= FragSize
        BY <4>1, <4>3
      <4> QED
        BY <2>1, <4>3, <4>4 DEF IsNewOrAgain
    <3> QED
      BY <1>9, <3>1, <3>2
  <2>4. e <= f /\ c.inp.fragment <= f
    BY <2>1
  <2> QED
    BY <1>13, <2>1, <2>2, <2>3, <2>4 DEF Fits
<1>14. CASE s = t /\ ~ WeirdSituation(c, b)
  <2>1. f = e + 1
    BY <1>6, <1>14
  <2>2. f > 0 /\ f - 1 = e /\ e <= f
    <3> HIDE DEF f, e
    <3> QED
      BY <1>4, <2>1
  <2>3. e > 0 \/ c.inp.buf # << >>
    <3>1. Had(c.inp, t, e)
      BY <1>2, <2>2
    <3>2. ~ (t < s)
      BY <1>4, <1>14
    <3> QED
      BY <3>1, <3>2 DEF Had
  <2>4. ~ ClientSkipped(h, c.inp, c.written)
    <3>1. ~ (c.inp.buf = << >> /\ e = 0)
      BY <1>4, <2>3
    <3> QED
      BY <3>1 DEF ClientSkipped
  <2>5. DownBytes(e + 1) < PacketLen[p]
    <3>1. DownBytes(e + 1) = DownBytes(f)
      BY <2>1
    <3> DEFINE n == DownBytes(f)
               l == PacketLen[p]
    <3>2. p \in Packet
      <4>1. t \in 1 .. h.at
        <5>1. h.at \in Nat
          BY DEF LineIs, DownHistory
        <5> HIDE DEF t
        <5> QED
          BY <1>2, <1>3, <1>5, <5>1 DEF t
      <4> QED
        BY <4>1, FewPackets
    <3>3. l \in Nat /\ n \in Nat
      BY <1>10, <3>2, PacketAssumption
    <3>4. l - n > 0
      BY <1>3
    <3> HIDE DEF l, n
    <3>5. n < l
      BY <3>3, <3>4
    <3> QED
      BY <3>1, <3>5 DEF n, l
  <2>6. c.inp.buf = CellsOf(p, 0, DownBytes(e + 1)) /\ WrittenBefore(c.written, p)
    <3>1. ClientHas(h, c.inp, c.written)
      BY <1>9, <2>4
    <3>2. PacketLen[p] \in Nat
      <4>1. t \in 1 .. h.at
        <5>1. h.at \in Nat
          BY DEF LineIs, DownHistory
        <5> HIDE DEF t
        <5> QED
          BY <1>2, <1>3, <1>5, <5>1 DEF t
      <4>2. p \in Packet
        BY <4>1, FewPackets
      <4> QED
        BY <4>2, PacketAssumption
    <3>3. ~ (DownBytes(e + 1) >= PacketLen[p])
      BY <1>10, <2>5, <3>2
    <3> QED
      BY <1>14, <3>1, <3>3 DEF ClientHas
  <2>7. Kept(c, b) = CellsOf(p, 0, DownBytes(f))
    BY <1>8, <1>14, <2>1, <2>6
  <2> QED
    BY <1>14, <2>2, <2>6, <2>7 DEF Fits, IsNewOrAgain
<1> QED
  <2>1. s < t \/ s = t
    <3> HIDE DEF s, t
    <3> QED
      BY <1>4, <1>5
  <2> QED
    BY <1>12, <1>13, <1>14, <2>1

\* What the client may write: a packet after the last, or one that fits into
\* a fragment and is the last.
Writes(h, c, d) ==
  \/ d.written = c.written
  \/ \E t \in 1 .. h.at : /\ d.written = Append(c.written, h.line[t])
                          /\ IsNewOrAgain(c, h.line[t], 0)

Heard(h, o, c, d) == ClientState(h, o, d) /\ Grows(c, d) /\ Writes(h, c, d)

LEMMA HeardNothing ==
  ASSUME NEW h, NEW o, NEW c, ClientState(h, o, c), NEW d, GoodClient(d), SameDown(c, d)
  PROVE  Heard(h, o, c, d)
<1>1. GoodClient(c)
  BY DEF ClientState
<1>2. Asks(c, d)
  BY <1>1, AsksSame
<1> QED
  BY <1>2, AsksKeeps DEF Heard, Writes

LEMMA HeardSame ==
  ASSUME NEW h, NEW o, NEW c, ClientState(h, o, c), NEW d, Heard(h, o, c, d),
         NEW e, GoodClient(e), Asks(d, e)
  PROVE  Heard(h, o, c, e)
<1>1. ClientState(h, o, d) /\ Grows(c, d) /\ Writes(h, c, d)
  BY DEF Heard
<1>2. ClientState(h, o, e) /\ Grows(d, e) /\ e.written = d.written
  BY <1>1, AsksKeeps
<1>3. GoodClient(c) /\ GoodClient(d)
  BY <1>1 DEF ClientState
<1>4. Grows(c, e)
  BY <1>1, <1>2, <1>3, GrowsTwice
<1>5. Writes(h, c, e)
  BY <1>1, <1>2 DEF Writes
<1> QED
  BY <1>2, <1>4, <1>5 DEF Heard

\* The data is taken.
LEMMA DataHeard ==
  ASSUME NEW h, NEW read, GoodRead(read), NEW o, GoodOut(o), LineIs(h, read, o),
         NEW c, ClientState(h, o, c), NEW b \in BodyRecord, b.legal,
         DownBody(h, o, c, b), b.data # << >>, NotOlder(c, b), ~ IgnoresData(c, b),
         GoodClient(AppendData(c, b))
  PROVE  Heard(h, o, c, AppendData(c, b))
<1> DEFINE t == b.down.seqno
           f == b.down.fragment
           p == h.line[t]
           avail == PacketLen[p] - DownBytes(f)
           len == Smaller(FragSize, avail)
           n == DownBytes(f + 1)
           d == AppendData(c, b)
<1>1. GoodClient(c) /\ ClientDown(h, o, c) /\ \A qry \in c.tx : DownQuery(c, qry)
  BY DEF ClientState
<1>2. Fits(h, c, b)
  BY <1>1, DataFits
<1>3. t \in Seqnos /\ f \in FragNos
  BY DEF BodyRecord, Headers
<1>4. /\ t <= h.at /\ f <= c.num
      /\ DownData(h, b, t, f) /\ WasSent(h, o, t, f)
  BY DEF DownBody
<1>5. t \in Nat /\ f \in Nat
  <2> HIDE DEF t, f
  <2> QED
    BY <1>3
<1>6. t \in 1 .. h.at /\ p \in Packet
  <2>1. h.at \in Nat /\ t > 0
    BY <1>4 DEF LineIs, DownHistory, DownData
  <2>2. t \in 1 .. h.at
    <3> HIDE DEF t
    <3> QED
      BY <1>4, <1>5, <2>1
  <2> QED
    BY <2>2, FewPackets
<1>7. /\ avail \in Nat \ {0} /\ len \in Nat /\ PieceDown(p, f, avail, len)
      /\ b.data = CellsOf(p, DownBytes(f), len) /\ b.last = (len = avail)
  <2> DEFINE l == PacketLen[p]
             m == DownBytes(f)
  <2>1. l \in Nat /\ m \in Nat /\ FragSize \in Nat \ {0}
    BY <1>5, <1>6, PacketAssumption, DownBytesType
  <2>2. avail > 0 /\ avail = l - m
    BY <1>4 DEF DownData
  <2>3. b.data = CellsOf(p, m, len) /\ b.last = (len = avail)
    BY <1>4 DEF DownData
  <2> HIDE DEF l, m, avail
  <2>4. avail \in Nat \ {0} /\ m + avail = l
    BY <2>1, <2>2
  <2>5. len \in Nat
    BY <2>1, <2>4 DEF Smaller
  <2> QED
    BY <2>3, <2>4, <2>5 DEF PieceDown, l, m
<1>8. /\ Kept(c, b) = CellsOf(p, 0, DownBytes(f))
      /\ IsNewOrAgain(c, p, f)
      /\ \/ c.inp.seqno < t
         \/ /\ c.inp.seqno = t /\ c.inp.fragment <= f
            /\ c.inp.buf # << >> => f > 0
  BY <1>2 DEF Fits
<1> HIDE DEF avail, len
<1>9. /\ d.inp.seqno = t /\ d.inp.fragment = f /\ d.num = c.num /\ d.tx = c.tx
      /\ IF b.last
         THEN /\ d.inp.buf = << >> /\ n >= PacketLen[p]
              /\ d.written = Append(c.written, p)
         ELSE /\ d.inp.buf = CellsOf(p, 0, n) /\ n < PacketLen[p]
              /\ d.written = c.written
  <2> HIDE DEF p
  <2> QED
    BY <1>1, <1>5, <1>6, <1>7, <1>8, AppendedIs
<1> HIDE DEF d
<1>10. Grows(c, d)
  <2>1. c.num <= d.num
    BY <1>1, <1>9, NumbersOf
  <2> QED
    BY <1>8, <1>9, <2>1 DEF Grows, InpGrows
<1>11. Writes(h, c, d)
  <2>1. IsNewOrAgain(c, p, 0)
    BY <1>8 DEF IsNewOrAgain
  <2> QED
    BY <1>6, <1>9, <2>1 DEF Writes
<1>12. ClientHas(h, d.inp, d.written)
  <2>1. d.inp.seqno = t /\ t > 0 /\ DownBytes(d.inp.fragment + 1) = n
    BY <1>4, <1>9 DEF DownData
  <2>2. CASE b.last
    <3>1. c.written \in Seq(Packet)
      BY <1>1 DEF GoodClient, ClientRecord
    <3>2. d.written # << >> /\ d.written[Len(d.written)] = p
      BY <1>6, <1>9, <2>2, <3>1
    <3> HIDE DEF n
    <3> QED
      BY <1>9, <2>1, <2>2, <3>2 DEF ClientHas
  <2>3. CASE ~ b.last
    <3>1. ~ (f = 0 /\ PacketLen[p] <= FragSize)
      <4>1. f = 0 => n = FragSize
        BY <1>5, DownBytesType
      <4>2. n < PacketLen[p] /\ PacketLen[p] \in Nat /\ FragSize \in Nat
        BY <1>6, <1>9, <2>3, PacketAssumption, DownBytesType, <1>5
      <4> HIDE DEF n
      <4> QED
        BY <4>1, <4>2
    <3>2. WrittenBefore(d.written, p)
      BY <1>8, <1>9, <2>3, <3>1 DEF IsNewOrAgain
    <3> HIDE DEF n
    <3> QED
      BY <1>9, <2>1, <2>3, <3>2 DEF ClientHas
  <2> QED
    BY <2>2, <2>3
<1>13. ClientDown(h, o, d)
  BY <1>4, <1>9, <1>12 DEF ClientDown
<1>14. \A qry \in d.tx : DownQuery(d, qry)
  <2> TAKE qry \in d.tx
  <2>1. NewQuery(qry) /\ DownQuery(c, qry)
    BY <1>1, <1>9 DEF GoodClient
  <2> QED
    BY <1>1, <1>10, <2>1, QueryStays DEF d
<1> QED
  BY <1>10, <1>11, <1>13, <1>14 DEF Heard, ClientState, d

\* An answer without data tells of a packet the client will not see.
LEMMA SkipHeard ==
  ASSUME NEW h, NEW read, GoodRead(read), NEW o, GoodOut(o), LineIs(h, read, o),
         NEW c, ClientState(h, o, c), NEW b \in BodyRecord, b.legal,
         DownBody(h, o, c, b), b.data = << >>, c.inp.seqno < b.down.seqno,
         NEW d, GoodClient(d), d.num = c.num, d.tx = c.tx, d.written = c.written,
         d.inp = [buf |-> << >>, seqno |-> b.down.seqno, fragment |-> b.down.fragment]
  PROVE  Heard(h, o, c, d)
<1> DEFINE t == b.down.seqno
           f == b.down.fragment
           s == c.inp.seqno
<1>1. GoodClient(c) /\ ClientDown(h, o, c) /\ \A qry \in c.tx : DownQuery(c, qry)
  BY DEF ClientState
<1>2. t \in Seqnos /\ f \in FragNos
  BY DEF BodyRecord, Headers
<1>3. /\ t <= h.at /\ f <= c.num /\ IsOver(h, o, t)
      /\ f > 0 => Had(c.inp, t, f - 1)
  BY DEF DownBody
<1>4. s \in Nat /\ s < t
  BY <1>1, NumbersOf DEF InpNumbers
<1>5. f > 0 => t < s \/ t = s
  BY <1>3 DEF Had
<1>6. d.inp.buf = << >> /\ d.inp.seqno = t /\ d.inp.fragment = f
  OBVIOUS
<1>7. t \in Nat /\ f \in Nat
  <2> HIDE DEF t, f
  <2> QED
    BY <1>2
<1>8. WrittenBefore(c.written, h.line[t])
  BY <1>1, <1>3, <1>4, <1>7, LaterIsNew
<1> HIDE DEF t, f, s
<1>9. f = 0 /\ t # 0
  BY <1>4, <1>5, <1>7
<1>10. ClientSkipped(h, d.inp, d.written)
  BY <1>6, <1>8, <1>9 DEF ClientSkipped
<1>11. c.num \in Nat /\ d.num = c.num
  BY <1>1, NumbersOf
<1>12. ClientDown(h, o, d)
  BY <1>3, <1>6, <1>10, <1>11 DEF ClientDown
<1>13. Grows(c, d)
  BY <1>4, <1>6, <1>11 DEF Grows, InpGrows, s
<1>14. \A qry \in d.tx : DownQuery(d, qry)
  <2> TAKE qry \in d.tx
  <2>1. NewQuery(qry) /\ DownQuery(c, qry)
    BY <1>1 DEF GoodClient
  <2> QED
    BY <1>1, <1>13, <2>1, QueryStays
<1> QED
  BY <1>12, <1>13, <1>14 DEF Heard, ClientState, Writes

\* Data that is taken leaves a client.
LEMMA AppendType ==
  ASSUME NEW c, GoodClient(c), NEW b \in BodyRecord
  PROVE  AppendData(c, b) \in ClientRecord
<1> DEFINE kept == IF b.down.seqno = c.inp.seqno THEN c.inp.buf ELSE << >>
           all == kept \o b.data
           buf == IF b.last THEN << >> ELSE all
           wrote == \E p \in Packet : IsPacket(all, p)
           inp == [buf |-> buf, seqno |-> b.down.seqno, fragment |-> b.down.fragment]
           written == IF b.last /\ wrote THEN Append(c.written, all[1][1]) ELSE c.written
           d == AppendData(c, b)
<1>1. /\ b.down.seqno \in Seqnos /\ b.down.fragment \in FragNos
      /\ b.data \in Seq(Cells) /\ b.last \in BOOLEAN
  BY DEF BodyRecord, Headers
<1>2. c.inp.buf \in Seq(Cells) /\ c.written \in Seq(Packet)
  BY DEF GoodClient, ClientRecord
<1>3. buf \in Seq(Cells)
  BY <1>1, <1>2
<1>4. written \in Seq(Packet)
  <2> HIDE DEF all
  <2> QED
    BY <1>2, WrittenPacket
<1>5. d = [c EXCEPT !.inp = inp, !.written = written]
  BY DEF AppendData
<1> HIDE DEF buf, written, d
<1>6. d \in ClientRecord
  BY <1>1, <1>3, <1>4, <1>5 DEF GoodClient, ClientRecord
<1> QED
  BY <1>6 DEF d

\* tunnel_dns, the downstream half
LEMMA ReceiveHeard ==
  ASSUME NEW h, NEW read, GoodRead(read), NEW o, GoodOut(o), LineIs(h, read, o),
         NEW c, ClientState(h, o, c), NEW body \in BodyRecord, body.legal,
         DownBody(h, o, c, body), NEW something \in BOOLEAN
  PROVE  Heard(h, o, c, ReceiveDownstream(c, WithoutStaleData(c, body), something)[1])
<1> DEFINE b == WithoutStaleData(c, body)
           t == body.down.seqno
           s == c.inp.seqno
           r == ReceiveDownstream(c, b, something)[1]
           skipped == [c EXCEPT !.inp = [buf |-> << >>, seqno |-> b.down.seqno,
                                         fragment |-> b.down.fragment]]
           d == AppendData(c, b)
<1> SUFFICES Heard(h, o, c, r)
  OBVIOUS
<1>1. GoodClient(c) /\ ClientDown(h, o, c)
  BY DEF ClientState
<1>2. s \in 0 .. 3 /\ t \in 0 .. 3
  <2>1. h.at \in 0 .. 3 /\ s <= h.at /\ t <= h.at
    BY <1>1, FewPackets DEF ClientDown, DownBody
  <2>2. s \in Nat
    BY <1>1, NumbersOf DEF InpNumbers
  <2>3. t \in Seqnos
    BY DEF BodyRecord, Headers
  <2> HIDE DEF s, t
  <2> QED
    BY <2>1, <2>2, <2>3
<1>3. recent_seqno(s, t) <=> t <= s
  <2> HIDE DEF s, t
  <2> QED
    BY <1>2, OlderIsRecent
<1>4. b \in BodyRecord /\ b.down = body.down /\ b.legal = body.legal
  <2>1. << >> \in Seq(Cells)
    OBVIOUS
  <2> QED
    BY <2>1 DEF WithoutStaleData, BodyRecord
<1>5. \/ b = body /\ (body.data = << >> \/ s <= t)
      \/ b.data = << >> /\ t <= s
  <2>1. CASE IsStaleData(c, body)
    <3>1. b.data = << >>
      BY <2>1 DEF WithoutStaleData, BodyRecord
    <3>2. t <= s
      BY <1>3, <2>1 DEF IsStaleData
    <3> QED
      BY <3>1, <3>2
  <2>2. CASE ~ IsStaleData(c, body)
    <3>1. b = body
      BY <2>2 DEF WithoutStaleData
    <3>2. body.data = << >> \/ t = s \/ ~ recent_seqno(s, t)
      BY <2>2 DEF IsStaleData
    <3> HIDE DEF b, t, s
    <3>3. body.data = << >> \/ s <= t
      BY <1>2, <1>3, <3>2
    <3> QED
      BY <3>1, <3>3
  <2> QED
    BY <2>1, <2>2
<1> HIDE DEF b
<1>6. GoodClient(r)
  BY <1>1, <1>4, ReceiveGood
<1>7. CASE b.data = << >>
  <2>1. r = SkipToUnseen(c, b)
    BY <1>7 DEF ReceiveDownstream
  <2> HIDE DEF r
  <2>2. CASE t # s /\ ~ recent_seqno(s, t)
    <3>1. r = PingSoon(skipped)
      BY <1>4, <1>7, <2>1, <2>2 DEF SkipToUnseen
    <3>2. s < t
      <4> HIDE DEF s, t
      <4> QED
        BY <1>2, <1>3, <2>2
    <3>3. b = body
      <4> HIDE DEF s, t
      <4> QED
        BY <1>2, <1>5, <3>2
    <3>4. /\ r.num = c.num /\ r.tx = c.tx /\ r.written = c.written
          /\ r.inp = [buf |-> << >>, seqno |-> b.down.seqno, fragment |-> b.down.fragment]
      BY <1>1, <3>1 DEF PingSoon, GoodClient, ClientRecord
    <3>5. GoodClient(r)
      BY <1>6
    <3> HIDE DEF t, s
    <3>6. body.data = << >> /\ c.inp.seqno < body.down.seqno
      BY <1>7, <3>2, <3>3 DEF s, t
    <3>7. r.inp = [buf |-> << >>, seqno |-> body.down.seqno, fragment |-> body.down.fragment]
      BY <3>3, <3>4
    <3> QED
      BY <3>4, <3>5, <3>6, <3>7, SkipHeard
  <2>3. CASE ~ (t # s /\ ~ recent_seqno(s, t))
    <3>1. r = c
      BY <1>4, <2>1, <2>3 DEF SkipToUnseen
    <3>2. SameDown(c, r)
      BY <3>1 DEF SameDown
    <3> QED
      BY <1>6, <3>2, HeardNothing
  <2> QED
    BY <2>2, <2>3
<1>8. CASE b.data # << >> /\ IgnoresData(c, b)
  <2>1. r = PingSoon(c)
    BY <1>8 DEF ReceiveDownstream
  <2> HIDE DEF r
  <2>2. SameDown(c, r)
    BY <1>1, <2>1, SoonSame DEF PingSoon
  <2> QED
    BY <1>6, <2>2, HeardNothing
<1>9. CASE b.data # << >> /\ ~ IgnoresData(c, b)
  <2>1. r = d \/ r = PingSoon(d)
    BY <1>9 DEF ReceiveDownstream
  <2>2. b = body /\ s <= t
    BY <1>5, <1>9
  <2> HIDE DEF r
  <2>3. GoodClient(d) /\ SameDown(d, r)
    <3>1. d \in ClientRecord => GoodClient(d)
      <4>1. /\ d.out = c.out /\ d.tx = c.tx
        BY <1>1 DEF AppendData, GoodClient, ClientRecord
      <4> HIDE DEF d
      <4> QED
        BY <1>1, <4>1 DEF GoodClient, is_sending
    <3>2. d \in ClientRecord
      BY <1>1, <1>4, AppendType
    <3> HIDE DEF d
    <3>3. SameDown(d, d) /\ SameDown(d, PingSoon(d))
      BY <3>1, <3>2, SoonSame DEF SameDown, PingSoon
    <3> QED
      BY <2>1, <3>1, <3>2, <3>3
  <2>4. Heard(h, o, c, d)
    BY <1>4, <1>9, <2>2, <2>3, DataHeard DEF NotOlder
  <2> HIDE DEF d
  <2>5. Asks(d, r)
    BY <2>3, AsksSame
  <2> QED
    BY <1>6, <2>4, <2>5, HeardSame
<1> QED
  BY <1>7, <1>8, <1>9

-----------------------------------------------------------------------------
(***************************************************************************)
(* The handlers of the client, in one direction                            *)
(***************************************************************************)
\* A question before what is heard changes nothing.
LEMMA AsksFirst ==
  ASSUME NEW h, NEW o, NEW c, ClientState(h, o, c), NEW d, GoodClient(d), Asks(c, d),
         NEW e, Heard(h, o, d, e)
  PROVE  Heard(h, o, c, e)
<1>1. ClientState(h, o, d) /\ Grows(c, d) /\ d.written = c.written
  BY AsksKeeps
<1>2. ClientState(h, o, e) /\ Grows(d, e) /\ Writes(h, d, e)
  BY DEF Heard
<1>3. GoodClient(c) /\ GoodClient(e)
  BY <1>2 DEF ClientState
<1>4. Grows(c, e)
  BY <1>1, <1>2, <1>3, GrowsTwice
<1>5. Writes(h, c, e)
  BY <1>1, <1>2 DEF Writes, IsNewOrAgain
<1> QED
  BY <1>2, <1>4, <1>5 DEF Heard

LEMMA AsksHeard ==
  ASSUME NEW h, NEW o, NEW c, ClientState(h, o, c), NEW d, GoodClient(d), Asks(c, d)
  PROVE  Heard(h, o, c, d)
BY AsksKeeps DEF Heard, Writes

\* tunnel_dns, whatever has come
LEMMA ClientDnsHeard ==
  ASSUME NEW h, NEW read, GoodRead(read), NEW o, GoodOut(o), LineIs(h, read, o),
         NEW c, ClientState(h, o, c),
         NEW ans \in AnswerRecord, DownBody(h, o, c, ans.body)
  PROVE  Heard(h, o, c, client_tunnel_dns(c, ans))
<1> DEFINE b == WithoutStaleData(c, ans.body)
           calm == [c EXCEPT !.soon = IsStaleData(c, ans.body)]
           lazily == IF ans.num = c.num /\ c.lazymode THEN PingSoon(calm) ELSE calm
           received == ReceiveDownstream(lazily, b, c.soon)
           pinged == NoPing(send_ping(calm))
           Plain(d) == GoodClient(d) /\ SameDown(c, d)
<1>1. GoodClient(c) /\ c.soon \in BOOLEAN /\ ans.body \in BodyRecord
  BY DEF ClientState, GoodClient, ClientRecord, AnswerRecord
<1>2. b \in BodyRecord
  <2>1. << >> \in Seq(Cells)
    OBVIOUS
  <2> QED
    BY <1>1, <2>1 DEF WithoutStaleData, BodyRecord
<1>3. IsStaleData(c, ans.body) \in BOOLEAN
  BY DEF IsStaleData
<1>4. Plain(calm) /\ Plain(PingSoon(c))
  BY <1>1, <1>3, SoonGood, SoonSame DEF PingSoon
<1> HIDE DEF calm
<1>5. Plain(lazily)
  <2>1. GoodClient(PingSoon(calm)) /\ SameDown(calm, PingSoon(calm))
    BY <1>4, SoonGood, SoonSame DEF PingSoon
  <2> QED
    BY <1>4, <2>1 DEF SameDown
<1>6. b = WithoutStaleData(lazily, ans.body)
  BY <1>5 DEF SameDown, WithoutStaleData, IsStaleData
<1> HIDE DEF b, lazily
<1>7. ASSUME NEW d, Plain(d) PROVE Heard(h, o, c, d)
  BY <1>1, <1>7, HeardNothing
<1>8. Heard(h, o, c, pinged)
  <2>1. Heard(h, o, c, calm)
    BY <1>4, <1>7
  <2>2. GoodClient(pinged)
    BY <1>4, SendPingGood, SoonGood DEF NoPing
  <2>3. Asks(calm, pinged)
    BY <1>4, PingAsks
  <2> HIDE DEF pinged
  <2> QED
    BY <2>1, <2>2, <2>3, HeardSame
<1> HIDE DEF pinged
<1>9. ASSUME ans.body.legal
      PROVE  Heard(h, o, c, FinishAnswer(received[1], ans.body.ack, received[2]))
  <2> DEFINE r == received[1]
             e == FinishAnswer(r, ans.body.ack, received[2])
  <2>1. GoodClient(r) /\ received[2] \in BOOLEAN
    BY <1>1, <1>2, <1>5, ReceiveGood
  <2>2. ClientState(h, o, lazily) /\ Grows(c, lazily) /\ Asks(c, lazily)
    BY <1>1, <1>5, AsksSame, AsksKeeps
  <2>3. DownBody(h, o, lazily, ans.body)
    BY <1>1, <1>5, <2>2, BodyStays
  <2>4. Heard(h, o, lazily, r)
    BY <1>1, <1>6, <1>9, <2>2, <2>3, ReceiveHeard
  <2> HIDE DEF r
  <2>5. Heard(h, o, c, r)
    BY <1>5, <2>2, <2>4, AsksFirst
  <2>6. GoodClient(e) /\ Asks(r, e)
    BY <2>1, FinishGood, FinishAsks
  <2> HIDE DEF e
  <2>7. Heard(h, o, c, e)
    BY <2>5, <2>6, HeardSame
  <2> QED
    BY <2>7 DEF e, r
<1>10. Heard(h, o, c, PingSoon(c)) /\ Heard(h, o, c, calm)
  BY <1>4, <1>7
<1> HIDE DEF Plain, received
<1> QED
  BY <1>8, <1>9, <1>10 DEF client_tunnel_dns, calm, lazily, received, b, pinged

LEMMA ClientTunHeard ==
  ASSUME NEW h, NEW o, NEW c, ClientState(h, o, c), NEW p \in Packet, ~ is_sending(c)
  PROVE  Heard(h, o, c, client_tunnel_tun(c, p))
<1>1. GoodClient(c)
  BY DEF ClientState
<1>2. GoodClient(client_tunnel_tun(c, p)) /\ Asks(c, client_tunnel_tun(c, p))
  BY <1>1, ClientTunGood, TunAsks
<1> QED
  BY <1>2, AsksHeard

LEMMA TimeoutHeard ==
  ASSUME NEW h, NEW o, NEW c, ClientState(h, o, c)
  PROVE  Heard(h, o, c, Timeout(c))
<1>1. GoodClient(c)
  BY DEF ClientState
<1>2. GoodClient(Timeout(c)) /\ Asks(c, Timeout(c))
  BY <1>1, TimeoutGood, TimeoutAsks
<1> QED
  BY <1>2, AsksHeard

LEMMA SoonHeard ==
  ASSUME NEW h, NEW o, NEW c, ClientState(h, o, c)
  PROVE  Heard(h, o, c, PingSoon(c))
<1>1. GoodClient(c)
  BY DEF ClientState
<1>2. GoodClient(PingSoon(c)) /\ SameDown(c, PingSoon(c))
  BY <1>1, SoonGood, SoonSame DEF PingSoon
<1> QED
  BY <1>2, HeardNothing

\* First tun, then the answer
LEMMA TunAndDnsHeard ==
  ASSUME NEW h, NEW read, GoodRead(read), NEW o, GoodOut(o), LineIs(h, read, o),
         NEW c, ClientState(h, o, c), NEW p \in Packet, ~ is_sending(c),
         NEW ans \in AnswerRecord, DownBody(h, o, c, ans.body)
  PROVE  Heard(h, o, c, client_tunnel_dns(client_tunnel_tun(c, p), ans))
<1> DEFINE d == client_tunnel_tun(c, p)
<1>1. GoodClient(c) /\ ans.body \in BodyRecord
  BY DEF ClientState, AnswerRecord
<1>2. GoodClient(d) /\ Asks(c, d)
  BY <1>1, ClientTunGood, TunAsks
<1> HIDE DEF d
<1>3. ClientState(h, o, d) /\ Grows(c, d)
  BY <1>2, AsksKeeps
<1>4. DownBody(h, o, d, ans.body)
  BY <1>1, <1>2, <1>3, BodyStays
<1>5. Heard(h, o, d, client_tunnel_dns(d, ans))
  BY <1>3, <1>4, ClientDnsHeard
<1>6. Heard(h, o, c, client_tunnel_dns(d, ans))
  BY <1>2, <1>5, AsksFirst
<1> QED
  BY <1>6 DEF d

-----------------------------------------------------------------------------
(***************************************************************************)
(* Both ends and the relays together.                                      *)
(***************************************************************************)
\* The packets read are fewer than RecentSpan.
LEMMA ReadIsGood ==
  ASSUME TunnelInvariant, NEW h, DownInv(h)
  PROVE  /\ GoodRead(ReadDown) /\ downRead \in Nat /\ Len(ReadDown) = downRead
         /\ \A p \in DownNext :
              /\ p \in Packet /\ downRead + 1 \in 0 .. Len(scenario.down)
              /\ GoodRead(Append(ReadDown, p))
              /\ Append(ReadDown, p) = [k \in 1 .. downRead + 1 |-> scenario.down[k]]
<1> DEFINE s == scenario.down
           n == downRead
           m == Len(s)
<1>1. s \in Seq(Packet) /\ \A k \in DOMAIN s : s[k][1] = k
  <2>1. scenario \in Scenarios
    BY DEF TunnelInvariant
  <2> QED
    BY <2>1, TunnelAssumption
<1>2. n \in 0 .. m /\ m < RecentSpan /\ m \in Nat /\ DOMAIN s = 1 .. m
  BY <1>1 DEF DownInv
<1> HIDE DEF n, m, s
<1>3. ASSUME NEW i \in 0 .. m
      PROVE  /\ [k \in 1 .. i |-> s[k]] \in Seq(Packet)
             /\ Len([k \in 1 .. i |-> s[k]]) = i
             /\ GoodRead([k \in 1 .. i |-> s[k]])
  <2> DEFINE r == [k \in 1 .. i |-> s[k]]
  <2>1. i \in Nat /\ i <= m /\ \A k \in 1 .. i : k \in 1 .. m
    BY <1>2, <1>3
  <2>2. \A k \in 1 .. i : s[k] \in Packet /\ s[k][1] = k
    BY <1>1, <1>2, <2>1
  <2>3. r \in Seq(Packet) /\ Len(r) = i /\ DOMAIN r = 1 .. i
    BY <2>1, <2>2
  <2>4. i < RecentSpan
    BY <1>2, <2>1 DEF RecentSpan
  <2>5. \A k \in DOMAIN r : r[k][1] = k
    BY <2>2, <2>3
  <2> HIDE DEF r
  <2>6. GoodRead(r)
    BY <2>3, <2>4, <2>5 DEF GoodRead
  <2> QED
    BY <2>3, <2>6 DEF r
<1>4. /\ ReadDown \in Seq(Packet) /\ Len(ReadDown) = n /\ GoodRead(ReadDown) /\ n \in Nat
      /\ ReadDown = [k \in 1 .. n |-> s[k]]
  <2>1. ReadDown = [k \in 1 .. n |-> s[k]]
    BY DEF ReadDown, n, s
  <2> QED
    BY <1>2, <1>3, <2>1
<1>5. ASSUME NEW p \in DownNext
      PROVE  /\ p \in Packet /\ n + 1 \in 0 .. m
             /\ GoodRead(Append(ReadDown, p))
             /\ Append(ReadDown, p) = [k \in 1 .. n + 1 |-> s[k]]
  <2>1. p = s[n + 1] /\ n + 1 \in DOMAIN s
    BY DEF DownNext, NextPackets, n, s
  <2>2. n + 1 \in 0 .. m /\ p \in Packet
    BY <1>1, <1>2, <2>1
  <2> DEFINE r == [k \in 1 .. n + 1 |-> s[k]]
             a == Append(ReadDown, p)
  <2>3. r \in Seq(Packet) /\ Len(r) = n + 1 /\ GoodRead(r)
    BY <1>3, <2>2
  <2>4. /\ a \in Seq(Packet) /\ Len(a) = n + 1 /\ a[n + 1] = p
        /\ \A k \in 1 .. n : a[k] = ReadDown[k]
    BY <1>4, <2>2, AppendProperties
  <2>5. \A k \in 1 .. n : ReadDown[k] = s[k]
    BY <1>4
  <2>6. ASSUME NEW k \in 1 .. n + 1 PROVE a[k] = s[k]
    <3>1. k = n + 1 \/ k \in 1 .. n
      BY <1>4
    <3> HIDE DEF a
    <3> QED
      BY <2>1, <2>4, <2>5, <3>1
  <2> HIDE DEF a
  <2>7. a = [k \in 1 .. n + 1 |-> a[k]]
    BY <1>4, <2>4
  <2>8. a = r
    BY <2>6, <2>7
  <2> QED
    BY <2>2, <2>3, <2>8 DEF a
<1> QED
  BY <1>4, <1>5 DEF n, s, m

\* A step of the client
LEMMA ClientStepDown ==
  ASSUME TunnelInvariant, NEW h, DownInv(h),
         NEW c, Heard(h, user.out, client, c), ClientBecomes(c),
         answers' \subseteq answers, user' = user, downRead' = downRead,
         scenario' = scenario
  PROVE  DownInv(h)' /\ Writes(h, client, client')
<1> DEFINE d == [c EXCEPT !.tx = {}]
           o == user.out
<1>1. /\ ClientState(h, o, c) /\ Grows(client, c) /\ Writes(h, client, c)
      /\ GoodClient(c) /\ c \in ClientRecord
  BY DEF Heard, ClientState, GoodClient
<1>2. client' = d /\ queries' = Fresh(queries \cup c.tx, c.num) /\ c.num <= scenario.queries
  BY DEF ClientBecomes
<1>3. /\ d.inp = c.inp /\ d.num = c.num /\ d.written = c.written /\ d.tx = {}
      /\ d.out = c.out /\ d \in ClientRecord
  BY <1>1 DEF ClientRecord
<1> HIDE DEF d
<1>4. GoodClient(d)
  BY <1>1, <1>3 DEF GoodClient, is_sending
<1>5. GoodClient(client) /\ DownState(h, client, ReadDown, user, answers)
  BY DEF TunnelInvariant, DownInv
<1>6. /\ GoodUser(user) /\ OutDown(h, client, ReadDown, o)
      /\ \A i \in DOMAIN user.cache : DownBody(h, o, client, user.cache[i].body)
      /\ \A a \in user.tx : DownBody(h, o, client, a.body)
      /\ \A a \in answers : DownBody(h, o, client, a.body)
      /\ answers \subseteq AnswerRecord
      /\ Delivered(user.acked, client.written)
  BY <1>5 DEF DownState
<1>7. Grows(client, d)
  BY <1>1, <1>3 DEF Grows
<1>8. c.num <= MaxQueries
  <2>1. scenario.queries \in Nat /\ scenario.queries <= MaxQueries
    BY TunnelAssumption, QueryBoundAssumption DEF TunnelInvariant
  <2>2. MaxQueries \in Nat /\ c.num \in Nat
    BY <1>1, QueryBoundAssumption DEF ClientRecord
  <2> QED
    BY <1>2, <2>1, <2>2
<1>9. Writes(h, client, d)
  BY <1>1, <1>3 DEF Writes
<1>10. OutDown(h, d, ReadDown, o)
  <2>1. GoodOut(o) /\ LineIs(h, ReadDown, o) /\ OutIs(h, client, o)
    BY <1>6 DEF OutDown
  <2>2. h.at \in Nat
    BY <2>1 DEF LineIs, DownHistory
  <2>3. OutIs(h, d, o)
    BY <1>4, <1>5, <1>7, <2>1, <2>2, OutStays
  <2>4. ClientDown(h, o, d)
    BY <1>1, <1>3 DEF ClientState, ClientDown
  <2> QED
    BY <2>1, <2>3, <2>4 DEF OutDown
<1>11. ASSUME NEW b \in BodyRecord, DownBody(h, o, client, b) PROVE DownBody(h, o, d, b)
  BY <1>4, <1>5, <1>7, <1>11, BodyStays
<1>12. \A i \in DOMAIN user.cache : DownBody(h, o, d, user.cache[i].body)
  <2>1. \A i \in DOMAIN user.cache : user.cache[i] \in CacheRecord
    BY <1>6 DEF GoodUser, UserRecord
  <2>2. \A i \in DOMAIN user.cache : user.cache[i].body \in BodyRecord
    BY <2>1 DEF CacheRecord
  <2> QED
    BY <1>6, <1>11, <2>2
<1>13. \A a \in user.tx : DownBody(h, o, d, a.body)
  <2>1. \A a \in user.tx : a.body \in BodyRecord
    BY <1>6 DEF GoodUser, UserRecord, AnswerRecord
  <2> QED
    BY <1>6, <1>11, <2>1
<1>14. \A a \in answers : DownBody(h, o, d, a.body)
  <2>1. \A a \in answers : a.body \in BodyRecord
    BY <1>6 DEF AnswerRecord
  <2> QED
    BY <1>6, <1>11, <2>1
<1>15. Delivered(user.acked, d.written)
  <2>1. client.written \in Seq(Packet)
    BY <1>5 DEF GoodClient, ClientRecord
  <2>2. CASE d.written = client.written
    BY <1>6, <2>2
  <2>3. CASE \E t \in 1 .. h.at : d.written = Append(client.written, h.line[t])
    <3>1. PICK t : d.written = Append(client.written, h.line[t])
      BY <2>3
    <3>2. ASSUME NEW p \in user.acked PROVE \E i \in DOMAIN d.written : d.written[i] = p
      <4>1. PICK i \in DOMAIN client.written : client.written[i] = p
        BY <1>6 DEF Delivered
      <4>2. i \in DOMAIN d.written /\ d.written[i] = p
        BY <2>1, <3>1, <4>1
      <4> QED
        BY <4>2
    <3> QED
      BY <3>2 DEF Delivered
  <2> QED
    BY <1>9, <2>2, <2>3 DEF Writes
<1>16. ASSUME NEW qry \in queries' PROVE DownQuery(d, qry)
  <2>1. qry \in queries \/ qry \in c.tx
    BY <1>2 DEF Fresh
  <2>2. CASE qry \in queries
    <3>1. NewQuery(qry) /\ DownQuery(client, qry)
      BY <2>2 DEF TunnelInvariant, DownInv
    <3> QED
      BY <1>4, <1>5, <1>7, <3>1, QueryStays
  <2>3. CASE qry \in c.tx
    <3>1. DownQuery(c, qry)
      BY <1>1, <2>3 DEF ClientState
    <3> QED
      BY <1>3, <3>1 DEF DownQuery
  <2> QED
    BY <2>1, <2>2, <2>3
<1>17. DownState(h, d, ReadDown, user, answers')
  BY <1>6, <1>10, <1>12, <1>13, <1>14, <1>15 DEF DownState
<1>18. ReadDown' = ReadDown /\ client' = d
  BY <1>2 DEF ReadDown
<1>19. DownInv(h)'
  <2>1. DownState(h, client', ReadDown', user', answers')
    BY <1>17, <1>18
  <2>2. downRead' \in 0 .. Len(scenario'.down) /\ Len(scenario'.down) < RecentSpan
    BY DEF DownInv
  <2>3. client'.num <= MaxQueries /\ \A qry \in queries' : DownQuery(client', qry)
    BY <1>3, <1>8, <1>16, <1>18
  <2> QED
    BY <2>1, <2>2, <2>3 DEF DownInv
<1> QED
  BY <1>9, <1>18, <1>19

LEMMA ClientNextDown ==
  ASSUME TunnelInvariant, NEW h, DownInv(h), ClientNext, scenario' = scenario
  PROVE  DownInv(h)' /\ Writes(h, client, client') /\ downRead' = downRead
<1> DEFINE o == user.out
<1>1. /\ ClientState(h, o, client) /\ GoodRead(ReadDown) /\ GoodOut(o)
      /\ LineIs(h, ReadDown, o) /\ answers \subseteq AnswerRecord
      /\ \A a \in answers : DownBody(h, o, client, a.body)
  <2>1. GoodClient(client) /\ client.tx = {}
    BY DEF TunnelInvariant
  <2> QED
    BY <2>1, ReadIsGood DEF DownInv, DownState, OutDown, ClientState
<1>2. \A p \in UpNext : p \in Packet
  BY NextPacketType
<1>3. CASE \E p \in UpNext : ClientTun(p)
  <2>1. PICK p \in UpNext : ClientTun(p)
    BY <1>3
  <2> DEFINE c == client_tunnel_tun(client, p)
  <2>2. /\ ~ is_sending(client) /\ ClientBecomes(c) /\ user' = user /\ downRead' = downRead
        /\ answers' \subseteq answers
    BY <2>1 DEF ClientTun, Fresh
  <2>3. Heard(h, o, client, c)
    BY <1>1, <1>2, <2>2, ClientTunHeard
  <2> HIDE DEF c
  <2> QED
    BY <2>2, <2>3, ClientStepDown
<1>4. CASE ClientDiscards
  <2>1. /\ client' = client /\ user' = user /\ queries' = queries /\ answers' = answers
        /\ downRead' = downRead
    BY <1>4 DEF ClientDiscards
  <2>2. ReadDown' = ReadDown
    BY <2>1 DEF ReadDown
  <2> QED
    BY <2>1, <2>2 DEF DownInv, Writes
<1>5. CASE \E ans \in answers : ClientDns(ans)
  <2>1. PICK ans \in answers : ClientDns(ans)
    BY <1>5
  <2> DEFINE c == client_tunnel_dns(client, ans)
  <2>2. /\ ClientBecomes(c) /\ user' = user /\ downRead' = downRead
        /\ answers' \subseteq answers
    BY <2>1 DEF ClientDns, Fresh
  <2>3. Heard(h, o, client, c)
    BY <1>1, ClientDnsHeard
  <2> HIDE DEF c
  <2> QED
    BY <2>2, <2>3, ClientStepDown
<1>6. CASE \E p \in UpNext, ans \in answers : ClientTunAndDns(p, ans)
  <2>1. PICK p \in UpNext, ans \in answers : ClientTunAndDns(p, ans)
    BY <1>6
  <2> DEFINE c == client_tunnel_dns(client_tunnel_tun(client, p), ans)
  <2>2. /\ ~ is_sending(client) /\ ClientBecomes(c) /\ user' = user /\ downRead' = downRead
        /\ answers' \subseteq answers
    BY <2>1 DEF ClientTunAndDns, Fresh
  <2>3. Heard(h, o, client, c)
    BY <1>1, <1>2, <2>2, TunAndDnsHeard
  <2> HIDE DEF c
  <2> QED
    BY <2>2, <2>3, ClientStepDown
<1>7. CASE ClientTimeout
  <2> DEFINE c == Timeout(client)
  <2>1. /\ ClientBecomes(c) /\ user' = user /\ downRead' = downRead
        /\ answers' \subseteq answers
    BY <1>7 DEF ClientTimeout, Fresh
  <2>2. Heard(h, o, client, c)
    BY <1>1, TimeoutHeard
  <2> HIDE DEF c
  <2> QED
    BY <2>1, <2>2, ClientStepDown
<1>8. CASE ClientError
  <2> DEFINE c == PingSoon(client)
  <2>1. /\ ClientBecomes(c) /\ user' = user /\ downRead' = downRead
        /\ answers' \subseteq answers
    BY <1>8 DEF ClientError
  <2>2. Heard(h, o, client, c)
    BY <1>1, SoonHeard
  <2> HIDE DEF c
  <2> QED
    BY <2>1, <2>2, ClientStepDown
<1> QED
  BY <1>3, <1>4, <1>5, <1>6, <1>7, <1>8 DEF ClientNext

\* A step of iodined
LEMMA IodinedDown ==
  ASSUME TunnelInvariant, NEW h, DownInv(h), IodinedNext, scenario' = scenario
  PROVE  \E v, more : /\ Served(client, more, v, answers)
                      /\ UserBecomes(v)
                      /\ queries' \subseteq queries /\ client' = client
                      /\ ReadDown' = more /\ downRead' \in 0 .. Len(scenario.down)
                      /\ downRead' = downRead \/ downRead' = downRead + 1
<1> DEFINE head == LoopHead(user)
           read == ReadDown
<1>1. /\ Peer(client, read) /\ GoodRead(read) /\ downRead \in 0 .. Len(scenario.down)
      /\ Served(client, read, user, answers)
      /\ \A p \in DownNext :
           /\ p \in Packet /\ downRead + 1 \in 0 .. Len(scenario.down)
           /\ GoodRead(Append(read, p)) /\ Peer(client, Append(read, p))
           /\ Append(read, p) = [k \in 1 .. downRead + 1 |-> scenario.down[k]]
  BY ReadIsGood DEF TunnelInvariant, DownInv, Served, Peer
<1>2. Served(client, read, head, answers)
  BY <1>1, LoopHeadServed
<1>3. \A qry \in queries : NewQuery(qry) /\ DownQuery(client, qry)
  BY DEF TunnelInvariant, DownInv
<1>4. downRead' = downRead => ReadDown' = read
  BY DEF ReadDown
<1>5. \A p \in DownNext : downRead' = downRead + 1 => ReadDown' = Append(read, p)
  BY <1>1 DEF ReadDown
<1> HIDE DEF read, head
<1>6. \A p \in DownNext : Served(client, Append(read, p), iodined_tunnel_tun(head, p), answers)
  BY <1>1, <1>2, TunServed
<1>7. CASE \E p \in DownNext : IodinedTun(p)
  <2>1. PICK p \in DownNext : IodinedTun(p)
    BY <1>7
  <2> DEFINE m == iodined_tunnel_tun(head, p)
             v == LoopEnd(m)
             more == Append(read, p)
  <2>2. /\ UserBecomes(v) /\ queries' \subseteq queries /\ client' = client
        /\ downRead' = downRead + 1
    BY <2>1 DEF IodinedTun, head
  <2>3. Served(client, more, m, answers) /\ Peer(client, more) /\ ReadDown' = more
    BY <1>1, <1>5, <1>6, <2>2
  <2> HIDE DEF m
  <2>4. Served(client, more, v, answers)
    BY <2>3, SendIfHeldServed
  <2> HIDE DEF v, more
  <2> QED
    BY <1>1, <2>2, <2>3, <2>4
<1>8. CASE \E qry \in queries : IodinedDns(qry)
  <2>1. PICK qry \in queries : IodinedDns(qry)
    BY <1>8
  <2> DEFINE m == iodined_tunnel_dns(head, qry)
             v == LoopEnd(m)
  <2>2. /\ UserBecomes(v) /\ queries' \subseteq queries /\ client' = client
        /\ downRead' = downRead
    BY <2>1 DEF IodinedDns, head
  <2>3. Served(client, read, m, answers)
    BY <1>1, <1>2, <1>3, DnsServed
  <2> HIDE DEF m
  <2>4. Served(client, read, v, answers)
    BY <1>1, <2>3, SendIfHeldServed
  <2> HIDE DEF v
  <2> QED
    BY <1>1, <1>4, <2>2, <2>4
<1>9. CASE \E p \in DownNext, qry \in queries : IodinedTunAndDns(p, qry)
  <2>1. PICK p \in DownNext, qry \in queries : IodinedTunAndDns(p, qry)
    BY <1>9
  <2> DEFINE l == iodined_tunnel_tun(head, p)
             m == iodined_tunnel_dns(l, qry)
             v == LoopEnd(m)
             more == Append(read, p)
  <2>2. /\ UserBecomes(v) /\ queries' \subseteq queries /\ client' = client
        /\ downRead' = downRead + 1
    BY <2>1 DEF IodinedTunAndDns, head
  <2>3. Served(client, more, l, answers) /\ Peer(client, more) /\ ReadDown' = more
    BY <1>1, <1>5, <1>6, <2>2
  <2> HIDE DEF l
  <2>4. Served(client, more, m, answers)
    BY <1>3, <2>3, DnsServed
  <2> HIDE DEF m
  <2>5. Served(client, more, v, answers)
    BY <2>3, <2>4, SendIfHeldServed
  <2> HIDE DEF v, more
  <2> QED
    BY <1>1, <2>2, <2>3, <2>5
<1>10. CASE IodinedIdle
  <2> DEFINE v == LoopEnd(head)
  <2>1. /\ UserBecomes(v) /\ queries' \subseteq queries /\ client' = client
        /\ downRead' = downRead
    BY <1>10 DEF IodinedIdle, head
  <2>2. Served(client, read, v, answers)
    BY <1>1, <1>2, SendIfHeldServed
  <2> HIDE DEF v
  <2> QED
    BY <1>1, <1>4, <2>1, <2>2
<1> QED
  BY <1>7, <1>8, <1>9, <1>10 DEF IodinedNext

LEMMA IodinedNextDown ==
  ASSUME TunnelInvariant, NEW h, DownInv(h), IodinedNext, scenario' = scenario
  PROVE  /\ \E g : DownInv(g)'
         /\ client' = client
         /\ downRead' = downRead \/ downRead' = downRead + 1
<1>1. PICK v, more : /\ Served(client, more, v, answers)
                     /\ UserBecomes(v)
                     /\ queries' \subseteq queries /\ client' = client
                     /\ ReadDown' = more /\ downRead' \in 0 .. Len(scenario.down)
                     /\ downRead' = downRead \/ downRead' = downRead + 1
  BY IodinedDown
<1>2. PICK g : DownState(g, client, more, v, answers)
  BY <1>1 DEF Served
<1> DEFINE w == [v EXCEPT !.tx = {}]
<1>3. user' = w /\ answers' = Fresh(answers \cup v.tx, client.num)
  BY <1>1 DEF UserBecomes
<1>4. /\ GoodUser(v) /\ v \in UserRecord /\ OutDown(g, client, more, v.out)
      /\ \A i \in DOMAIN v.cache : DownBody(g, v.out, client, v.cache[i].body)
      /\ \A a \in v.tx : DownBody(g, v.out, client, a.body)
      /\ \A a \in answers : DownBody(g, v.out, client, a.body)
      /\ answers \subseteq AnswerRecord /\ v.tx \subseteq AnswerRecord
      /\ Delivered(v.acked, client.written)
  BY <1>2 DEF DownState, GoodUser, UserRecord
<1>5. /\ w.out = v.out /\ w.cache = v.cache /\ w.tx = {} /\ w.acked = v.acked
  BY <1>4 DEF UserRecord
<1>6. GoodUser(user')
  BY IodinedNextKeeps DEF TunnelInvariant
<1> HIDE DEF w
<1>7. answers' \subseteq answers \cup v.tx
  BY <1>3 DEF Fresh
<1>8. DownState(g, client, more, user', answers')
  BY <1>3, <1>4, <1>5, <1>6, <1>7 DEF DownState
<1>9. /\ downRead' \in 0 .. Len(scenario'.down) /\ Len(scenario'.down) < RecentSpan
      /\ client'.num <= MaxQueries
      /\ \A qry \in queries' : DownQuery(client', qry)
  BY <1>1 DEF DownInv
<1>10. DownState(g, client', ReadDown', user', answers')
  BY <1>1, <1>8
<1>11. DownInv(g)'
  BY <1>9, <1>10 DEF DownInv
<1> QED
  BY <1>1, <1>11

\* A copy that a relay makes acknowledges what the first did.
LEMMA RepeatDown ==
  ASSUME TunnelInvariant, NEW qry \in queries, Repeat(qry), scenario' = scenario,
         NEW h, DownInv(h)
  PROVE  DownInv(h)' /\ client' = client /\ downRead' = downRead
<1> DEFINE copy == [qry EXCEPT !.id = copies + 1]
<1>1. qry \in QueryRecord
  BY DEF TunnelInvariant, NewQuery
<1>2. copy.num = qry.num /\ copy.ack = qry.ack
  BY <1>1 DEF QueryRecord
<1>3. /\ queries' = queries \cup {copy} /\ client' = client /\ user' = user
      /\ answers' = answers /\ downRead' = downRead
  BY DEF Repeat
<1> HIDE DEF copy
<1>4. DownQuery(client, copy)
  BY <1>2 DEF DownInv, DownQuery
<1>5. ReadDown' = ReadDown
  BY <1>3 DEF ReadDown
<1>6. DownInv(h)'
  BY <1>3, <1>4, <1>5 DEF DownInv
<1> QED
  BY <1>3, <1>6

NoDownHistory == [line |-> << >>, at |-> 0]

LEMMA InitDown ==
  ASSUME Init, TunnelInvariant, Len(scenario.down) < RecentSpan
  PROVE  DownInv(NoDownHistory)
<1> DEFINE h == NoDownHistory
           o == user.out
<1>1. h.line = << >> /\ Len(h.line) = 0 /\ h.at = 0 /\ h \in DownHistory
  <2>1. << >> \in Seq(Packet)
    OBVIOUS
  <2> QED
    BY <2>1 DEF NoDownHistory, DownHistory
<1> HIDE DEF h
<1>2. /\ downRead = 0 /\ queries = {} /\ answers = {}
      /\ client.num = 0 /\ client.written = << >>
      /\ client.inp.seqno = 0 /\ client.inp.fragment = 0 /\ client.inp.buf = << >>
  BY DEF Init, FreshClient
<1>3. /\ user.cache = << >> /\ user.tx = {} /\ user.acked = {}
      /\ ~ Sending(o) /\ o.seqno = 0 /\ o.fragment = 0 /\ o.filled = 0
  BY DEF Init, FreshUser, EmptyOut, Sending
<1>4. scenario.down \in Seq(Packet)
  BY TunnelAssumption DEF TunnelInvariant
<1>5. downRead \in 0 .. Len(scenario.down) /\ Len(ReadDown) \in Nat
  <2>1. ReadDown = << >> \/ ReadDown \in Seq(Packet)
    BY <1>2 DEF ReadDown
  <2> QED
    BY <1>2, <1>4, <2>1
<1>6. GoodUser(user) /\ GoodOut(o)
  BY DEF TunnelInvariant, GoodUser
<1>7. LineIs(h, ReadDown, o)
  BY <1>1, <1>3, <1>5 DEF LineIs
<1>8. OutIs(h, client, o)
  BY <1>1, <1>2, <1>3 DEF OutIs
<1>9. ClientDown(h, o, client)
  BY <1>1, <1>2, <1>3 DEF ClientDown, ClientSkipped, IsOver
<1>10. DOMAIN user.cache = {}
  BY <1>3
<1>11. DownState(h, client, ReadDown, user, answers)
  BY <1>2, <1>3, <1>6, <1>7, <1>8, <1>9, <1>10 DEF DownState, OutDown, Delivered
<1>12. client.num <= MaxQueries
  BY <1>2, QueryBoundAssumption
<1> QED
  BY <1>2, <1>5, <1>11, <1>12 DEF DownInv, h

\* The invariant of this direction
DownInvariant == TunnelInvariant /\ \E h : DownInv(h)

\* A step may write the packet it should, or reads one from tun.
LEMMA StepDown ==
  ASSUME TunnelInvariant, Next, NEW h, DownInv(h)
  PROVE  /\ \E g : DownInv(g)'
         /\ \/ Writes(h, client, client') /\ downRead' = downRead
            \/ client' = client /\ downRead' = downRead + 1
<1>1. scenario' = scenario
  BY DEF Next
<1>2. CASE ClientNext
  BY <1>1, <1>2, ClientNextDown
<1>3. CASE IodinedNext
  <2>1. /\ \E g : DownInv(g)'
        /\ client' = client
        /\ downRead' = downRead \/ downRead' = downRead + 1
    BY <1>1, <1>3, IodinedNextDown
  <2> QED
    BY <2>1 DEF Writes
<1>4. CASE \E qry \in queries : Repeat(qry)
  <2>1. PICK qry \in queries : Repeat(qry)
    BY <1>4
  <2>2. DownInv(h)' /\ client' = client /\ downRead' = downRead
    BY <1>1, <2>1, RepeatDown
  <2> QED
    BY <2>2 DEF Writes
<1> QED
  BY <1>2, <1>3, <1>4 DEF Next

LEMMA DownInvariantHolds ==
  ASSUME \A s \in Scenarios : Len(s.down) < RecentSpan
  PROVE  Spec => []DownInvariant
<1> DEFINE E == \E h : DownInv(h)
<1>1. TunnelInvariant /\ Init => E
  BY InitDown DEF TunnelInvariant
<1>2. TunnelInvariant /\ E /\ [Next]_vars => E'
  <2> SUFFICES ASSUME TunnelInvariant, NEW h, DownInv(h), [Next]_vars PROVE E'
    BY DEF E
  <2>1. CASE UNCHANGED vars
    <3>1. /\ client' = client /\ user' = user /\ queries' = queries /\ scenario' = scenario
          /\ answers' = answers /\ downRead' = downRead
      BY <2>1 DEF vars
    <3>2. ReadDown' = ReadDown
      BY <3>1 DEF ReadDown
    <3>3. DownInv(h)'
      BY <3>1, <3>2 DEF DownInv
    <3> QED
      BY <3>3
  <2>2. CASE Next
    BY <2>2, StepDown
  <2> QED
    BY <2>1, <2>2
<1> HIDE DEF E
<1>3. Spec => []E
  BY <1>1, <1>2, TunnelInvariantHolds, PTL DEF Spec
<1>4. TunnelInvariant /\ E => DownInvariant
  BY DEF E, DownInvariant
<1> QED
  BY <1>3, <1>4, TunnelInvariantHolds, PTL

-----------------------------------------------------------------------------
(***************************************************************************)
(* What follows from it.                                                   *)
(***************************************************************************)
\* No ack, in an answer or in a query, makes an end drop a packet the other
\* has not put together and written to tun (handle_null_request and tunnel_dns
\* upstream, process_downstream_ack and tunnel_dns downstream).
THEOREM AcknowledgedMeansDelivered ==
  ASSUME MaxLag < RecentSpan, \A s \in Scenarios : Len(s.down) < RecentSpan
  PROVE  Spec => []AckedMeansDelivered
<1>1. UpInvariant /\ DownInvariant => AckedMeansDelivered
  BY DEF UpInvariant, UpInv, DownInvariant, DownInv, DownState, Delivered,
         AckedMeansDelivered
<1> QED
  BY <1>1, UpInvariantHolds, DownInvariantHolds, PTL

\* The packet the client writes next was read by iodined after the last it
\* wrote, or is that one again.
LEMMA WritesInOrder ==
  ASSUME TunnelInvariant, NEW h, DownInv(h), Writes(h, client, client'),
         downRead' = downRead, scenario' = scenario
  PROVE  DownLine!Next \/ Numbers(client'.written) = Numbers(client.written)
<1> DEFINE w == client.written
           n == Len(w)
<1>1. CASE client'.written = w
  BY <1>1
<1>2. CASE \E t \in 1 .. h.at : /\ client'.written = Append(w, h.line[t])
                                /\ IsNewOrAgain(client, h.line[t], 0)
  <2>1. PICK t \in 1 .. h.at : /\ client'.written = Append(w, h.line[t])
                               /\ IsNewOrAgain(client, h.line[t], 0)
    BY <1>2
  <2> DEFINE p == h.line[t]
             x == p[1]
  <2>2. /\ GoodRead(ReadDown) /\ GoodOut(user.out) /\ LineIs(h, ReadDown, user.out)
        /\ downRead \in Nat /\ Len(ReadDown) = downRead /\ w \in Seq(Packet)
    BY ReadIsGood DEF DownInv, DownState, OutDown, TunnelInvariant, GoodClient, ClientRecord
  <2>3. t \in 1 .. Len(h.line) /\ p \in Packet
    BY <2>1, <2>2, FewPackets
  <2>4. x \in 1 .. downRead /\ ReadDown[x] = p
    <3>1. ReadDown \in Seq(Packet)
      BY <2>2 DEF GoodRead
    <3> QED
      BY <2>2, <2>3, <3>1 DEF LineIs
  <2>5. scenario.down[x] = p /\ x \in DOMAIN scenario.down
    <3>1. scenario.down \in Seq(Packet)
      BY TunnelAssumption DEF TunnelInvariant
    <3>2. downRead \in 0 .. Len(scenario.down) /\ Len(scenario.down) \in Nat
      BY <3>1 DEF DownInv
    <3>3. x \in 1 .. Len(scenario.down)
      <4> HIDE DEF x
      <4> QED
        BY <2>4, <3>2
    <3>4. ReadDown[x] = scenario.down[x]
      <4> HIDE DEF x
      <4> QED
        BY <2>4 DEF ReadDown
    <3> QED
      BY <2>4, <3>1, <3>3, <3>4
  <2>6. /\ Numbers(client'.written) = Append(Numbers(w), x)
        /\ w = << >> => DownLine!Last = 0
        /\ w # << >> => DownLine!Last = w[n][1]
    BY <2>1, <2>2, <2>3, NumbersAppend DEF DownLine!Last
  <2>7. x > DownLine!Last \/ (x = DownLine!Last /\ x \in OneFragment)
    <3>1. CASE WrittenBefore(w, p)
      <4>1. w # << >> => w[n][1] \in 1 .. x - 1
        BY <3>1 DEF WrittenBefore
      <4> DEFINE l == w[n][1]
      <4> HIDE DEF l, x, n
      <4>2. w # << >> => x > DownLine!Last
        BY <2>2, <2>4, <2>6, <4>1 DEF l
      <4>3. w = << >> => x > DownLine!Last
        BY <2>2, <2>4, <2>6
      <4> QED
        BY <4>2, <4>3
    <3>2. CASE w # << >> /\ w[n] = p /\ PacketLen[p] <= FragSize
      <4>1. x \in OneFragment
        BY <2>5, <3>2 DEF OneFragment
      <4> QED
        BY <2>6, <3>2, <4>1
    <3> QED
      BY <2>1, <3>1, <3>2 DEF IsNewOrAgain
  <2>8. OneFragment' = OneFragment
    BY DEF OneFragment
  <2> HIDE DEF x
  <2>9. DownLine!Arrive(x)
    BY <2>6, <2>7, <2>8 DEF DownLine!Arrive
  <2> QED
    BY <2>4, <2>9 DEF DownLine!Next
<1> QED
  BY <1>1, <1>2 DEF Writes

\* What the client writes to its tun device is what the server read from its
\* own, in that order and each packet whole, but that one of a single fragment
\* may come twice in a row (tunnel_dns of client.c, process_downstream_ack,
\* send_chunk_or_dataless).
THEOREM DownstreamIsAnIpLink ==
  ASSUME \A s \in Scenarios : Len(s.down) < RecentSpan
  PROVE  Spec => ImplementsDownLine
<1> DEFINE line == << downRead, Numbers(client.written), OneFragment >>
<1>1. Init => DownLine!Init
  BY DEF Init, FreshClient, Numbers, DownLine!Init
<1>2. DownInvariant /\ [Next]_vars => [DownLine!Next]_line
  <2> SUFFICES ASSUME DownInvariant, [Next]_vars
               PROVE  DownLine!Next \/ line' = line
    OBVIOUS
  <2>1. PICK h : DownInv(h)
    BY DEF DownInvariant
  <2>2. TunnelInvariant
    BY DEF DownInvariant
  <2>3. scenario' = scenario /\ OneFragment' = OneFragment
    BY DEF Next, vars, OneFragment
  <2>4. CASE UNCHANGED vars
    BY <2>3, <2>4 DEF vars
  <2>5. CASE Next
    <3>1. CASE Writes(h, client, client') /\ downRead' = downRead
      BY <2>1, <2>2, <2>3, <3>1, WritesInOrder
    <3>2. CASE client' = client /\ downRead' = downRead + 1
      BY <2>3, <3>2 DEF DownLine!Next, DownLine!Send
    <3> QED
      BY <2>1, <2>2, <2>5, <3>1, <3>2, StepDown
  <2> QED
    BY <2>4, <2>5
<1> QED
  BY <1>1, <1>2, DownInvariantHolds, PTL DEF Spec, ImplementsDownLine, DownLine!Spec
=============================================================================
