--------------------------- MODULE IodinedUserOps ---------------------------
(***************************************************************************)
(* One user of iodined in the tunnel phase (users[] in user.h): the        *)
(* handlers of ping and data queries in handle_null_request, the packets   *)
(* from tun, and the select loop, as operators from a record to a record.  *)
(*                                                                         *)
(*   lazy     as the handshake has left it                                 *)
(*   out      outpacket, outfragresent, outpacketq                         *)
(*   inp      inpacket: what was put together so far, seqno, fragment      *)
(*   q        the query waiting for an answer; soonq, q_sendrealsoon       *)
(*   soonnew  q_sendrealsoon_new                                           *)
(*   cache    dnscache, most recent first                                  *)
(*   qmem     qmemping and qmemdata, most recent first                     *)
(*   tx       the answers write_dns sent in this step                      *)
(*   written  the packets write_tun wrote so far                           *)
(*   acked    ghost: the packets that left outpacket by their last ack     *)
(***************************************************************************)
EXTENDS TunnelMessages

CONSTANTS FragSize,      \* users[].fragsize, as the handshake has left it
          DnscacheLen,   \* DNSCACHE_LEN
          QmemLen        \* QMEMPING_LEN and QMEMDATA_LEN

ASSUME UserAssumption ==
  /\ FragSize \in FragSizes
  /\ DnscacheLen \in Nat \ {0}
  /\ QmemLen \in Nat \ {0}

\* As the 'V' request and the 'L', 'O' and 'N' requests after it leave it.
FreshUser(lazy) ==
  [lazy |-> lazy, out |-> EmptyOut,
   inp |-> [buf |-> << >>, seqno |-> 0, fragment |-> 0],
   q |-> NoQuery, soonq |-> NoQuery, soonnew |-> FALSE,
   cache |-> << >>, qmem |-> [k \in Kinds |-> << >>],
   tx |-> {}, written |-> << >>, acked |-> {}]

\* A ring of len places that is searched whole: the newest len values
Remember(ring, x, len) == LET all == << x >> \o ring
                          IN  SubSeq(all, 1, Smaller(Len(all), len))

-----------------------------------------------------------------------------
\* send_chunk_or_dataless on the query in field f ("q" or "soonq"): the user
\* after it, and the value returned.
AnswerBody(u, chunk) ==
  Body(Header(u.inp), Header(chunk), chunk.last,
       CellsOf(chunk.pkt, chunk.from, chunk.len))

send_chunk_or_dataless(u, f) ==
  LET sent == send_next_chunk(u.out, FragSize)
      body == AnswerBody(u, sent.chunk)
      num  == u[f].num
      kind == u[f].kind
  IN  [again |-> sent.again,
       user  |->
         [u EXCEPT
            !.out = sent.out,
            !.tx = u.tx \cup {Answer(num, id, body) :
                                id \in {u[f].id, u[f].id2} \ {NoId}},
            !.qmem[kind] = Remember(u.qmem[kind], num, QmemLen),
            !.cache = Remember(u.cache, [num |-> num, body |-> body],
                               DnscacheLen),
            ![f] = NoQuery]]

SendOn(u, f) == send_chunk_or_dataless(u, f).user

\* "if (... id != 0) send_chunk_or_dataless", the value returned ignored
SendIfHeld(u, f) == IF Held(u[f]) THEN SendOn(u, f) ELSE u

-----------------------------------------------------------------------------
\* The first half of both handlers: a query that was seen before.
InCache(u, num) == \E i \in DOMAIN u.cache : u.cache[i].num = num

answer_from_dnscache(u, qry) ==
  LET i == CHOOSE j \in DOMAIN u.cache :
             /\ u.cache[j].num = qry.num
             /\ \A k \in 1 .. j - 1 : u.cache[k].num # qry.num
  IN  [u EXCEPT !.tx = u.tx \cup {Answer(qry.num, qry.id, u.cache[i].body)}]

InQmem(u, qry) ==
  \E i \in DOMAIN u.qmem[qry.kind] : u.qmem[qry.kind][i] = qry.num

answer_from_qmem(u, qry) ==
  [u EXCEPT !.tx = u.tx \cup {Answer(qry.num, qry.id, QmemBody)}]

IsDuplicateOf(qry, held) == Held(held) /\ held.num = qry.num

SeenBefore(u, qry) ==
  \/ InCache(u, qry.num)
  \/ InQmem(u, qry)
  \/ IsDuplicateOf(qry, u.q) /\ u.lazy
  \/ IsDuplicateOf(qry, u.soonq)

\* Wrong: the id of a repeated query is not remembered.
HandleDuplicate_Ignored(u, qry) ==
  CASE InCache(u, qry.num)              -> answer_from_dnscache(u, qry)
    [] ~ InCache(u, qry.num) /\ InQmem(u, qry)
                                        -> answer_from_qmem(u, qry)
    [] OTHER                            -> u

HandleDuplicate(u, qry) ==
  CASE InCache(u, qry.num)              -> answer_from_dnscache(u, qry)
    [] ~ InCache(u, qry.num) /\ InQmem(u, qry)
                                        -> answer_from_qmem(u, qry)
    [] OTHER ->
         IF IsDuplicateOf(qry, u.q) /\ u.lazy
         THEN [u EXCEPT !.q.id2 = qry.id]
         ELSE [u EXCEPT !.soonq.id2 = qry.id]

-----------------------------------------------------------------------------
\* process_downstream_ack, with the ghost of what was acknowledged
Acknowledge(u, ack) ==
  LET o == u.out
      completes == /\ IsAwaitedAck(o, ack.seqno, ack.fragment)
                   /\ o.offset + o.sentlen >= PacketLen[o.pkt]
  IN  [u EXCEPT
         !.out = process_downstream_ack(o, ack.seqno, ack.fragment),
         !.acked = IF completes THEN u.acked \cup {o.pkt} ELSE u.acked]

\* handle_null_request, 'P', of a ping seen for the first time
HandlePing(u, qry) ==
  LET a == SendIfHeld(Acknowledge(u, qry.ack), "soonq")
      s == send_chunk_or_dataless(a, "q")
      didsend == Held(a.q) /\ ~ s.again
      b == [(IF Held(a.q) THEN s.user ELSE a) EXCEPT !.q = qry]
  IN  IF (~ didsend /\ Sending(b.out)) \/ ~ u.lazy THEN SendOn(b, "q") ELSE b

-----------------------------------------------------------------------------
\* handle_full_packet, the packet not being for another user
handle_full_packet(u) ==
  [u EXCEPT
     !.written = IF \E p \in Packet : IsPacket(u.inp.buf, p)
                 THEN Append(u.written, u.inp.buf[1][1])
                 ELSE u.written,
     !.inp.buf = << >>]

SameUpstream(u, up)   == up.seqno = u.inp.seqno
\* Wrong: a fragment of an earlier packet is taken for a new one.
RecentUp_Unnoticed(u, up) == FALSE

RepeatedUp(u, up)     == SameUpstream(u, up) /\ up.fragment <= u.inp.fragment
RecentUp(u, up)       == /\ ~ SameUpstream(u, up)
                         /\ recent_seqno(u.inp.seqno, up.seqno)

upstream_ok(u, up) == ~ RepeatedUp(u, up) /\ ~ RecentUp(u, up)

ReceiveUpstream(u, qry) ==
  LET kept == IF SameUpstream(u, qry.up) THEN u.inp.buf ELSE << >>
      v == [u EXCEPT !.inp = [buf |-> kept \o qry.data,
                              seqno |-> qry.up.seqno,
                              fragment |-> qry.up.fragment]]
  IN  IF ~ upstream_ok(u, qry.up) THEN u
      ELSE IF qry.last THEN handle_full_packet(v) ELSE v

\* q moves to q_sendrealsoon, to be answered when tun had its chance
Postpone(u) ==
  [u EXCEPT !.soonq = u.q, !.soonnew = TRUE, !.q = NoQuery]

\* A pair of the user and didsend, which stays FALSE when a new packet is to
\* be sent immediately
SendNow(u, f) == LET s == send_chunk_or_dataless(u, f) IN << s.user, ~ s.again >>

AnswerPutOff(u) == IF Held(u.soonq) THEN SendNow(u, "soonq") ELSE << u, FALSE >>

\* "get rid of it to store the new query": ok and last are what is known of
\* the fragment that came with the new one.
MakeRoom(u, didsend, ok, last) ==
  IF ~ Held(u.q) THEN << u, didsend >>
  ELSE IF \/ Sending(u.out) /\ ~ didsend
          \/ ok /\ ~ last /\ ~ didsend
          \/ ~ ok /\ ~ didsend
          \/ ~ u.lazy
       THEN SendNow(u, "q")
       ELSE << Postpone(u), TRUE >>

\* What becomes of the new query, which is stored
AnswerOrKeep(u, didsend, ok, last) ==
  IF Sending(u.out) /\ ~ didsend THEN SendOn(u, "q")
  ELSE IF didsend /\ u.lazy THEN u
  ELSE IF ok /\ last THEN Postpone(u)
  ELSE SendOn(u, "q")

\* handle_null_request, data, of a query seen for the first time
HandleData(u, qry) ==
  LET ok    == upstream_ok(u, qry.up)
      soon  == AnswerPutOff(ReceiveUpstream(Acknowledge(u, qry.ack), qry))
      roomy == MakeRoom(soon[1], soon[2], ok, qry.last)
  IN  AnswerOrKeep([roomy[1] EXCEPT !.q = qry], roomy[2], ok, qry.last)

-----------------------------------------------------------------------------
\* Wrong: a packet waits for the next query though one is at hand.
iodined_tunnel_tun_NotSent(u, p) == [u EXCEPT !.out = AcceptPacket(u.out, p)]

\* tunnel_tun, for a packet to this user
iodined_tunnel_tun(u, p) ==
  LET started == [u EXCEPT !.out = AcceptPacket(u.out, p)]
  IN  IF Sending(u.out) \/ ~ (Held(u.q) \/ Held(u.soonq)) THEN started
      ELSE SendOn(started, IF Held(u.soonq) THEN "soonq" ELSE "q")

\* tunnel_dns: read_dns with an id of 0 is dropped by the handlers, and no
\* query of the model has it.
iodined_tunnel_dns(u, qry) ==
  IF SeenBefore(u, qry) THEN HandleDuplicate(u, qry)
  ELSE IF qry.kind = "ping" THEN HandlePing(u, qry) ELSE HandleData(u, qry)

\* all_users_waiting_to_send, of the only user
all_users_waiting_to_send(u) == u.out.filled >= 1

\* Wrong: q_sendrealsoon_new is never reset.
LoopHead_NewStays(u) == u

\* The head and the end of an iteration of the select loop of tunnel()
LoopHead(u) == [u EXCEPT !.soonnew = FALSE]
LoopEnd(u)  == IF Held(u.soonq) /\ ~ u.soonnew THEN SendOn(u, "soonq") ELSE u

-----------------------------------------------------------------------------
\* What the properties say of a user: it holds this copy of a query ...
HasCopy(u, num, id) ==
  \E f \in {"q", "soonq"} : u[f].num = num /\ id \in {u[f].id, u[f].id2} \ {NoId}

\* ... or it holds it as the second of two, in id2 ...
IsSecondCopy(u, num, id) ==
  \E f \in {"q", "soonq"} : u[f].num = num /\ u[f].id2 = id /\ id # NoId

\* ... and these are the queries it holds or recognizes.
Remembered(u) ==
  {u[f].num : f \in {g \in {"q", "soonq"} : Held(u[g])}}
    \cup {u.cache[k].num : k \in DOMAIN u.cache}
    \cup UNION {{u.qmem[kind][k] : k \in DOMAIN u.qmem[kind]} : kind \in Kinds}
=============================================================================
