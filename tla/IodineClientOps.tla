-------------------------- MODULE IodineClientOps ---------------------------
(***************************************************************************)
(* The client in the tunnel phase (the statics of client.c): tunnel_tun,   *)
(* tunnel_dns and the timeout of client_tunnel_cb, as operators from a     *)
(* record to a record, for a client that talks DNS (CONN_DNS_NULL).        *)
(*                                                                         *)
(*   lazymode as the handshake has left it                                 *)
(*   num      queries sent so far: chunkid is the id of the last           *)
(*   out      outpkt and outchunkresent                                    *)
(*   inp      inpkt                                                        *)
(*   soon     send_ping_soon # 0; how many milliseconds it is makes no     *)
(*            difference here, for any select() may time out               *)
(*   tx       the queries send_query sent in this step                     *)
(*   written  the packets write_tun wrote so far                           *)
(*   done     ghost: the packets whose last fragment was acknowledged      *)
(*                                                                         *)
(* The counters that make the client switch lazy mode off need 13 queries  *)
(* without enough answers (send_query), so MaxQueries stays below.         *)
(***************************************************************************)
EXTENDS TunnelMessages

CONSTANTS ChunkLen,       \* the bytes build_hostname puts into one name
          DataResends     \* the 3 of client_tunnel_cb

ASSUME ClientAssumption ==
  /\ ChunkLen \in Nat \ {0}
  /\ DataResends \in Nat
  /\ MaxQueries < 13

FreshClient(lazymode) ==
  [lazymode |-> lazymode, num |-> 0,
   out |-> [pkt |-> NoPacket, offset |-> 0, sentlen |-> 0, seqno |-> 0,
            fragment |-> 0, resent |-> 0],
   inp |-> [buf |-> << >>, seqno |-> 0, fragment |-> 0],
   soon |-> TRUE, tx |-> {}, written |-> << >>, done |-> {}]

is_sending(c) == Sending(c.out)

NoPing(c) == [c EXCEPT !.soon = FALSE]
PingSoon(c) == [c EXCEPT !.soon = TRUE]

-----------------------------------------------------------------------------
\* send_query: every query gets the next chunkid
send_query(c, qry) == [c EXCEPT !.num = c.num + 1, !.tx = c.tx \cup {qry}]

send_ping(c) ==
  send_query(c, Query(c.num + 1, "ping", Header(c.inp), NoHeader, FALSE,
                      << >>))

send_chunk(c) ==
  LET avail == PacketLen[c.out.pkt] - c.out.offset
      len   == Smaller(ChunkLen, avail)
  IN  send_query([c EXCEPT !.out.sentlen = len],
                 Query(c.num + 1, "data", Header(c.inp), Header(c.out),
                       len = avail, CellsOf(c.out.pkt, c.out.offset, len)))

ForgetOutpkt(c) ==
  [c EXCEPT !.out.pkt = NoPacket, !.out.offset = 0, !.out.sentlen = 0,
            !.out.resent = 0]

\* tunnel_tun of a client that is not sending
client_tunnel_tun(c, p) ==
  NoPing(send_chunk(
    [c EXCEPT !.out = [pkt |-> p, offset |-> 0, sentlen |-> 0,
                       seqno |-> NextSeqno(c.out.seqno), fragment |-> 0,
                       resent |-> 0]]))

\* select() in client_tunnel_cb returns 0
Timeout(c) ==
  NoPing(IF ~ is_sending(c) THEN send_ping(c)
         ELSE IF c.out.resent < DataResends
              THEN send_chunk([c EXCEPT !.out.resent = c.out.resent + 1])
              ELSE send_ping(ForgetOutpkt(c)))

\* FD_SET(tun_fd): a client that is resending reads tun only to empty it
ReadsTun(c) == ~ is_sending(c) \/ c.out.resent >= DataResends - 1

-----------------------------------------------------------------------------
(***************************************************************************)
(* tunnel_dns, of a two-byte header and its data.                          *)
(***************************************************************************)
IsRecentId(c, num) == num \in {c.num, c.num - 1, c.num - 2}

\* Wrong: the data of an earlier packet is taken for a new one.
IsStaleData_Unnoticed(c, b) == FALSE

\* "read = 2": data of an earlier packet is not looked at
IsStaleData(c, b) ==
  /\ b.data # << >>
  /\ b.down.seqno # c.inp.seqno
  /\ recent_seqno(c.inp.seqno, b.down.seqno)

WithoutStaleData(c, b) ==
  IF IsStaleData(c, b) THEN [b EXCEPT !.data = << >>] ELSE b

\* No data, but the number of a packet the client has not seen
SkipToUnseen(c, b) ==
  IF /\ b.data = << >>
     /\ b.down.seqno # c.inp.seqno
     /\ ~ recent_seqno(c.inp.seqno, b.down.seqno)
  THEN PingSoon([c EXCEPT !.inp = [buf |-> << >>, seqno |-> b.down.seqno,
                                   fragment |-> b.down.fragment]])
  ELSE c

\* inpkt.fragment == 0 && new_down_fragment == 0 && inpkt.len == 0
WeirdSituation(c, b) ==
  c.inp.fragment = 0 /\ b.down.fragment = 0 /\ c.inp.buf = << >>

IgnoresData(c, b) ==
  /\ b.down.seqno = c.inp.seqno
  /\ ~ WeirdSituation(c, b)
  /\ b.down.fragment # c.inp.fragment + 1

\* The data is appended; a packet whose last fragment this is goes to tun.
AppendData(c, b) ==
  LET kept == IF b.down.seqno = c.inp.seqno THEN c.inp.buf ELSE << >>
      all  == kept \o b.data
      wrote == \E p \in Packet : IsPacket(all, p)
  IN  [c EXCEPT !.inp = [buf |-> IF b.last THEN << >> ELSE all,
                         seqno |-> b.down.seqno,
                         fragment |-> b.down.fragment],
                !.written = IF b.last /\ wrote
                            THEN Append(c.written, all[1][1])
                            ELSE c.written]

\* The client and send_something_now
ReceiveDownstream(c, b, something) ==
  IF b.data = << >> THEN << SkipToUnseen(c, b), something >>
  ELSE IF IgnoresData(c, b) THEN << PingSoon(c), something >>
  ELSE LET d == AppendData(c, b)
       IN  IF d.inp.buf = << >> THEN << PingSoon(d), something >>
           ELSE << d, TRUE >>

\* Wrong: an ack of any fragment of the packet will do.
IsUpstreamAck_AnyFragment(c, ack) ==
  is_sending(c) /\ ack.seqno = c.out.seqno

\* Wrong: an ack of this fragment of any packet will do.
IsUpstreamAck_AnyPacket(c, ack) ==
  is_sending(c) /\ ack.fragment = c.out.fragment

IsUpstreamAck(c, ack) ==
  /\ is_sending(c)
  /\ ack = [seqno |-> c.out.seqno, fragment |-> c.out.fragment]

\* The upstream half, which may send the next chunk, and the final ping
FinishAnswer(c, ack, something) ==
  LET offset == c.out.offset + c.out.sentlen
      pinged == IF something THEN NoPing(send_ping(c)) ELSE c
  IN  IF ~ IsUpstreamAck(c, ack) THEN pinged
      ELSE IF offset >= PacketLen[c.out.pkt]
      THEN LET d == PingSoon([ForgetOutpkt(c)
                                EXCEPT !.done = c.done \cup {c.out.pkt}])
           IN  IF something THEN NoPing(send_ping(d)) ELSE d
      ELSE NoPing(send_chunk(
             [c EXCEPT !.out.offset = offset,
                       !.out.fragment = c.out.fragment + 1,
                       !.out.resent = 0]))

client_tunnel_dns(c, ans) ==
  LET b == WithoutStaleData(c, ans.body)
      something == c.soon
      calm == [c EXCEPT !.soon = IsStaleData(c, ans.body)]
      lazily == IF ans.num = c.num /\ c.lazymode THEN PingSoon(calm) ELSE calm
      received == ReceiveDownstream(lazily, b, something)
  IN  IF ~ ans.body.legal THEN PingSoon(c)
      ELSE IF ~ IsRecentId(c, ans.num)
      THEN IF something THEN NoPing(send_ping(calm)) ELSE calm
      ELSE FinishAnswer(received[1], ans.body.ack, received[2])
=============================================================================
