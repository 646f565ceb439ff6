------------------------------- MODULE Tunnel -------------------------------
(***************************************************************************)
(* The tunnel of one client after the handshake: client_tunnel_cb of the   *)
(* client and tunnel of iodined, with DNS relays between them that lose,   *)
(* delay, reorder and repeat queries and answers.                          *)
(*                                                                         *)
(* Every iteration of a select loop is one step: both loops are single     *)
(* threads that come back to select() between two steps.                   *)
(*                                                                         *)
(* What the relays are assumed to do: they carry a query or an answer for  *)
(* no longer than it takes the client to send MaxLag further queries.  The *)
(* sequence numbers of the protocol have three bits and its windows four   *)
(* numbers, so without such a bound no property of delivery holds.         *)
(***************************************************************************)
EXTENDS IodinedUserOps, IodineClientOps, FiniteSets

CONSTANTS MaxLag,     \* the relays' patience, in queries of the client
          Scenarios   \* bound: what a run may be about

(***************************************************************************)
(* lazy      what the handshake has agreed on                              *)
(* up, down  the packets that come in by the client's tun device, and by   *)
(*           that of iodined, numbered from 1                              *)
(* queries   how many the client may send                                  *)
(***************************************************************************)
ASSUME TunnelAssumption ==
  /\ MaxLag \in Nat
  /\ Scenarios \subseteq [lazy : BOOLEAN, up : Seq(Packet), down : Seq(Packet),
                          queries : 0 .. MaxQueries]
  /\ \A s \in Scenarios :
       /\ \A k \in DOMAIN s.up : s.up[k][1] = k
       /\ \A k \in DOMAIN s.down : s.down[k][1] = k

VARIABLES
  scenario,   \* the one of this run
  client,     \* IodineClientOps
  user,       \* IodinedUserOps
  queries,    \* queries on their way to iodined
  answers,    \* answers on their way to the client
  copies,     \* how often a relay has repeated a query
  upRead,     \* packets the client has read from tun
  downRead    \* packets iodined has read from tun

vars == << scenario, client, user, queries, answers, copies, upRead, downRead >>

Init ==
  /\ scenario \in Scenarios
  /\ client = FreshClient(scenario.lazy)  \* both agree: LazyAgreed of Handshake
  /\ user = FreshUser(scenario.lazy)
  /\ queries = {}
  /\ answers = {}
  /\ copies = 0
  /\ upRead = 0
  /\ downRead = 0

\* The packet that can be read next from a tun device, if there is one
NextPackets(packets, read) == {packets[k] : k \in DOMAIN packets \cap {read + 1}}

UpNext   == NextPackets(scenario.up, upRead)
DownNext == NextPackets(scenario.down, downRead)

-----------------------------------------------------------------------------
(***************************************************************************)
(* The relays.                                                             *)
(***************************************************************************)
\* What is still carried when the client has sent num queries
Fresh(messages, num) == {m \in messages : m.num + MaxLag >= num}

\* The client has done a step: its queries are on their way.
ClientBecomes(c) ==
  /\ c.num <= scenario.queries
  /\ client' = [c EXCEPT !.tx = {}]
  /\ queries' = Fresh(queries \cup c.tx, c.num)

UserBecomes(u) ==
  /\ user' = [u EXCEPT !.tx = {}]
  /\ answers' = Fresh(answers \cup u.tx, client.num)

\* An impatient relay asks again, with another id, what it has asked before.
Repeat(qry) ==
  /\ qry.id = 0
  /\ copies < MaxDups
  /\ copies' = copies + 1
  /\ queries' = queries \cup {[qry EXCEPT !.id = copies + 1]}
  /\ UNCHANGED << client, user, answers, upRead, downRead >>

-----------------------------------------------------------------------------
(***************************************************************************)
(* The iterations of the client's select loop.                             *)
(***************************************************************************)
\* tun readable, nothing on the dns socket
ClientTun(p) ==
  /\ ~ is_sending(client)
  /\ upRead' = upRead + 1
  /\ ClientBecomes(client_tunnel_tun(client, p))
  /\ answers' = Fresh(answers, client'.num)
  /\ UNCHANGED << user, copies, downRead >>

\* tun readable while a chunk is being resent: the packet is thrown away,
\* and "continue" skips an answer that may have arrived with it.
ClientDiscards ==
  /\ is_sending(client)
  /\ ReadsTun(client)
  /\ UpNext # {}
  /\ upRead' = upRead + 1
  /\ UNCHANGED << client, user, queries, answers, copies, downRead >>

\* An answer
ClientDns(ans) ==
  /\ ClientBecomes(client_tunnel_dns(client, ans))
  /\ answers' = Fresh(answers \ {ans}, client'.num)
  /\ UNCHANGED << user, copies, upRead, downRead >>

\* Both at once: first tun, then the answer
ClientTunAndDns(p, ans) ==
  /\ ~ is_sending(client)
  /\ upRead' = upRead + 1
  /\ ClientBecomes(client_tunnel_dns(client_tunnel_tun(client, p), ans))
  /\ answers' = Fresh(answers \ {ans}, client'.num)
  /\ UNCHANGED << user, copies, downRead >>

\* Neither, until the time is up
ClientTimeout ==
  /\ ClientBecomes(Timeout(client))
  /\ answers' = Fresh(answers, client'.num)
  /\ UNCHANGED << user, copies, upRead, downRead >>

\* Something that is no answer to a ping or chunk, a late answer to the
\* handshake or the error of a relay: the client will ping soon.
ClientError ==
  /\ ClientBecomes(PingSoon(client))
  /\ UNCHANGED << user, answers, copies, upRead, downRead >>

-----------------------------------------------------------------------------
(***************************************************************************)
(* The iterations of iodined's select loop, each from LoopHead to LoopEnd. *)
(***************************************************************************)
IodinedTun(p) ==
  /\ ~ all_users_waiting_to_send(user)
  /\ downRead' = downRead + 1
  /\ UserBecomes(LoopEnd(iodined_tunnel_tun(LoopHead(user), p)))
  /\ UNCHANGED << client, queries, copies, upRead >>

IodinedDns(qry) ==
  /\ queries' = queries \ {qry}
  /\ UserBecomes(LoopEnd(iodined_tunnel_dns(LoopHead(user), qry)))
  /\ UNCHANGED << client, copies, upRead, downRead >>

IodinedTunAndDns(p, qry) ==
  /\ ~ all_users_waiting_to_send(user)
  /\ downRead' = downRead + 1
  /\ queries' = queries \ {qry}
  /\ UserBecomes(LoopEnd(iodined_tunnel_dns(
                   iodined_tunnel_tun(LoopHead(user), p), qry)))
  /\ UNCHANGED << client, copies, upRead >>

\* The timeout, of 20 ms when a q_sendrealsoon waits, or the traffic of
\* somebody else
IodinedIdle ==
  /\ UserBecomes(LoopEnd(LoopHead(user)))
  /\ UNCHANGED << client, queries, copies, upRead, downRead >>

-----------------------------------------------------------------------------
ClientNext ==
  \/ \E p \in UpNext : ClientTun(p)
  \/ ClientDiscards
  \/ \E ans \in answers : ClientDns(ans)
  \/ \E p \in UpNext, ans \in answers : ClientTunAndDns(p, ans)
  \/ ClientTimeout
  \/ ClientError

IodinedNext ==
  \/ \E p \in DownNext : IodinedTun(p)
  \/ \E qry \in queries : IodinedDns(qry)
  \/ \E p \in DownNext, qry \in queries : IodinedTunAndDns(p, qry)
  \/ IodinedIdle

Next ==
  /\ ClientNext \/ IodinedNext \/ \E qry \in queries : Repeat(qry)
  /\ UNCHANGED scenario

Spec == Init /\ [][Next]_vars
-----------------------------------------------------------------------------
(***************************************************************************)
(* Properties.                                                             *)
(***************************************************************************)
Numbers(packets) == [i \in DOMAIN packets |-> packets[i][1]]

\* The packets to the client that fit into one fragment: the client takes a
\* copy of the last one for new (WeirdSituation).
OneFragment == {k \in DOMAIN scenario.down : PacketLen[scenario.down[k]] <= FragSize}

UpLine   == INSTANCE LossyLine WITH sent <- upRead,
                                    got <- Numbers(user.written),
                                    again <- {}
DownLine == INSTANCE LossyLine WITH sent <- downRead,
                                    got <- Numbers(client.written),
                                    again <- OneFragment

\* What the server writes to its tun device is what the client read from
\* its own, in order, nothing twice and nothing mixed up, however the
\* relays treat the queries (the checks on up_seq and up_frag in
\* handle_null_request, send_chunk and the acks of client.c).
ImplementsUpLine == UpLine!Spec

\* The same of the packets to the client, but that one of a single fragment
\* may come twice in a row (the checks in tunnel_dns of client.c,
\* process_downstream_ack and send_chunk_or_dataless).
ImplementsDownLine == DownLine!Spec

\* A packet whose last fragment was acknowledged to its sender was put
\* together and written to tun at the other end, in either direction: an
\* ack in an answer or a query is never of another packet or fragment.
AckedMeansDelivered ==
  /\ \A p \in client.done : \E i \in DOMAIN user.written : user.written[i] = p
  /\ \A p \in user.acked : \E i \in DOMAIN client.written : client.written[i] = p

\* No fragment is missing behind an acknowledged one: what the client has
\* had acknowledged of the packet it is sending is in the server's hands.
AckedUpFragmentsHeld ==
  LET o == client.out
  IN  o.offset > 0 =>
        /\ user.inp.seqno = o.seqno
        /\ \/ user.inp.buf = CellsOf(o.pkt, 0, Len(user.inp.buf))
              /\ Len(user.inp.buf) >= o.offset
           \/ \E i \in DOMAIN user.written : user.written[i] = o.pkt

\* A packet that waits for its first transmission does not wait while the
\* server has a query of the client to answer ("Start sending immediately
\* if query is waiting", "If anything waiting and we didn't already send
\* above, send it now").
NoPacketWaitsBesideQuery ==
  Held(user.q) \/ Held(user.soonq) => ~ (Sending(user.out) /\ user.out.resent = 0)

\* A copy of a query that reached the server is in its hands, the first as
\* q.id, a repeated one as q.id2, or is answered: no handler overwrites a
\* query it still owes an answer ("We need to store a new query, so if there
\* still is an earlier query waiting, always send a reply to finish it").
\* Only the second copy of a query gives way, to a third.
CopiesHeld  == {m \in Nums \X Ids : HasCopy(user, m[1], m[2])}
CopiesTaken == {<< q.num, q.id >> : q \in queries \ queries'}

GivesWay(m) == IsSecondCopy(user, m[1], m[2]) /\ \E n \in CopiesTaken : n[1] = m[1]

NoQueryIsDropped ==
  [][IodinedNext =>
       \A m \in CopiesHeld \cup CopiesTaken :
         \/ HasCopy(user', m[1], m[2])
         \/ \E a \in answers' : a.num = m[1] /\ a.id = m[2]
         \/ m[1] + MaxLag < client.num
         \/ m \in CopiesHeld /\ GivesWay(m)]_vars

\* A query put off to give tun a chance is answered by the next iteration of
\* the select loop, 20 ms later at most ("Clients won't be sending new data
\* until we send our ack, so don't keep them waiting long").
PutOffForOneIteration ==
  [][IodinedNext /\ Held(user.soonq) =>
       user'.soonq.num # user.soonq.num]_vars
=============================================================================
