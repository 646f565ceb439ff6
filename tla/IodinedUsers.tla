---------------------------- MODULE IodinedUsers -----------------------------
(***************************************************************************)
(* iodined with all its users: the addresses of InitUsers, the table of    *)
(* UserTable, the queries and packets of IodinedUserOps for each user, and *)
(* packets that go from one user to another, in DNS or in raw mode.        *)
(*                                                                         *)
(* Every step but those of the clients and the clock is an iteration of    *)
(* the select loop of tunnel().  Clients are arbitrary: a query of any     *)
(* session may carry any header.  Messages are not kept between steps,     *)
(* for what arrives does not depend on what was sent.                      *)
(***************************************************************************)
EXTENDS InitUsers, IodinedUserOps, FiniteSets

CONSTANTS
  Timeout, Host, check_ip, MaxSessions,   \* as in UserTable
  Destination,    \* the address in a packet's IP header
  MaxAsked        \* bound: the queries of a run

\* There is room for all users in any network.
ASSUME UsersAssumption ==
  /\ \A net \in NetSizes : UsersIn(net) = USERS
  /\ Destination \in [Packet -> Nat]
  /\ MaxAsked \in 0 .. MaxQueries
  /\ Timeout \in Nat \ {0} /\ Host # {}

VARIABLES
  users, sessions, replies, quiet, met,   \* UserTable
  boxes,      \* the record of IodinedUserOps of every user
  left,       \* the last ping or data query: what may be found in an unset struct query
  coming,     \* the packets that were not handed to iodined yet
  meant,      \* ghost: the session a packet was accepted for
  askers      \* ghost: the session whose slot a query came to, by its number

tableVars == << users, sessions, replies, quiet, met >>
boxVars   == << boxes, left, coming, meant, askers >>
vars      == << initVars, tableVars, boxVars >>

Table == INSTANCE UserTable WITH
  usercount <- USERS, QueryName <- 1 .. MaxAsked,
  Activity <- {"login", "tunnel", "rawlogin", "raw"}

Init ==
  /\ LoopInit
  /\ Table!Init
  /\ boxes = [u \in 0 .. USERS - 1 |-> FreshUser(FALSE)]
  /\ left = NoQuery
  /\ coming = Packet
  /\ meant = [p \in Packet |-> 0]
  /\ askers = << >>

\* tunnel() runs when init_users is through.
Serving == turn = UsersIn(size) /\ UNCHANGED initVars

-----------------------------------------------------------------------------
(***************************************************************************)
(* An iteration of the select loop: the head, a handler, and the end.      *)
(***************************************************************************)
\* "active && !disabled && last_pkt + 60 > now": a second less than the
\* checks of the handlers allow
Heard(u) == users[u].active /\ users[u].idle < Timeout

LoopHeads == [u \in User |-> IF Heard(u) THEN LoopHead(boxes[u]) ELSE boxes[u]]

SendsSoon(u) == Heard(u) /\ users[u].conn = "dns"

\* From the records the handler has left.  What was sent is sent.
Finish(after) ==
  LET done == [u \in User |-> IF SendsSoon(u)' THEN LoopEnd(after[u]) ELSE after[u]]
  IN  boxes' = [u \in User |->
                  [done[u] EXCEPT !.tx = {}, !.written = << >>, !.acked = {}]]

\* all_users_waiting_to_send of user.c
TunIsBlocked ==
  \A u \in User :
    Heard(u) => users[u].conn = "dns" /\ all_users_waiting_to_send(boxes[u])

\* The user it returns, none if there is none
find_user_by_ip(ip) ==
  LET Is(u) == Heard(u) /\ users[u].authenticated /\ tun_ip[u] = ip
  IN  {u \in User : Is(u) /\ \A v \in 0 .. u - 1 : ~ Is(v)}

\* Wrong: the packet waits though a query is at hand.
PassOn_Later(box, p) == [box EXCEPT !.out = AcceptPacket(box.out, p)]

\* The same lines in tunnel_tun and in handle_full_packet
PassOn(box, p) == iodined_tunnel_tun(box, p)

\* The records when a packet goes to the user of its address; send_raw, for a
\* user in raw mode, leaves nothing behind.
Route(after, p) ==
  [u \in User |->
     IF u \in find_user_by_ip(Destination[p]) /\ users[u].conn = "dns"
     THEN PassOn(after[u], p) ELSE after[u]]

\* ... and the ghosts
Routed(p) ==
  /\ coming' = coming \ {p}
  /\ meant' = [meant EXCEPT ![p] =
                 IF find_user_by_ip(Destination[p]) = {} THEN 0
                 ELSE users[CHOOSE u \in find_user_by_ip(Destination[p]) : TRUE].seed]

NothingRouted == UNCHANGED << coming, meant >>

-----------------------------------------------------------------------------
(***************************************************************************)
(* The handlers.                                                           *)
(***************************************************************************)
\* Wrong: the ring of waiting packets is kept.
ResetUser_QueueKept(box) ==
  [FreshUser(FALSE) EXCEPT !.out.ring = box.out.ring, !.out.use = box.out.use,
                           !.out.filled = box.out.filled]

\* What a version request makes of the record of its user
ResetUser(box) == FreshUser(FALSE)

Version(h) ==
  /\ Table!Version(h)
  /\ LET u == sessions'[Len(sessions')].place
     IN  Finish([LoopHeads EXCEPT ![u] = ResetUser(boxes[u])])
  /\ UNCHANGED << left, askers >> /\ NothingRouted

Login(n, h) ==
  /\ Table!HandleLogin(n, h)
  /\ Finish(LoopHeads)
  /\ UNCHANGED << left, askers >> /\ NothingRouted

\* 'O' with L or I; the other requests leave these records alone.
SetLazy(n, h, lazy) ==
  /\ Table!HandleRequest(n, h)
  /\ Finish([LoopHeads EXCEPT ![sessions[n].place].lazy = lazy])
  /\ UNCHANGED << left, askers >> /\ NothingRouted

\* Headers: of what is under way, and of something else
Acks(box) == {Header(box.out), [seqno |-> NextSeqno(box.out.seqno), fragment |-> 0]}

\* A fragment of the packet under way or of the next one
Fragments(box, p) ==
  {[up   |-> [seqno |-> s, fragment |-> FragField(k - 1)],
    last |-> k = PacketLen[p],
    data |-> << << p, k >> >>] :
     s \in {box.inp.seqno, NextSeqno(box.inp.seqno)}, k \in 1 .. PacketLen[p]}

\* A new ping or data query at the slot of session n
Asks(n, h) ==
  /\ Len(askers) < MaxAsked
  /\ Table!HandleNewQuery(n, h, Len(askers) + 1)
  /\ askers' = Append(askers, users[sessions[n].place].seed)

Ping(n, h) ==
  LET u == sessions[n].place
  IN  /\ Asks(n, h)
      /\ \E ack \in Acks(boxes[u]) :
           LET qry == Query(Len(askers'), "ping", ack, NoHeader, FALSE, << >>)
           IN  /\ Finish([LoopHeads EXCEPT ![u] = HandlePing(@, qry)])
               /\ left' = qry
      /\ NothingRouted

\* The kernel of a client keeps packets to its own address.
Sends(u, p) == p \in coming /\ Destination[p] # tun_ip[u]

\* handle_full_packet has put the packet of the user to one side (written):
\* it is passed on to another user, or goes to tun.
Data(n, h) ==
  LET u == sessions[n].place
  IN  /\ Asks(n, h)
      /\ \E ack \in Acks(boxes[u]), p \in Packet :
           /\ Sends(u, p)
           /\ \E f \in Fragments(boxes[u], p) :
                LET qry   == Query(Len(askers'), "data", ack, f.up, f.last, f.data)
                    after == [LoopHeads EXCEPT ![u] = HandleData(@, qry)]
                IN  /\ left' = qry
                    /\ IF after[u].written = << >>
                       THEN Finish(after) /\ NothingRouted
                       ELSE Finish(Route(after, p)) /\ Routed(p)

\* users[].q is overwritten by a query of which only the address was set, so
\* that its id is 0 or what the last one left in its place on the stack.
OverwriteQuery(box) == {[box EXCEPT !.q = q] : q \in {NoQuery, left}}

RawLogin(n, h) ==
  LET u == sessions[n].place
  IN  /\ Table!HandleRawLogin(n, h)
      /\ \E box \in OverwriteQuery(LoopHeads[u]) : Finish([LoopHeads EXCEPT ![u] = box])
      /\ UNCHANGED << left, askers >> /\ NothingRouted

RawPing(n, h) ==
  LET u == sessions[n].place
  IN  /\ Table!HandleRaw(n, h)
      /\ \E box \in OverwriteQuery(LoopHeads[u]) : Finish([LoopHeads EXCEPT ![u] = box])
      /\ UNCHANGED << left, askers >> /\ NothingRouted

\* A whole packet, in the place of one that is being put together
RawData(n, h) ==
  LET u == sessions[n].place
  IN  /\ Table!HandleRaw(n, h)
      /\ \E p \in Packet, box \in OverwriteQuery([LoopHeads[u] EXCEPT !.inp.buf = << >>]) :
           /\ Sends(u, p)
           /\ Finish(Route([LoopHeads EXCEPT ![u] = box], p))
           /\ Routed(p)
      /\ UNCHANGED << left, askers >>

\* A packet from tun
Tun(p) ==
  /\ p \in coming
  /\ ~ TunIsBlocked
  /\ UNCHANGED tableVars
  /\ Finish(Route(LoopHeads, p))
  /\ Routed(p)
  /\ UNCHANGED << left, askers >>

\* The timeout, or something that changes no user
Idle ==
  /\ UNCHANGED tableVars
  /\ Finish(LoopHeads)
  /\ UNCHANGED << left, askers >> /\ NothingRouted

\* The clock, and what the clients make of the answers to their logins
Elsewhere ==
  /\ \/ Table!Tick
     \/ \E n \in DOMAIN sessions :
          \/ Table!ClientLoggedIn(n) \/ Table!ClientRawLoggedIn(n)
          \/ Table!ClientGivesUpRaw(n)
  /\ UNCHANGED << boxes, left, askers >> /\ NothingRouted

Receives(n, h) ==
  \/ Login(n, h) \/ \E lazy \in BOOLEAN : SetLazy(n, h, lazy)
  \/ Ping(n, h) \/ Data(n, h)
  \/ RawLogin(n, h) \/ RawPing(n, h) \/ RawData(n, h)

Serves ==
  \/ \E h \in Host : Version(h)
  \/ \E n \in DOMAIN sessions, h \in Host : Receives(n, h)
  \/ \E p \in Packet : Tun(p)
  \/ Idle
  \/ Elsewhere

Next ==
  \/ Assign /\ UNCHANGED << tableVars, boxVars >>
  \/ Serving /\ Serves

Spec == Init /\ [][Next]_vars
-----------------------------------------------------------------------------
\* Who is given a slot gets none of the packets meant for its last owner, and
\* no query of that one is answered or recognized any more: the packets a slot
\* keeps were accepted for the session it belongs to, and so came the queries
\* it remembers (handle_null_request, 'V'; find_user_by_ip).  In raw mode it
\* may remember anything (OverwriteQuery).
NothingIsInherited ==
  \A u \in User :
    /\ \A p \in Waiting(boxes[u].out) : meant[p] = users[u].seed
    /\ users[u].conn = "dns" =>
         \A num \in Remembered(boxes[u]) : askers[num] = users[u].seed

\* No user's packet waits for its first transmission beside a query that could
\* take it, whether it came from tun or from another user.
NoUserWaitsBesideQuery ==
  \A u \in User :
    users[u].conn = "dns" /\ (Held(boxes[u].q) \/ Held(boxes[u].soonq)) =>
      ~ (Sending(boxes[u].out) /\ boxes[u].out.resent = 0)
=============================================================================
