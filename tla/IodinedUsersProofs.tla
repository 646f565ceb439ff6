------------------------- MODULE IodinedUsersProofs -------------------------
(***************************************************************************)
(* All users of iodined, for every number of users, sessions, packets and  *)
(* queries and for every network: each has an address of its own, nothing  *)
(* passes from one owner of a slot to the next, and nothing waits that     *)
(* could be sent.                                                          *)
(***************************************************************************)
EXTENDS IodinedUsers, OperatorProofs

USE DEF Seqnos, FragNos, SeqCount, FragCount

-----------------------------------------------------------------------------
(***************************************************************************)
(* The loop of init_users: the addresses in order, without the server's.   *)
(***************************************************************************)
LoopInvariant ==
  /\ size \in NetSizes
  /\ my \in 0 .. size - 1
  /\ turn \in 0 .. UsersIn(size)
  /\ skip = IF my \in 1 .. turn THEN 1 ELSE 0
  /\ tun_ip \in [User -> Nat]
  /\ \A u \in User :
       u < turn => tun_ip[u] = IF my \in 1 .. u + 1 THEN u + 2 ELSE u + 1

LEMMA AssignKeepsLoop ==
  ASSUME LoopInvariant, Assign
  PROVE  LoopInvariant'
<1>1. turn \in User /\ size \in Nat /\ my \in Nat /\ turn \in Nat /\ User' = User
  BY NetAssumption DEF LoopInvariant, Assign, User, UsersIn
<1>2. SkipAt(turn) = IF my \in 1 .. turn + 1 THEN 1 ELSE 0
  BY <1>1 DEF LoopInvariant, SkipAt
<1>3. skip' = IF my' \in 1 .. turn' THEN 1 ELSE 0
  BY <1>2 DEF Assign
<1>4. tun_ip' \in [User -> Nat]
  BY <1>1, <1>2 DEF LoopInvariant, Assign
<1>5. ASSUME NEW u \in User, u < turn'
      PROVE  tun_ip'[u] = IF my' \in 1 .. u + 1 THEN u + 2 ELSE u + 1
  <2>1. CASE u = turn
    BY <1>1, <1>2, <2>1 DEF LoopInvariant, Assign
  <2>2. CASE u # turn
    <3>1. u < turn /\ tun_ip'[u] = tun_ip[u] /\ my' = my
      BY <1>1, <1>5, <2>2 DEF LoopInvariant, Assign, User
    <3> QED
      BY <3>1 DEF LoopInvariant
  <2> QED
    BY <2>1, <2>2
<1>6. size' \in NetSizes /\ my' \in 0 .. size' - 1 /\ turn' \in 0 .. UsersIn(size')
  BY <1>1, NetAssumption DEF LoopInvariant, Assign, UsersIn
<1> QED
  BY <1>1, <1>3, <1>4, <1>5, <1>6 DEF LoopInvariant

-----------------------------------------------------------------------------
(***************************************************************************)
(* The table of users: what the records depend on.                         *)
(***************************************************************************)
Place == 0 .. USERS - 1

TableGood ==
  /\ users \in [Place -> Table!Slot]
  /\ \A u \in Place : users[u].authenticated_raw => users[u].conn = "raw"
  /\ sessions \in Seq([place : Place, phase : Table!Phase])

\* The slot stays with its session, does not go back to DNS and may recognize
\* what it might have recognized before.
SlotStays(u) ==
  /\ users'[u].seed = users[u].seed
  /\ users[u].known \subseteq users'[u].known
  /\ users'[u].conn = "dns" => users[u].conn = "dns"

LEMMA ElementType ==
  ASSUME NEW S, NEW s \in Seq(S), NEW k \in DOMAIN s
  PROVE  s[k] \in S
OBVIOUS

LEMMA PlaceType ==
  ASSUME TableGood, NEW n \in DOMAIN sessions
  PROVE  sessions[n].place \in Place
<1>1. sessions \in Seq([place : Place, phase : Table!Phase])
  BY DEF TableGood
<1> HIDE DEF Place
<1>2. sessions[n] \in [place : Place, phase : Table!Phase]
  BY <1>1, ElementType
<1> QED
  BY <1>2

LEMMA VersionKeepsTable ==
  ASSUME TableGood, NEW h \in Host, Table!Version(h)
  PROVE  /\ TableGood'
         /\ sessions'[Len(sessions')].place \in Place
         /\ \A u \in Place : u # sessions'[Len(sessions')].place => SlotStays(u)
<1>1. PICK i \in Place :
        /\ users' = [users EXCEPT ![i] = Table!FreshSlot(i, Len(sessions) + 1, h)]
        /\ sessions' = Append(sessions, [place |-> i, phase |-> "login"])
  BY DEF Table!Version, Table!User, Place
<1> DEFINE slot == Table!FreshSlot(i, Len(sessions) + 1, h)
           new == [place |-> i, phase |-> "login"]
<1>2. slot \in Table!Slot /\ ~ slot.authenticated_raw
  BY UsersAssumption DEF Table!FreshSlot, Table!Slot, Table!Time, TableGood
<1>3. new \in [place : Place, phase : Table!Phase]
  BY DEF Table!Phase
<1>4. /\ sessions' \in Seq([place : Place, phase : Table!Phase])
      /\ sessions'[Len(sessions')].place = i
  BY <1>1, <1>3 DEF TableGood
<1> HIDE DEF slot
<1>5. users' \in [Place -> Table!Slot] /\ \A u \in Place : u # i => users'[u] = users[u]
  BY <1>1, <1>2 DEF TableGood, slot
<1>6. users'[i] = slot
  BY <1>1 DEF TableGood, slot
<1> QED
  BY <1>2, <1>4, <1>5, <1>6 DEF TableGood, SlotStays

\* A message to a slot that leaves it with its session
LEMMA HandleKeepsTable ==
  ASSUME TableGood, NEW n \in DOMAIN sessions, NEW kind, NEW slot \in Table!Slot,
         Table!Serve(kind, n, slot),
         slot.seed = users[sessions[n].place].seed,
         users[sessions[n].place].known \subseteq slot.known,
         slot.conn = "dns" => users[sessions[n].place].conn = "dns",
         slot.authenticated_raw => slot.conn = "raw"
  PROVE  /\ TableGood' /\ \A u \in Place : SlotStays(u)
         /\ users'[sessions[n].place] = slot
<1> DEFINE i == sessions[n].place
<1>1. i \in Place
  BY PlaceType
<1>2. users' = [users EXCEPT ![i] = slot] /\ sessions' = sessions
  BY DEF Table!Serve
<1> HIDE DEF i
<1>3. /\ users' \in [Place -> Table!Slot] /\ users'[i] = slot
      /\ \A u \in Place : u # i => users'[u] = users[u]
  BY <1>1, <1>2 DEF TableGood
<1>4. TableGood'
  BY <1>2, <1>3 DEF TableGood
<1>5. \A u \in Place : SlotStays(u)
  BY <1>3 DEF SlotStays, i
<1> QED
  BY <1>3, <1>4, <1>5 DEF i

LEMMA MessageKeepsTable ==
  ASSUME TableGood, NEW n \in DOMAIN sessions, NEW h \in Host
  PROVE  /\ \/ Table!HandleLogin(n, h) \/ Table!HandleRequest(n, h)
            \/ \E k \in 1 .. MaxAsked : Table!HandleNewQuery(n, h, k)
            \/ Table!HandleRawLogin(n, h) \/ Table!HandleRaw(n, h)
            => TableGood' /\ \A u \in Place : SlotStays(u)
         /\ Table!HandleRawLogin(n, h) \/ Table!HandleRaw(n, h) =>
              users'[sessions[n].place].conn = "raw"
<1> DEFINE i == sessions[n].place
           old == users[i]
           kept == [old EXCEPT !.idle = 0]
           login == [kept EXCEPT !.authenticated = TRUE]
           raw == Table!RawSlot(old, h)
           asked(k) == [old EXCEPT !.idle = 0, !.known = @ \cup {k}]
<1>1. i \in Place
  BY PlaceType
<1>2. old \in Table!Slot /\ (old.authenticated_raw => old.conn = "raw")
  BY <1>1 DEF TableGood
<1>3. 0 \in Table!Time
  BY UsersAssumption DEF Table!Time
<1> HIDE DEF i
<1> HIDE DEF old
<1>4. /\ kept \in Table!Slot /\ kept.seed = old.seed /\ kept.conn = old.conn
      /\ kept.known = old.known
      /\ kept.authenticated_raw = old.authenticated_raw
  BY <1>2, <1>3 DEF Table!Slot
<1>5. /\ login \in Table!Slot /\ login.seed = old.seed /\ login.conn = old.conn
      /\ login.known = old.known
      /\ login.authenticated_raw = old.authenticated_raw
  BY <1>2, <1>3 DEF Table!Slot
<1>6. /\ raw \in Table!Slot /\ raw.seed = old.seed /\ raw.conn = "raw"
      /\ old.known \subseteq raw.known
  BY <1>2, <1>3 DEF Table!Slot, Table!RawSlot
<1>7. ASSUME NEW k \in 1 .. MaxAsked
      PROVE  /\ asked(k) \in Table!Slot /\ asked(k).seed = old.seed
              /\ asked(k).conn = old.conn
              /\ asked(k).known = old.known \cup {k}
              /\ asked(k).authenticated_raw = old.authenticated_raw
  BY <1>2, <1>3 DEF Table!Slot
<1> HIDE DEF kept, login, raw, asked
<1>8. ASSUME NEW kind, NEW slot, Table!Serve(kind, n, slot),
             slot \in {old, kept, login, raw} \/ \E k \in 1 .. MaxAsked : slot = asked(k)
      PROVE  /\ TableGood' /\ \A u \in Place : SlotStays(u)
             /\ users'[i] = slot
  BY <1>2, <1>4, <1>5, <1>6, <1>7, <1>8, HandleKeepsTable DEF i, old
<1>9. Table!HandleLogin(n, h) => \E slot \in {kept, login} : Table!Serve("login", n, slot)
  BY DEF Table!HandleLogin, Table!Handle, i, old, kept, login
<1>10. Table!HandleRequest(n, h) => Table!Serve("request", n, old)
  BY DEF Table!HandleRequest, Table!Handle, i, old
<1>11. ASSUME NEW k \in 1 .. MaxAsked, Table!HandleNewQuery(n, h, k)
       PROVE  \E kind : Table!Serve(kind, n, asked(k))
  BY <1>11 DEF Table!HandleNewQuery, Table!HandleTunnel, i, old, asked
<1>12. Table!HandleRawLogin(n, h) => Table!Serve("rawlogin", n, raw)
  BY DEF Table!HandleRawLogin, Table!Handle, i, old, raw
<1>13. Table!HandleRaw(n, h) =>
         Table!Serve("raw", n, kept) /\ old.authenticated_raw
  BY DEF Table!HandleRaw, Table!Handle, i, old, kept
<1>14. Table!HandleRawLogin(n, h) \/ Table!HandleRaw(n, h) => users'[i].conn = "raw"
  BY <1>2, <1>4, <1>6, <1>8, <1>12, <1>13
<1> QED
  BY <1>8, <1>9, <1>10, <1>11, <1>12, <1>13, <1>14 DEF i

LEMMA ElsewhereKeepsTable ==
  ASSUME TableGood, Elsewhere
  PROVE  TableGood' /\ \A u \in Place : SlotStays(u)
<1>1. CASE Table!Tick
  <2> DEFINE slot(u) == [users[u] EXCEPT !.idle = IF @ > Timeout THEN @ ELSE @ + 1]
  <2>1. users' = [u \in Place |-> slot(u)] /\ sessions' = sessions
    BY <1>1 DEF Table!Tick, Table!User, Place
  <2>2. ASSUME NEW u \in Place
        PROVE  /\ slot(u) \in Table!Slot /\ slot(u).seed = users[u].seed
               /\ slot(u).conn = users[u].conn
               /\ slot(u).known = users[u].known
               /\ slot(u).authenticated_raw = users[u].authenticated_raw
    <3> DEFINE idle == IF users[u].idle > Timeout THEN users[u].idle
                       ELSE users[u].idle + 1
    <3>1. users[u] \in Table!Slot
      BY DEF TableGood
    <3>2. idle \in Table!Time
      BY <3>1, UsersAssumption DEF Table!Slot, Table!Time
    <3>3. slot(u) = [users[u] EXCEPT !.idle = idle]
      BY <3>1 DEF Table!Slot
    <3> HIDE DEF idle, slot
    <3> QED
      BY <3>1, <3>2, <3>3 DEF Table!Slot
  <2> HIDE DEF slot
  <2> QED
    BY <2>1, <2>2 DEF TableGood, SlotStays
<1>2. ASSUME NEW n \in DOMAIN sessions, NEW from, NEW to \in Table!Phase,
             Table!Advance(n, from, to)
      PROVE  TableGood' /\ \A u \in Place : SlotStays(u)
  <2>1. sessions[n] \in [place : Place, phase : Table!Phase]
    <3>1. sessions \in Seq([place : Place, phase : Table!Phase])
      BY DEF TableGood
    <3> QED
      BY <3>1, ElementType
  <2>2. [sessions[n] EXCEPT !.phase = to] \in [place : Place, phase : Table!Phase]
    BY <2>1
  <2>3. users' = users /\ sessions' = [sessions EXCEPT ![n] = [@ EXCEPT !.phase = to]]
    BY <1>2 DEF Table!Advance
  <2>4. sessions' \in Seq([place : Place, phase : Table!Phase])
    BY <2>2, <2>3 DEF TableGood
  <2> QED
    BY <2>3, <2>4 DEF TableGood, SlotStays
<1>3. "dns" \in Table!Phase /\ "trying" \in Table!Phase /\ "raw" \in Table!Phase
      /\ "fallback" \in Table!Phase
  BY DEF Table!Phase
<1> QED
  BY <1>1, <1>2, <1>3
  DEF Elsewhere, Table!ClientLoggedIn, Table!ClientRawLoggedIn, Table!ClientGivesUpRaw

-----------------------------------------------------------------------------
(***************************************************************************)
(* The record of a user, beside its slot: the packets in line are the      *)
(* owner's and on no other way, and the queries remembered are the owner's.*)
(* asked, arriving and accepted stand for askers, coming and meant.        *)
(***************************************************************************)
BoxGood(box, slot, asked, arriving, accepted) ==
  /\ GoodUser(box)
  /\ \A p \in Waiting(box.out) : p \notin arriving /\ accepted[p] = slot.seed
  /\ Remembered(box) \subseteq 1 .. Len(asked)
  /\ slot.conn = "dns" =>
       /\ Prompt(box)
       /\ \A num \in Remembered(box) : asked[num] = slot.seed /\ num \in slot.known

\* The numbers were asked by the owner, and there is an owner.
LeftGood ==
  left \in QueryRecord /\ HeldOrNone(left) /\ left.num \in 0 .. Len(askers)

BoxesGood ==
  /\ \A u \in Place : BoxGood(boxes[u], users[u], askers, coming, meant)
  /\ \A u \in Place : boxes[u].tx = {} /\ boxes[u].written = << >>
  /\ LeftGood
  /\ askers \in Seq(Nat)
  /\ coming \subseteq Packet
  /\ meant \in [Packet -> Nat]

UsersInvariant == LoopInvariant /\ TableGood /\ BoxesGood

\* All places are users, while the network has room for them.
LEMMA UsersArePlaces ==
  ASSUME LoopInvariant
  PROVE  User = Place
BY UsersAssumption DEF LoopInvariant, User, Place

LEMMA WaitingType ==
  ASSUME NEW o, GoodOut(o)
  PROVE  Waiting(o) \subseteq Packet
<1>1. ASSUME NEW k \in 0 .. o.filled - 1 PROVE o.ring[Wrap(o.use + k)] \in Packet
  <2>1. k \in Slots /\ k < o.filled
    BY LimitAssumption DEF GoodOut, OutRecord, Slots
  <2> QED
    BY <2>1 DEF GoodOut, RingOK
<1>2. o.pkt \in Packet \cup {NoPacket}
  BY DEF GoodOut, OutRecord
<1> QED
  BY <1>1, <1>2 DEF Waiting

\* A piece of a handler that carries everything over
LEMMA CarriedGood ==
  ASSUME NEW a, NEW b, NEW slot, NEW asked, NEW arriving, NEW accepted,
         BoxGood(a, slot, asked, arriving, accepted),
         Carries(a, b, {}, {}), Prompt(a) => Prompt(b)
  PROVE  BoxGood(b, slot, asked, arriving, accepted)
BY DEF BoxGood, Carries

\* What else a step changes: the slot stays with its owner, more is asked, and
\* the packet p is passed to somebody.
LEMMA SurroundingsChange ==
  ASSUME NEW box, NEW slot, NEW asked \in Seq(Nat), NEW arriving, NEW accepted,
         BoxGood(box, slot, asked, arriving, accepted),
         NEW slot2, NEW asked2, NEW arriving2, NEW accepted2,
         slot2.seed = slot.seed, slot2.conn = "dns" => slot.conn = "dns",
         slot.known \subseteq slot2.known,
         asked2 = asked \/ \E n \in Nat : asked2 = Append(asked, n),
         arriving2 \subseteq arriving,
         \A p \in Packet : p \notin arriving => accepted2[p] = accepted[p]
  PROVE  BoxGood(box, slot2, asked2, arriving2, accepted2)
<1>1. /\ Len(asked2) \in Nat /\ Len(asked) \in Nat /\ Len(asked) <= Len(asked2)
      /\ \A num \in 1 .. Len(asked) : asked2[num] = asked[num]
  <2>1. CASE asked2 = asked
    BY <2>1
  <2>2. ASSUME NEW n \in Nat, asked2 = Append(asked, n)
        PROVE  /\ Len(asked2) = Len(asked) + 1
               /\ \A num \in 1 .. Len(asked) : asked2[num] = asked[num]
    BY <2>2
  <2> QED
    BY <2>1, <2>2
<1>2. Remembered(box) \subseteq 1 .. Len(asked2)
  BY <1>1 DEF BoxGood
<1>3. \A num \in Remembered(box) : asked2[num] = asked[num]
  BY <1>1 DEF BoxGood
<1>4. \A p \in Waiting(box.out) : p \notin arriving2 /\ accepted2[p] = slot2.seed
  <2>1. Waiting(box.out) \subseteq Packet
    BY WaitingType DEF BoxGood, GoodUser
  <2> QED
    BY <2>1 DEF BoxGood
<1>5. slot2.conn = "dns" =>
        /\ Prompt(box)
        /\ \A num \in Remembered(box) : asked2[num] = slot2.seed /\ num \in slot2.known
  BY <1>3 DEF BoxGood
<1> QED
  BY <1>2, <1>4, <1>5 DEF BoxGood

\* A query of the owner is handled.
LEMMA AskedGood ==
  ASSUME NEW a, NEW b, NEW slot, NEW asked \in Seq(Nat), NEW arriving, NEW accepted,
         BoxGood(a, slot, asked, arriving, accepted),
         NEW slot2, slot2.seed = slot.seed, slot2.conn = "dns" => slot.conn = "dns",
         slot.seed \in Nat, slot.known \cup {Len(asked) + 1} \subseteq slot2.known,
         Carries(a, b, {Len(asked) + 1}, {}), Prompt(a) => Prompt(b)
  PROVE  BoxGood(b, slot2, Append(asked, slot.seed), arriving, accepted)
<1> DEFINE asked2 == Append(asked, slot.seed)
           n == Len(asked) + 1
<1>1. /\ Len(asked2) = n /\ n \in Nat /\ asked2[n] = slot.seed
      /\ \A num \in 1 .. Len(asked) : asked2[num] = asked[num]
      /\ 1 .. n = 1 .. Len(asked) \cup {n}
  OBVIOUS
<1> HIDE DEF asked2, n
<1>2. Carries(a, b, {n}, {})
  BY DEF n
<1>3. Remembered(b) \subseteq 1 .. n
  BY <1>1, <1>2 DEF BoxGood, Carries
<1>4. slot2.conn = "dns" =>
        \A num \in Remembered(b) : asked2[num] = slot2.seed /\ num \in slot2.known
  BY <1>1, <1>2 DEF BoxGood, Carries, n
<1>5. BoxGood(b, slot2, asked2, arriving, accepted)
  BY <1>1, <1>2, <1>3, <1>4 DEF BoxGood, Carries
<1> QED
  BY <1>5 DEF asked2

\* q of a user in raw mode is overwritten.
LEMMA OverwrittenGood ==
  ASSUME NEW a, NEW q, NEW slot, NEW asked \in Seq(Nat), NEW arriving, NEW accepted,
         BoxGood(a, slot, asked, arriving, accepted),
         q \in QueryRecord, HeldOrNone(q), q.num \in 0 .. Len(asked),
         NEW slot2, slot2.seed = slot.seed, slot2.conn = "raw"
  PROVE  BoxGood([a EXCEPT !.q = q], slot2, asked, arriving, accepted)
<1> DEFINE b == [a EXCEPT !.q = q]
           S == 1 .. Len(asked)
<1>1. /\ b \in UserRecord /\ b.q = q /\ b.soonq = a.soonq /\ b.out = a.out
      /\ b.cache = a.cache /\ b.qmem = a.qmem
  BY DEF BoxGood, GoodUser, UserRecord
<1>2. Held(q) => q.num \in S
  BY NoQueryType DEF HeldOrNone
<1> HIDE DEF b, S
<1>3. Remembered(a) \subseteq S
  BY DEF BoxGood, S
<1>4. Remembered(b) \subseteq S
  <2>1. \A g \in {"q", "soonq"} : Held(b[g]) => b[g].num \in S
    BY <1>1, <1>2, <1>3, RememberedIs
  <2>2. /\ \A k \in DOMAIN b.cache : b.cache[k].num \in S
        /\ \A kind \in Kinds : \A k \in DOMAIN b.qmem[kind] : b.qmem[kind][k] \in S
    BY <1>1, <1>3, RememberedIs
  <2> QED
    BY <2>1, <2>2, RememberedIs
<1>5. GoodUser(b)
  BY <1>1 DEF GoodUser, BoxGood
<1>6. BoxGood(b, slot2, asked, arriving, accepted)
  BY <1>1, <1>4, <1>5 DEF BoxGood, S
<1> QED
  BY <1>6 DEF b

\* What was sent and written does not matter, nor what lazy and the packet
\* that is being put together are.
LEMMA ForgottenGood ==
  ASSUME NEW a, NEW b \in UserRecord, NEW slot, NEW asked, NEW arriving, NEW accepted,
         BoxGood(a, slot, asked, arriving, accepted),
         b.q = a.q, b.soonq = a.soonq, b.out = a.out,
         b.cache = a.cache, b.qmem = a.qmem
  PROVE  BoxGood(b, slot, asked, arriving, accepted)
<1>1. Remembered(b) = Remembered(a)
  BY DEF Remembered
<1>2. GoodUser(b) /\ (Prompt(a) => Prompt(b))
  BY DEF BoxGood, GoodUser, Prompt
<1> QED
  BY <1>1, <1>2 DEF BoxGood

-----------------------------------------------------------------------------
(***************************************************************************)
(* The pieces of an iteration, on all records.                             *)
(***************************************************************************)
LEMMA HeadsGood ==
  ASSUME UsersInvariant
  PROVE  /\ DOMAIN LoopHeads = Place
         /\ \A u \in Place : BoxGood(LoopHeads[u], users[u], askers, coming, meant)
<1>1. User = Place
  BY UsersArePlaces DEF UsersInvariant
<1>2. LoopHeads = [u \in Place |-> IF Heard(u) THEN LoopHead(boxes[u]) ELSE boxes[u]]
  BY <1>1 DEF LoopHeads
<1>3. ASSUME NEW u \in Place
      PROVE  BoxGood(LoopHeads[u], users[u], askers, coming, meant)
  <2> DEFINE a == boxes[u]
             b == LoopHead(a)
  <2>1. BoxGood(a, users[u], askers, coming, meant) /\ GoodUser(a)
    BY DEF UsersInvariant, BoxesGood, BoxGood
  <2>2. Carries(a, b, {}, {}) /\ (Prompt(a) => Prompt(b))
    BY <2>1, LoopHeadCarries DEF Prompt
  <2> HIDE DEF a, b
  <2>3. BoxGood(b, users[u], askers, coming, meant)
    BY <2>1, <2>2, CarriedGood
  <2> QED
    BY <1>2, <2>1, <2>3 DEF a, b
<1> QED
  BY <1>2, <1>3

LEMMA FinishGood ==
  ASSUME UsersInvariant, LoopInvariant', NEW after, Finish(after),
         \A u \in Place : BoxGood(after[u], users'[u], askers', coming', meant')
  PROVE  \A u \in Place : /\ BoxGood(boxes'[u], users'[u], askers', coming', meant')
                          /\ boxes'[u].tx = {} /\ boxes'[u].written = << >>
<1>1. User = Place
  BY UsersArePlaces DEF UsersInvariant
<1> SUFFICES ASSUME NEW u \in Place
             PROVE  /\ BoxGood(boxes'[u], users'[u], askers', coming', meant')
                    /\ boxes'[u].tx = {} /\ boxes'[u].written = << >>
  OBVIOUS
<1> DEFINE m == after[u]
           done == IF SendsSoon(u)' THEN LoopEnd(m) ELSE m
           sent == [done EXCEPT !.tx = {}, !.written = << >>, !.acked = {}]
<1>2. boxes'[u] = sent
  BY <1>1 DEF Finish
<1>3. BoxGood(m, users'[u], askers', coming', meant') /\ GoodUser(m)
  BY DEF BoxGood
<1> HIDE DEF m
<1>4. BoxGood(LoopEnd(m), users'[u], askers', coming', meant')
  BY <1>3, LoopEndHandled, CarriedGood
<1>5. BoxGood(done, users'[u], askers', coming', meant')
  BY <1>3, <1>4
<1> HIDE DEF done
<1>6. << >> \in Seq(Packet)
  OBVIOUS
<1>7. /\ sent \in UserRecord /\ sent.q = done.q /\ sent.soonq = done.soonq
      /\ sent.out = done.out /\ sent.cache = done.cache /\ sent.qmem = done.qmem
      /\ sent.tx = {} /\ sent.written = << >>
  BY <1>5, <1>6 DEF BoxGood, GoodUser, UserRecord
<1> HIDE DEF sent
<1> QED
  BY <1>2, <1>5, <1>7, ForgottenGood

\* One user at most is found.
LEMMA FoundOne ==
  ASSUME LoopInvariant, NEW ip, NEW u \in find_user_by_ip(ip), NEW v \in find_user_by_ip(ip)
  PROVE  u = v
<1>1. u \in Int /\ v \in Int /\ u >= 0 /\ v >= 0
  BY UsersArePlaces, NetAssumption DEF find_user_by_ip, Place
<1>2. ~ (u \in 0 .. v - 1) /\ ~ (v \in 0 .. u - 1)
  BY DEF find_user_by_ip
<1> QED
  BY <1>1, <1>2

\* A packet is passed to the user of its address.
LEMMA RouteGood ==
  ASSUME UsersInvariant, NEW p \in coming, NEW after, Routed(p), NEW asked,
         \A u \in Place : BoxGood(after[u], users'[u], asked, coming, meant),
         \A u \in Place : SlotStays(u)
  PROVE  \A u \in Place : BoxGood(Route(after, p)[u], users'[u], asked, coming', meant')
<1> DEFINE found == find_user_by_ip(Destination[p])
<1>1. User = Place /\ LoopInvariant
  BY UsersArePlaces DEF UsersInvariant
<1>2. /\ coming' = coming \ {p} /\ p \in Packet
      /\ \A x \in Packet : x # p => meant'[x] = meant[x]
      /\ \A u \in found : meant'[p] = users[u].seed
  <2>1. p \in Packet /\ meant \in [Packet -> Nat]
    BY DEF UsersInvariant, BoxesGood
  <2>2. \A u \in found : u = CHOOSE v \in found : TRUE
    BY <1>1, FoundOne
  <2> HIDE DEF found
  <2> QED
    BY <2>1, <2>2 DEF Routed, found
<1> SUFFICES ASSUME NEW u \in Place
             PROVE  BoxGood(Route(after, p)[u], users'[u], asked, coming', meant')
  OBVIOUS
<1> DEFINE a == after[u]
           b == PassOn(a, p)
<1>3. Route(after, p)[u] = IF u \in found /\ users[u].conn = "dns" THEN b ELSE a
  BY <1>1 DEF Route
<1> HIDE DEF found
<1>4. BoxGood(a, users'[u], asked, coming, meant) /\ GoodUser(a)
  BY DEF BoxGood
<1> HIDE DEF a
<1>5. BoxGood(a, users'[u], asked, coming', meant')
  <2>1. Waiting(a.out) \subseteq Packet
    BY <1>4, WaitingType DEF GoodUser
  <2> QED
    BY <1>2, <1>4, <2>1 DEF BoxGood
<1>6. ASSUME u \in found
      PROVE  BoxGood(b, users'[u], asked, coming', meant')
  <2>1. Carries(a, b, {}, {p}) /\ (Prompt(a) => Prompt(b))
    BY <1>2, <1>4, PacketHandled DEF PassOn
  <2> HIDE DEF b
  <2>2. meant'[p] = users'[u].seed /\ p \notin coming'
    BY <1>2, <1>6 DEF SlotStays
  <2>3. \A x \in Waiting(b.out) : x \notin coming' /\ meant'[x] = users'[u].seed
    BY <1>5, <2>1, <2>2 DEF BoxGood, Carries
  <2> QED
    BY <1>5, <2>1, <2>3 DEF BoxGood, Carries
<1> QED
  BY <1>3, <1>5, <1>6

-----------------------------------------------------------------------------
(***************************************************************************)
(* The handlers.                                                           *)
(***************************************************************************)
LEMMA BoxesKept ==
  ASSUME UsersInvariant, LoopInvariant', NEW after, Finish(after),
         \A u \in Place : BoxGood(after[u], users'[u], askers', coming', meant'),
         LeftGood', askers' \in Seq(Nat), coming' \subseteq Packet,
         meant' \in [Packet -> Nat]
  PROVE  BoxesGood'
BY FinishGood DEF BoxesGood

\* What a handler finds
LEMMA BoxesType ==
  ASSUME UsersInvariant
  PROVE  /\ LoopInvariant /\ TableGood /\ LeftGood /\ User = Place
         /\ askers \in Seq(Nat) /\ coming \subseteq Packet
         /\ meant \in [Packet -> Nat]
         /\ \A u \in Place : users[u].seed \in Nat /\ GoodUser(boxes[u])
BY UsersArePlaces DEF UsersInvariant, BoxesGood, TableGood, BoxGood, Table!Slot

\* The slot stays; one query more may have been asked.
LEMMA StaysGood ==
  ASSUME UsersInvariant, NEW u \in Place, NEW box, SlotStays(u), NEW asked,
         BoxGood(box, users[u], askers, coming, meant),
         asked = askers \/ \E n \in Nat : asked = Append(askers, n)
  PROVE  BoxGood(box, users'[u], asked, coming, meant)
BY BoxesType, SurroundingsChange DEF SlotStays

LEMMA HeadsStay ==
  ASSUME UsersInvariant, \A u \in Place : SlotStays(u), NEW asked,
         asked = askers \/ \E n \in Nat : asked = Append(askers, n)
  PROVE  \A u \in Place : BoxGood(LoopHeads[u], users'[u], asked, coming, meant)
BY HeadsGood, StaysGood

\* Only the records were changed by the handler.
LEMMA HandlerKeeps ==
  ASSUME UsersInvariant, LoopInvariant', NEW after, Finish(after),
         UNCHANGED << left, askers >>, NothingRouted,
         \A u \in Place : BoxGood(after[u], users'[u], askers, coming, meant)
  PROVE  BoxesGood'
<1>1. LeftGood'
  BY BoxesType DEF LeftGood
<1> QED
  BY <1>1, BoxesType, BoxesKept DEF NothingRouted

LEMMA RoutedType ==
  ASSUME UsersInvariant, NEW p, Routed(p)
  PROVE  coming' \subseteq Packet /\ meant' \in [Packet -> Nat]
<1> DEFINE found == find_user_by_ip(Destination[p])
           u == CHOOSE v \in found : TRUE
<1>1. found # {} => u \in found
  OBVIOUS
<1>2. found \subseteq Place
  BY BoxesType DEF find_user_by_ip
<1> HIDE DEF found, u
<1>3. (IF found = {} THEN 0 ELSE users[u].seed) \in Nat
  BY <1>1, <1>2, BoxesType
<1> QED
  BY <1>3, BoxesType DEF Routed, found, u

\* ... and one packet was passed on.
LEMMA RoutingKeeps ==
  ASSUME UsersInvariant, LoopInvariant', NEW p \in coming, NEW after, Routed(p),
         Finish(Route(after, p)), LeftGood', askers' \in Seq(Nat),
         \A u \in Place : SlotStays(u),
         \A u \in Place : BoxGood(after[u], users'[u], askers', coming, meant)
  PROVE  BoxesGood'
BY RoutedType, RouteGood, BoxesKept

LEMMA VersionKeeps ==
  ASSUME UsersInvariant, LoopInvariant', NEW h \in Host, Version(h)
  PROVE  BoxesGood'
<1> DEFINE i == sessions'[Len(sessions')].place
           after == [LoopHeads EXCEPT ![i] = ResetUser(boxes[i])]
<1>1. /\ i \in Place /\ DOMAIN LoopHeads = Place
      /\ \A u \in Place : u # i => SlotStays(u)
  BY BoxesType, HeadsGood, VersionKeepsTable DEF Version
<1>2. ASSUME NEW u \in Place, u # i
      PROVE  BoxGood(after[u], users'[u], askers, coming, meant)
  BY <1>1, <1>2, HeadsGood, StaysGood
<1>3. BoxGood(after[i], users'[i], askers, coming, meant)
  <2>1. after[i] = FreshUser(FALSE)
    BY <1>1 DEF ResetUser
  <2> QED
    BY <2>1, FreshUserGood DEF BoxGood
<1> HIDE DEF i
<1> QED
  BY <1>2, <1>3, HandlerKeeps DEF Version, i

LEMMA LoginKeeps ==
  ASSUME UsersInvariant, LoopInvariant', NEW n \in DOMAIN sessions, NEW h \in Host,
         Login(n, h)
  PROVE  BoxesGood'
<1>1. \A u \in Place : SlotStays(u)
  BY BoxesType, MessageKeepsTable DEF Login
<1> QED
  BY <1>1, HeadsStay, HandlerKeeps DEF Login

LEMMA SetLazyKeeps ==
  ASSUME UsersInvariant, LoopInvariant', NEW n \in DOMAIN sessions, NEW h \in Host,
         NEW lazy \in BOOLEAN, SetLazy(n, h, lazy)
  PROVE  BoxesGood'
<1> DEFINE i == sessions[n].place
           a == LoopHeads[i]
           b == [a EXCEPT !.lazy = lazy]
           after == [LoopHeads EXCEPT ![i].lazy = lazy]
<1>1. \A u \in Place : SlotStays(u)
  BY BoxesType, MessageKeepsTable DEF SetLazy
<1>2. i \in Place /\ DOMAIN LoopHeads = Place
  BY BoxesType, PlaceType, HeadsGood
<1>3. /\ after[i] = b
      /\ \A u \in Place : u # i => after[u] = LoopHeads[u]
  BY <1>2
<1>4. BoxGood(a, users'[i], askers, coming, meant)
  BY <1>1, <1>2, HeadsStay
<1> HIDE DEF a, i, after
<1>5. /\ b \in UserRecord /\ b.q = a.q /\ b.soonq = a.soonq /\ b.out = a.out
      /\ b.cache = a.cache /\ b.qmem = a.qmem
  BY <1>4 DEF BoxGood, GoodUser, UserRecord
<1> HIDE DEF b
<1>6. BoxGood(b, users'[i], askers, coming, meant)
  BY <1>4, <1>5, ForgottenGood
<1>7. \A u \in Place : BoxGood(after[u], users'[u], askers, coming, meant)
  BY <1>1, <1>3, <1>6, HeadsStay
<1> QED
  BY <1>7, HandlerKeeps DEF SetLazy, after, i

\* A query has a number of its own.
LEMMA AsksInTable ==
  ASSUME UsersInvariant, NEW n \in DOMAIN sessions, NEW h \in Host, Asks(n, h)
  PROVE  /\ \E k \in 1 .. MaxAsked : Table!HandleNewQuery(n, h, k)
         /\ Len(askers) + 1 \in users'[sessions[n].place].known
<1> DEFINE i == sessions[n].place
           k == Len(askers) + 1
           slot == [users[i] EXCEPT !.idle = 0, !.known = @ \cup {k}]
<1>1. k \in 1 .. MaxAsked
  BY UsersAssumption, BoxesType DEF Asks
<1>2. Table!HandleNewQuery(n, h, k)
  BY DEF Asks
<1>3. users' = [users EXCEPT ![i] = slot]
  BY <1>2 DEF Table!HandleNewQuery, Table!HandleTunnel, Table!Serve
<1>4. i \in Place /\ users[i] \in Table!Slot /\ users \in [Place -> Table!Slot]
  BY PlaceType, BoxesType DEF TableGood
<1>5. k \in slot.known
  BY <1>4 DEF Table!Slot
<1> HIDE DEF i, k, slot
<1>6. k \in users'[i].known
  BY <1>3, <1>4, <1>5
<1> QED
  BY <1>1, <1>2, <1>6 DEF i, k

\* A ping or a data query: the record after it, at the place of session n
LEMMA AskedType ==
  ASSUME UsersInvariant, NEW n \in DOMAIN sessions, NEW h \in Host, Asks(n, h)
  PROVE  LET i == sessions[n].place
         IN  /\ i \in Place /\ DOMAIN LoopHeads = Place
             /\ \A u \in Place : SlotStays(u)
             /\ askers' = Append(askers, users[i].seed)
             /\ users[i].seed \in Nat /\ askers' \in Seq(Nat)
             /\ Len(askers') = Len(askers) + 1
             /\ Len(askers) + 1 \in users'[i].known
             /\ GoodUser(LoopHeads[i])
<1>1. sessions[n].place \in Place /\ DOMAIN LoopHeads = Place
  BY BoxesType, PlaceType, HeadsGood
<1>2. askers' = Append(askers, users[sessions[n].place].seed)
  BY DEF Asks
<1>3. GoodUser(LoopHeads[sessions[n].place])
  BY <1>1, HeadsGood DEF BoxGood
<1>4. \A u \in Place : SlotStays(u)
  BY AsksInTable, BoxesType, MessageKeepsTable
<1> QED
  BY <1>1, <1>2, <1>3, <1>4, AsksInTable, BoxesType

LEMMA QueryAnswered ==
  ASSUME UsersInvariant, NEW n \in DOMAIN sessions, NEW h \in Host, Asks(n, h),
         NEW box,
         LET a == LoopHeads[sessions[n].place]
         IN  Carries(a, box, {Len(askers')}, {}) /\ (Prompt(a) => Prompt(box))
  PROVE  \A u \in Place :
           BoxGood([LoopHeads EXCEPT ![sessions[n].place] = box][u], users'[u],
                   askers', coming, meant)
<1> DEFINE i == sessions[n].place
           a == LoopHeads[i]
           after == [LoopHeads EXCEPT ![i] = box]
<1>1. /\ i \in Place /\ DOMAIN LoopHeads = Place
      /\ \A u \in Place : SlotStays(u)
      /\ askers' = Append(askers, users[i].seed)
      /\ users[i].seed \in Nat
      /\ Len(askers') = Len(askers) + 1
      /\ Len(askers) + 1 \in users'[i].known
  BY AskedType
<1>2. /\ BoxGood(a, users[i], askers, coming, meant)
      /\ Carries(a, box, {Len(askers) + 1}, {}) /\ (Prompt(a) => Prompt(box))
      /\ askers \in Seq(Nat)
  BY <1>1, HeadsGood, BoxesType
<1>3. /\ after[i] = box
      /\ \A u \in Place : u # i => after[u] = LoopHeads[u]
  BY <1>1
<1> HIDE DEF i, a, after
<1>4. BoxGood(box, users'[i], askers', coming, meant)
  BY <1>1, <1>2, AskedGood DEF SlotStays
<1>5. \A u \in Place : BoxGood(after[u], users'[u], askers', coming, meant)
  BY <1>1, <1>3, <1>4, HeadsStay
<1> QED
  BY <1>5 DEF after, i

LEMMA AckType ==
  ASSUME NEW box, GoodUser(box), NEW ack \in Acks(box)
  PROVE  ack \in Headers
<1>1. box.out.seqno \in Seqnos /\ box.out.fragment \in Nat
  BY DEF GoodUser, UserRecord, OutRecord
<1>2. NextSeqno(box.out.seqno) \in Seqnos
  BY <1>1, NextSeqnoType
<1> QED
  BY <1>1, <1>2, FieldType DEF Acks, Header, Headers

LEMMA PingKeeps ==
  ASSUME UsersInvariant, LoopInvariant', NEW n \in DOMAIN sessions, NEW h \in Host,
         Ping(n, h)
  PROVE  BoxesGood'
<1> DEFINE i == sessions[n].place
<1>1. Asks(n, h) /\ NothingRouted
  BY DEF Ping
<1>2. PICK ack \in Acks(boxes[i]) :
        LET qry == Query(Len(askers'), "ping", ack, NoHeader, FALSE, << >>)
        IN  /\ Finish([LoopHeads EXCEPT ![i] = HandlePing(@, qry)])
            /\ left' = qry
  BY DEF Ping
<1> DEFINE qry == Query(Len(askers'), "ping", ack, NoHeader, FALSE, << >>)
           box == HandlePing(LoopHeads[i], qry)
<1>3. /\ i \in Place /\ GoodUser(LoopHeads[i]) /\ GoodUser(boxes[i])
      /\ Len(askers') \in Nat \ {0} /\ askers' \in Seq(Nat)
  BY <1>1, AskedType, BoxesType
<1>4. NewQuery(qry) /\ Held(qry) /\ qry.num = Len(askers')
  <2>1. ack \in Headers /\ NoHeader \in Headers /\ "ping" \in Kinds /\ << >> \in Seq(Cells)
    BY <1>3, AckType DEF NoHeader, Headers, Kinds
  <2>2. Len(askers') \in Nat \ {0} /\ FALSE \in BOOLEAN
    BY <1>3
  <2> DEFINE n1 == Len(askers')
             none == << >>
             no == FALSE
             kind == "ping"
  <2>3. n1 \in Nat \ {0} /\ none \in Seq(Cells) /\ no \in BOOLEAN /\ kind \in Kinds
    BY <2>1, <2>2
  <2>4. qry = Query(n1, kind, ack, NoHeader, no, none)
    OBVIOUS
  <2> HIDE DEF n1, none, qry, no, kind
  <2>5. NewQuery(qry) /\ Held(qry) /\ qry.num = n1
    BY <2>1, <2>3, <2>4, QueryIsNew
  <2> QED
    BY <2>5 DEF n1
<1>5. Finish([LoopHeads EXCEPT ![i] = box]) /\ left' = qry
  BY <1>2
<1> HIDE DEF qry, i
<1>6. Carries(LoopHeads[i], box, {Len(askers')}, {}) /\ Prompt(box)
  BY <1>3, <1>4, PingHandled
<1> HIDE DEF box
<1>7. \A u \in Place : BoxGood([LoopHeads EXCEPT ![i] = box][u], users'[u],
                               askers', coming, meant)
  BY <1>1, <1>6, QueryAnswered DEF i
<1>8. LeftGood'
  BY <1>3, <1>4, <1>5 DEF LeftGood, NewQuery, HeldOrNone
<1> QED
  BY <1>1, <1>3, <1>5, <1>7, <1>8, BoxesType, BoxesKept DEF NothingRouted

LEMMA FragmentType ==
  ASSUME NEW box, GoodUser(box), NEW p \in Packet, NEW f \in Fragments(box, p)
  PROVE  f.up \in Headers /\ f.last \in BOOLEAN /\ f.data \in Seq(Cells)
<1>1. PICK s \in {box.inp.seqno, NextSeqno(box.inp.seqno)}, k \in 1 .. PacketLen[p] :
        f = [up   |-> [seqno |-> s, fragment |-> FragField(k - 1)],
             last |-> k = PacketLen[p],
             data |-> << << p, k >> >>]
  BY DEF Fragments
<1>2. s \in Seqnos
  BY NextSeqnoType DEF GoodUser, UserRecord
<1>3. FragField(k - 1) \in FragNos
  <2>1. k - 1 \in Nat
    BY PacketAssumption
  <2> QED
    BY <2>1, FieldType
<1>4. << p, k >> \in Cells
  BY DEF Cells
<1>5. << << p, k >> >> \in Seq(Cells)
  BY <1>4
<1> QED
  BY <1>1, <1>2, <1>3, <1>5 DEF Headers

LEMMA DataKeeps ==
  ASSUME UsersInvariant, LoopInvariant', NEW n \in DOMAIN sessions, NEW h \in Host,
         Data(n, h)
  PROVE  BoxesGood'
<1> DEFINE i == sessions[n].place
           Qry(ack, f) == Query(Len(askers'), "data", ack, f.up, f.last, f.data)
<1>1. Asks(n, h)
  BY DEF Data
<1>2. PICK ack \in Acks(boxes[i]), p \in Packet :
        /\ Sends(i, p)
        /\ \E f \in Fragments(boxes[i], p) :
             LET after == [LoopHeads EXCEPT ![i] = HandleData(@, Qry(ack, f))]
             IN  /\ left' = Qry(ack, f)
                 /\ IF after[i].written = << >>
                    THEN Finish(after) /\ NothingRouted
                    ELSE Finish(Route(after, p)) /\ Routed(p)
  BY DEF Data
<1>3. PICK f \in Fragments(boxes[i], p) :
        LET after == [LoopHeads EXCEPT ![i] = HandleData(@, Qry(ack, f))]
        IN  /\ left' = Qry(ack, f)
            /\ \/ Finish(after) /\ NothingRouted
               \/ Finish(Route(after, p)) /\ Routed(p)
  BY <1>2
<1> DEFINE qry == Qry(ack, f)
           box == HandleData(LoopHeads[i], qry)
           after == [LoopHeads EXCEPT ![i] = box]
<1>4. /\ i \in Place /\ GoodUser(LoopHeads[i]) /\ GoodUser(boxes[i])
      /\ Len(askers') \in Nat \ {0} /\ askers' \in Seq(Nat)
      /\ \A u \in Place : SlotStays(u)
      /\ Len(askers') = Len(askers) + 1 /\ Len(askers) \in Nat
  BY <1>1, AskedType, BoxesType
<1>5. NewQuery(qry) /\ Held(qry) /\ qry.num = Len(askers')
  <2>1. /\ ack \in Headers /\ "data" \in Kinds
        /\ f.up \in Headers /\ f.last \in BOOLEAN /\ f.data \in Seq(Cells)
    BY <1>4, AckType, FragmentType DEF Kinds
  <2> QED
    BY <1>4, <2>1, QueryIsNew
<1>6. /\ left' = qry
      /\ \/ Finish(after) /\ NothingRouted
         \/ Finish(Route(after, p)) /\ Routed(p)
  BY <1>3
<1> HIDE DEF Qry, qry, i
<1>7. LoopHeads[i].q.num # qry.num
  <2>1. Remembered(LoopHeads[i]) \subseteq 1 .. Len(askers)
    BY <1>4, HeadsGood DEF BoxGood
  <2>2. Held(LoopHeads[i].q) => LoopHeads[i].q.num \in 1 .. Len(askers)
    BY <2>1, RememberedIs
  <2>3. ~ Held(LoopHeads[i].q) => LoopHeads[i].q.num = 0
    BY <1>4, NoQueryType DEF GoodUser, HeldOrNone
  <2> QED
    BY <1>4, <1>5, <2>2, <2>3
<1>8. /\ Carries(LoopHeads[i], box, {Len(askers')}, {})
      /\ Prompt(LoopHeads[i]) => Prompt(box)
  BY <1>4, <1>5, <1>7, DataHandled
<1> HIDE DEF box
<1>9. \A u \in Place : BoxGood(after[u], users'[u], askers', coming, meant)
  BY <1>1, <1>8, QueryAnswered DEF i
<1> HIDE DEF after
<1>10. LeftGood'
  BY <1>4, <1>5, <1>6 DEF LeftGood, NewQuery, HeldOrNone
<1>11. CASE Finish(after) /\ NothingRouted
  BY <1>4, <1>9, <1>10, <1>11, BoxesType, BoxesKept DEF NothingRouted
<1>12. CASE Finish(Route(after, p)) /\ Routed(p)
  BY <1>2, <1>4, <1>9, <1>10, <1>12, RoutingKeeps DEF Sends
<1> QED
  BY <1>6, <1>11, <1>12

\* Raw mode: the record with q overwritten, and perhaps without what was put
\* together so far
LEMMA RawBoxGood ==
  ASSUME UsersInvariant, NEW u \in Place, SlotStays(u), users'[u].conn = "raw",
         NEW a, NEW box \in OverwriteQuery(a),
         BoxGood(a, users'[u], askers, coming, meant)
  PROVE  BoxGood(box, users'[u], askers, coming, meant)
<1>1. PICK q \in {NoQuery, left} : box = [a EXCEPT !.q = q]
  BY DEF OverwriteQuery
<1>2. q \in QueryRecord /\ HeldOrNone(q) /\ q.num \in 0 .. Len(askers)
  <2>1. Len(askers) \in Nat
    BY BoxesType
  <2> QED
    BY <2>1, BoxesType, NoQueryType DEF LeftGood, HeldOrNone
<1> QED
  BY <1>1, <1>2, BoxesType, OverwrittenGood

LEMMA EmptiedGood ==
  ASSUME UsersInvariant, NEW slot, NEW a, BoxGood(a, slot, askers, coming, meant)
  PROVE  BoxGood([a EXCEPT !.inp.buf = << >>], slot, askers, coming, meant)
<1> DEFINE b == [a EXCEPT !.inp.buf = << >>]
<1>1. << >> \in Seq(Cells)
  OBVIOUS
<1>2. /\ b \in UserRecord /\ b.q = a.q /\ b.soonq = a.soonq /\ b.out = a.out
      /\ b.cache = a.cache /\ b.qmem = a.qmem
  BY <1>1 DEF BoxGood, GoodUser, UserRecord
<1> HIDE DEF b
<1>3. BoxGood(b, slot, askers, coming, meant)
  BY <1>2, ForgottenGood
<1> QED
  BY <1>3 DEF b

LEMMA RawType ==
  ASSUME UsersInvariant, NEW n \in DOMAIN sessions, NEW h \in Host,
         Table!HandleRawLogin(n, h) \/ Table!HandleRaw(n, h)
  PROVE  LET i == sessions[n].place
         IN  /\ i \in Place /\ DOMAIN LoopHeads = Place
             /\ \A u \in Place : SlotStays(u)
             /\ users'[i].conn = "raw"
             /\ \A u \in Place : BoxGood(LoopHeads[u], users'[u], askers, coming, meant)
<1>1. (\A u \in Place : SlotStays(u)) /\ users'[sessions[n].place].conn = "raw"
  BY BoxesType, MessageKeepsTable
<1> QED
  BY <1>1, BoxesType, PlaceType, HeadsGood, HeadsStay

LEMMA RawKeeps ==
  ASSUME UsersInvariant, LoopInvariant', NEW n \in DOMAIN sessions, NEW h \in Host,
         RawLogin(n, h) \/ RawPing(n, h)
  PROVE  BoxesGood'
<1> DEFINE i == sessions[n].place
<1>1. /\ Table!HandleRawLogin(n, h) \/ Table!HandleRaw(n, h)
      /\ \E box \in OverwriteQuery(LoopHeads[i]) : Finish([LoopHeads EXCEPT ![i] = box])
      /\ UNCHANGED << left, askers >> /\ NothingRouted
  BY DEF RawLogin, RawPing
<1>2. PICK box \in OverwriteQuery(LoopHeads[i]) : Finish([LoopHeads EXCEPT ![i] = box])
  BY <1>1
<1> DEFINE after == [LoopHeads EXCEPT ![i] = box]
<1>3. /\ i \in Place /\ DOMAIN LoopHeads = Place
      /\ \A u \in Place : SlotStays(u)
      /\ users'[i].conn = "raw"
      /\ \A u \in Place : BoxGood(LoopHeads[u], users'[u], askers, coming, meant)
  BY <1>1, RawType
<1>4. after[i] = box /\ \A u \in Place : u # i => after[u] = LoopHeads[u]
  BY <1>3
<1> HIDE DEF i, after
<1>5. BoxGood(box, users'[i], askers, coming, meant)
  BY <1>2, <1>3, RawBoxGood
<1>6. \A u \in Place : BoxGood(after[u], users'[u], askers, coming, meant)
  BY <1>3, <1>4, <1>5
<1> QED
  BY <1>1, <1>2, <1>6, HandlerKeeps DEF after

LEMMA RawDataKeeps ==
  ASSUME UsersInvariant, LoopInvariant', NEW n \in DOMAIN sessions, NEW h \in Host,
         RawData(n, h)
  PROVE  BoxesGood'
<1> DEFINE i == sessions[n].place
           a == [LoopHeads[i] EXCEPT !.inp.buf = << >>]
<1>1. Table!HandleRaw(n, h) /\ UNCHANGED << left, askers >>
  BY DEF RawData
<1>2. PICK p \in Packet, box \in OverwriteQuery(a) :
        /\ p \in coming
        /\ Finish(Route([LoopHeads EXCEPT ![i] = box], p))
        /\ Routed(p)
  <2>1. OverwriteQuery([LoopHeads[i] EXCEPT !.inp.buf = << >>]) = OverwriteQuery(a)
    OBVIOUS
  <2> QED
    BY <2>1 DEF RawData, Sends
<1> DEFINE after == [LoopHeads EXCEPT ![i] = box]
<1>3. /\ i \in Place /\ DOMAIN LoopHeads = Place
      /\ \A u \in Place : SlotStays(u)
      /\ users'[i].conn = "raw"
      /\ \A u \in Place : BoxGood(LoopHeads[u], users'[u], askers, coming, meant)
  BY <1>1, RawType
<1>4. after[i] = box /\ \A u \in Place : u # i => after[u] = LoopHeads[u]
  BY <1>3
<1> HIDE DEF i, after
<1>5. BoxGood(a, users'[i], askers, coming, meant)
  BY <1>3, EmptiedGood
<1> HIDE DEF a
<1>6. BoxGood(box, users'[i], askers, coming, meant)
  BY <1>2, <1>3, <1>5, RawBoxGood
<1>7. \A u \in Place : BoxGood(after[u], users'[u], askers, coming, meant)
  BY <1>3, <1>4, <1>6
<1>8. LeftGood' /\ askers' = askers /\ askers' \in Seq(Nat)
  BY <1>1, BoxesType DEF LeftGood
<1> QED
  BY <1>2, <1>3, <1>7, <1>8, RoutingKeeps DEF after

LEMMA TunKeeps ==
  ASSUME UsersInvariant, LoopInvariant', NEW p \in Packet, Tun(p)
  PROVE  BoxesGood'
<1>1. \A u \in Place : SlotStays(u)
  BY DEF Tun, tableVars, SlotStays
<1>2. \A u \in Place : BoxGood(LoopHeads[u], users'[u], askers, coming, meant)
  BY <1>1, HeadsStay
<1>3. LeftGood' /\ askers' = askers /\ askers' \in Seq(Nat)
  BY BoxesType DEF LeftGood, Tun
<1> QED
  BY <1>1, <1>2, <1>3, RoutingKeeps DEF Tun

LEMMA IdleKeeps ==
  ASSUME UsersInvariant, LoopInvariant', Idle
  PROVE  BoxesGood'
<1>1. \A u \in Place : SlotStays(u)
  BY DEF Idle, tableVars, SlotStays
<1> QED
  BY <1>1, HeadsStay, HandlerKeeps DEF Idle

\* Only the table changes, or nothing but what a step does not touch.
LEMMA ElsewhereKeeps ==
  ASSUME UsersInvariant, \A u \in Place : SlotStays(u), UNCHANGED boxVars
  PROVE  BoxesGood'
<1>1. LeftGood'
  BY BoxesType DEF LeftGood, boxVars
<1>2. \A u \in Place : BoxGood(boxes[u], users'[u], askers, coming, meant)
  BY StaysGood DEF UsersInvariant, BoxesGood
<1> QED
  BY <1>1, <1>2 DEF UsersInvariant, BoxesGood, boxVars

LEMMA ServesKeeps ==
  ASSUME UsersInvariant, Serving, Serves
  PROVE  UsersInvariant'
<1>1. LoopInvariant'
  BY DEF UsersInvariant, Serving, initVars, LoopInvariant, User
<1>2. ASSUME NEW h \in Host, Version(h)
      PROVE  TableGood' /\ BoxesGood'
  BY <1>1, <1>2, BoxesType, VersionKeepsTable, VersionKeeps DEF Version
<1>3. ASSUME NEW n \in DOMAIN sessions, NEW h \in Host, Receives(n, h)
      PROVE  TableGood'
  <2>1. \/ Table!HandleLogin(n, h) \/ Table!HandleRequest(n, h)
        \/ \E k \in 1 .. MaxAsked : Table!HandleNewQuery(n, h, k)
        \/ Table!HandleRawLogin(n, h) \/ Table!HandleRaw(n, h)
    BY <1>3, AsksInTable
    DEF Receives, Login, SetLazy, Ping, Data, RawLogin, RawPing, RawData
  <2> QED
    BY <2>1, BoxesType, MessageKeepsTable
<1>4. ASSUME NEW n \in DOMAIN sessions, NEW h \in Host, Receives(n, h)
      PROVE  BoxesGood'
  BY <1>1, <1>4, LoginKeeps, SetLazyKeeps, PingKeeps, DataKeeps, RawKeeps, RawDataKeeps
  DEF Receives
<1>5. ASSUME UNCHANGED tableVars PROVE TableGood'
  BY <1>5, BoxesType DEF TableGood, tableVars
<1>6. ASSUME NEW p \in Packet, Tun(p) PROVE TableGood' /\ BoxesGood'
  BY <1>1, <1>5, <1>6, TunKeeps DEF Tun
<1>7. Idle => TableGood' /\ BoxesGood'
  BY <1>1, <1>5, IdleKeeps DEF Idle
<1>8. Elsewhere => TableGood' /\ BoxesGood'
  BY BoxesType, ElsewhereKeepsTable, ElsewhereKeeps DEF Elsewhere, NothingRouted, boxVars
<1> QED
  BY <1>1, <1>2, <1>3, <1>4, <1>6, <1>7, <1>8 DEF Serves, UsersInvariant

LEMMA InitGood == Init => UsersInvariant
<1> SUFFICES ASSUME Init PROVE UsersInvariant
  OBVIOUS
<1>1. LoopInvariant
  BY NetAssumption DEF Init, LoopInit, LoopInvariant, UsersIn, User
<1>2. TableGood
  <2> DEFINE h0 == CHOOSE h \in Host : TRUE
             empty == [active |-> FALSE, authenticated |-> FALSE,
                       authenticated_raw |-> FALSE, conn |-> "dns",
                       host |-> h0, seed |-> 0, idle |-> Timeout + 1,
                       known |-> {}]
  <2>1. h0 \in Host
    BY UsersAssumption
  <2>2. users = [u \in Place |-> empty] /\ sessions = << >>
    BY DEF Init, Table!Init, Table!init_users, Table!User, Place
  <2> HIDE DEF h0
  <2>3. empty \in Table!Slot /\ ~ empty.authenticated_raw
    BY <2>1, UsersAssumption DEF Table!Slot, Table!Time
  <2> HIDE DEF empty
  <2> QED
    BY <2>2, <2>3 DEF TableGood
<1>3. \A u \in Place : boxes[u] = FreshUser(FALSE)
  BY DEF Init, Place
<1>4. \A u \in Place : /\ BoxGood(boxes[u], users[u], askers, coming, meant)
                       /\ boxes[u].tx = {} /\ boxes[u].written = << >>
  <2>1. FreshUser(FALSE).written = << >>
    BY DEF FreshUser
  <2> QED
    BY <1>3, <2>1, FreshUserGood DEF BoxGood
<1>5. LeftGood
  <2>1. askers = << >> /\ left = NoQuery
    BY DEF Init
  <2> QED
    BY <2>1, NoQueryType DEF LeftGood, HeldOrNone
<1>6. /\ askers \in Seq(Nat) /\ coming \subseteq Packet
      /\ meant \in [Packet -> Nat]
  BY DEF Init
<1> QED
  BY <1>1, <1>2, <1>4, <1>5, <1>6 DEF UsersInvariant, BoxesGood

LEMMA UsersInvariantHolds == Spec => []UsersInvariant
<1>1. UsersInvariant /\ [Next]_vars => UsersInvariant'
  <2> SUFFICES ASSUME UsersInvariant, [Next]_vars PROVE UsersInvariant'
    OBVIOUS
  <2>1. ASSUME UNCHANGED << tableVars, boxVars >>
        PROVE  TableGood' /\ BoxesGood'
    <3>1. \A u \in Place : SlotStays(u)
      BY <2>1 DEF tableVars, SlotStays
    <3> QED
      BY <2>1, <3>1, BoxesType, ElsewhereKeeps DEF TableGood, tableVars
  <2>2. CASE Assign /\ UNCHANGED << tableVars, boxVars >>
    BY <2>1, <2>2, AssignKeepsLoop DEF UsersInvariant
  <2>3. CASE Serving /\ Serves
    BY <2>3, ServesKeeps
  <2>4. CASE UNCHANGED vars
    <3>1. LoopInvariant'
      BY <2>4 DEF UsersInvariant, LoopInvariant, vars, initVars, User
    <3> QED
      BY <2>1, <2>4, <3>1 DEF vars, UsersInvariant
  <2> QED
    BY <2>2, <2>3, <2>4 DEF Next
<1> QED
  BY <1>1, InitGood, PTL DEF Spec

-----------------------------------------------------------------------------
\* In a network of any size, with the server anywhere in it, every user has
\* an address a host may have, not the server's, and its own (init_users).
THEOREM AddressesAreRight == Spec => []EveryUserHasItsAddress
<1>1. LoopInvariant => EveryUserHasItsAddress
  <2> SUFFICES ASSUME LoopInvariant, NEW u \in User, u < turn
               PROVE  /\ tun_ip[u] \in 1 .. size - 2
                      /\ tun_ip[u] # my
                      /\ \A v \in User : v < turn /\ tun_ip[v] = tun_ip[u] => v = u
    BY DEF EveryUserHasItsAddress
  <2>1. tun_ip[u] \in 1 .. size - 2 /\ tun_ip[u] # my
    BY NetAssumption DEF LoopInvariant, User, UsersIn
  <2>2. \A v \in User : v < turn /\ tun_ip[v] = tun_ip[u] => v = u
    BY NetAssumption DEF LoopInvariant, User, UsersIn
  <2> QED
    BY <2>1, <2>2
<1>2. UsersInvariant => LoopInvariant
  BY DEF UsersInvariant
<1> QED
  BY <1>1, <1>2, UsersInvariantHolds, PTL

\* Whatever clients, relays and the clock do, the new owner of a slot gets no
\* packet and no answer that was meant for the last one ('V', find_user_by_ip).
THEOREM SlotsAreHandedOverClean == Spec => []NothingIsInherited
<1>1. UsersInvariant => NothingIsInherited
  BY BoxesType DEF UsersInvariant, BoxesGood, BoxGood, NothingIsInherited
<1> QED
  BY <1>1, UsersInvariantHolds, PTL

\* What the record of a user in DNS mode can recognize as a copy, by the query
\* held, the one put off, the answers cached and the names in qmem, is among
\* what UserTable says that the slot may recognize.
KnownIsEnough ==
  \A u \in User :
    users[u].conn = "dns" => Remembered(boxes[u]) \subseteq users[u].known

\* So ActiveSlotIsKept, which is about every memory within known, is about the
\* one of iodined.
THEOREM RecognizedIsKnown == Spec => []KnownIsEnough
<1>1. UsersInvariant => KnownIsEnough
  BY BoxesType DEF UsersInvariant, BoxesGood, BoxGood, KnownIsEnough
<1> QED
  BY <1>1, UsersInvariantHolds, PTL

\* A packet, from tun or from another user, is sent at once if the user it is
\* for has a query to take it (tunnel_tun, handle_full_packet).
THEOREM NobodyWaitsBesideQuery == Spec => []NoUserWaitsBesideQuery
<1>1. UsersInvariant => NoUserWaitsBesideQuery
  BY BoxesType
  DEF UsersInvariant, BoxesGood, BoxGood, Prompt, Begun, NoUserWaitsBesideQuery
<1> QED
  BY <1>1, UsersInvariantHolds, PTL
=============================================================================
