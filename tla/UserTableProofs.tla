-------------------------- MODULE UserTableProofs ---------------------------
(***************************************************************************)
(* Proofs about UserTable, for every number of slots and of sessions,      *)
(* every timeout, with and without the check of hosts.                     *)
(***************************************************************************)
EXTENDS UserTable, TLAPS

\* What is true of the slot u at place i when r are the logins confirmed:
\* a slot never granted has no seed, a slot granted that of a session placed
\* there; the logins and the mode are those of this session.
GoodSlot(i, u, r) ==
  /\ u \in Slot
  /\ ~ u.active => u.seed = 0
  /\ u.active => /\ u.seed \in DOMAIN sessions
                 /\ sessions[u.seed].place = i
  /\ u.authenticated => << "login", u.seed >> \in r
  /\ u.conn = "raw" <=> u.authenticated_raw
  /\ u.authenticated_raw => u.authenticated
  /\ u.authenticated_raw <=> << "rawlogin", u.seed >> \in r

SessionOK ==
  /\ sessions \in Seq([place : User, phase : Phase])
  /\ replies \subseteq ({"login", "rawlogin"} \X (1 .. Len(sessions)))
  /\ \A n \in DOMAIN sessions :
       sessions[n].phase = "raw" => << "rawlogin", n >> \in replies

IInv ==
  /\ SessionOK
  /\ users \in [User -> Slot]
  /\ quiet \in [User -> Time]
  /\ met \in [User -> SUBSET QueryName]
  /\ \A i \in User : GoodSlot(i, users[i], replies)

USE DEF Phase, Time

-----------------------------------------------------------------------------
LEMMA InitInductive == Init => IInv
<1> SUFFICES ASSUME Init PROVE IInv
  OBVIOUS
<1> DEFINE h0 == CHOOSE h \in Host : TRUE
           empty == [active |-> FALSE, authenticated |-> FALSE,
                     authenticated_raw |-> FALSE, conn |-> "dns",
                     host |-> h0, seed |-> 0, idle |-> Timeout + 1,
                     known |-> {}]
<1>1. h0 \in Host
  BY HostAssumption
<1> HIDE DEF h0
<1>2. empty \in Slot
  BY <1>1, TableAssumption DEF Slot
<1>3. users = [i \in User |-> empty]
  BY DEF Init, init_users, h0
<1>4. replies = {} /\ sessions = << >>
  BY DEF Init
<1>5. \A i \in User : GoodSlot(i, empty, replies)
  BY <1>2, <1>4 DEF GoodSlot
<1> HIDE DEF empty
<1>6. users \in [User -> Slot] /\ \A i \in User : GoodSlot(i, users[i], replies)
  BY <1>2, <1>3, <1>5
<1>7. SessionOK
  BY <1>4 DEF SessionOK
<1>8. quiet \in [User -> Time] /\ met \in [User -> SUBSET QueryName]
  BY TableAssumption DEF Init
<1> QED
  BY <1>6, <1>7, <1>8 DEF IInv

\* What a session is made of.
LEMMA SessionType ==
  ASSUME SessionOK, NEW n \in DOMAIN sessions
  PROVE  sessions[n].place \in User /\ sessions[n].phase \in Phase
<1>1. ASSUME NEW S, NEW s \in Seq(S), NEW k \in DOMAIN s
      PROVE  s[k] \in S
  OBVIOUS
<1>2. sessions[n] \in [place : User, phase : Phase]
  BY <1>1 DEF SessionOK
<1> QED
  BY <1>2

\* A slot stays good when a session is added.
LEMMA GoodSlotKept ==
  ASSUME NEW j \in User, GoodSlot(j, users[j], replies),
         users'[j] = users[j],
         DOMAIN sessions \subseteq DOMAIN sessions',
         \A n \in DOMAIN sessions : sessions'[n].place = sessions[n].place,
         \A k \in {"login", "rawlogin"} :
           << k, users[j].seed >> \in replies' <=> << k, users[j].seed >> \in replies
  PROVE  GoodSlot(j, users[j], replies)'
<1> DEFINE u == users[j]
<1>1. u.active => /\ u.seed \in DOMAIN sessions'
                  /\ sessions'[u.seed].place = j
  BY DEF GoodSlot
<1>2. /\ u.authenticated => << "login", u.seed >> \in replies'
      /\ u.authenticated_raw <=> << "rawlogin", u.seed >> \in replies'
  BY DEF GoodSlot
<1>3. /\ u \in Slot
      /\ ~ u.active => u.seed = 0
      /\ u.conn = "raw" <=> u.authenticated_raw
      /\ u.authenticated_raw => u.authenticated
  BY DEF GoodSlot
<1>4. users'[j] = u
  OBVIOUS
<1> HIDE DEF u
<1> QED
  BY <1>1, <1>2, <1>3, <1>4, Zenon DEF GoodSlot

\* A version request: the seed is new, so no login is confirmed for it.
LEMMA VersionInductive ==
  ASSUME IInv, NEW h \in Host, Version(h)
  PROVE  IInv'
<1>1. PICK i \in User :
        /\ users' = [users EXCEPT ![i] = FreshSlot(i, Len(sessions) + 1, h)]
        /\ sessions' = Append(sessions, [place |-> i, phase |-> "login"])
        /\ quiet' = [quiet EXCEPT ![i] = 0]
        /\ met' = [met EXCEPT ![i] = {}]
        /\ replies' = replies
  BY DEF Version
<1>2. PICK new \in Nat : new = Len(sessions) + 1
  BY DEF IInv, SessionOK
<1>3. /\ Len(sessions) \in Nat /\ Len(sessions') = new
      /\ DOMAIN sessions = 1 .. Len(sessions) /\ DOMAIN sessions' = 1 .. new
      /\ sessions'[new] = [place |-> i, phase |-> "login"]
      /\ \A n \in DOMAIN sessions : sessions'[n] = sessions[n]
      /\ sessions' \in Seq([place : User, phase : Phase])
  BY <1>1, <1>2 DEF IInv, SessionOK
<1>4. \A kind : << kind, new >> \notin replies
  BY <1>2, <1>3 DEF IInv, SessionOK
<1>5. SessionOK'
  BY <1>1, <1>2, <1>3 DEF IInv, SessionOK
<1>6. FreshSlot(i, new, h) \in Slot
  BY <1>2, TableAssumption DEF FreshSlot, Slot
<1>7. /\ users' \in [User -> Slot] /\ quiet' \in [User -> Time]
      /\ met' \in [User -> SUBSET QueryName]
  BY <1>1, <1>2, <1>6, TableAssumption DEF IInv
<1>8. ASSUME NEW j \in User PROVE GoodSlot(j, users[j], replies)'
  <2>1. CASE j = i
    <3>1. users'[j] = FreshSlot(i, new, h)
      BY <1>1, <1>2, <2>1 DEF IInv
    <3> QED
      BY <1>1, <1>2, <1>3, <1>4, <1>6, <2>1, <3>1 DEF GoodSlot, FreshSlot
  <2>2. CASE j # i
    <3>1. users'[j] = users[j] /\ GoodSlot(j, users[j], replies)
      BY <1>1, <2>2 DEF IInv
    <3> QED
      BY <1>1, <1>3, <3>1, GoodSlotKept
  <2> QED
    BY <2>1, <2>2
<1> QED
  BY <1>5, <1>7, <1>8 DEF IInv

\* A message served at a slot in use keeps the invariant, if what becomes of
\* the slot is good and only logins of its owner are confirmed.
LEMMA HandleInductive ==
  ASSUME IInv, NEW n \in DOMAIN sessions, NEW kind, NEW slot,
         Serve(kind, n, slot), met' \in [User -> SUBSET QueryName],
         users[sessions[n].place].active,
         NEW new,
         new \subseteq {<< "login", users[sessions[n].place].seed >>,
                        << "rawlogin", users[sessions[n].place].seed >>},
         replies' = replies \cup new,
         GoodSlot(sessions[n].place, slot, replies')
  PROVE  IInv'
<1> PICK i \in User : i = sessions[n].place
  BY SessionType DEF IInv
<1>1. /\ users' = [users EXCEPT ![i] = slot]
      /\ sessions' = sessions
      /\ quiet' = Heard(kind, n)
  BY DEF Serve
<1>2. PICK s \in DOMAIN sessions : s = users[i].seed /\ sessions[s].place = i
  BY DEF IInv, GoodSlot
<1>3. SessionOK'
  BY <1>1, <1>2 DEF IInv, SessionOK
<1>4. users' \in [User -> Slot] /\ quiet' \in [User -> Time]
  BY <1>1, TableAssumption DEF IInv, GoodSlot, Heard
<1>5. ASSUME NEW j \in User PROVE GoodSlot(j, users[j], replies)'
  <2>1. CASE j = i
    BY <1>1, <2>1 DEF IInv, GoodSlot
  <2>2. CASE j # i
    <3>1. users'[j] = users[j] /\ GoodSlot(j, users[j], replies)
      BY <1>1, <2>2 DEF IInv
    <3>2. users[j].seed # s
      BY <1>2, <2>2, <3>1 DEF GoodSlot, IInv, SessionOK
    <3>3. \A k \in {"login", "rawlogin"} :
            << k, users[j].seed >> \in replies' <=> << k, users[j].seed >> \in replies
      BY <1>2, <3>2
    <3> QED
      BY <1>1, <3>1, <3>3, GoodSlotKept
  <2> QED
    BY <2>1, <2>2
<1> QED
  BY <1>3, <1>4, <1>5 DEF IInv

\* The slots the handlers write.  A login served by the owner's seed ...
LEMMA LoginSlotGood ==
  ASSUME NEW i, NEW r, NEW u, GoodSlot(i, u, r), u.active
  PROVE  /\ GoodSlot(i, [u EXCEPT !.idle = 0], r)
         /\ GoodSlot(i, [u EXCEPT !.idle = 0, !.authenticated = TRUE],
                     r \cup {<< "login", u.seed >>})
<1>1. u \in Slot
  BY DEF GoodSlot
<1>2. 0 \in Time
  BY TableAssumption
<1>3. [u EXCEPT !.idle = 0] \in Slot
  BY <1>1, <1>2 DEF Slot
<1>4. [u EXCEPT !.idle = 0, !.authenticated = TRUE] \in Slot
  BY <1>1, <1>2 DEF Slot
<1> QED
  BY <1>1, <1>3, <1>4 DEF GoodSlot, Slot

\* ... and a raw login of the owner.
LEMMA RawSlotGood ==
  ASSUME NEW i, NEW r, NEW u, GoodSlot(i, u, r), u.active, u.authenticated,
         NEW h \in Host
  PROVE  GoodSlot(i, RawSlot(u, h), r \cup {<< "rawlogin", u.seed >>})
<1>1. u \in Slot
  BY DEF GoodSlot
<1>2. 0 \in Time
  BY TableAssumption
<1>3. RawSlot(u, h) \in Slot
  BY <1>1, <1>2 DEF Slot, RawSlot
<1> QED
  BY <1>1, <1>3 DEF GoodSlot, Slot, RawSlot

\* ... and a query that is taken in.
LEMMA AskedSlotGood ==
  ASSUME NEW i, NEW r, NEW u, GoodSlot(i, u, r), NEW k \in QueryName
  PROVE  GoodSlot(i, [u EXCEPT !.idle = 0, !.known = @ \cup {k}], r)
<1> DEFINE asked == [u EXCEPT !.idle = 0, !.known = @ \cup {k}]
<1>1. u \in Slot /\ 0 \in Time
  BY TableAssumption DEF GoodSlot
<1>2. /\ asked \in Slot
      /\ asked.active = u.active /\ asked.seed = u.seed /\ asked.conn = u.conn
      /\ asked.authenticated = u.authenticated
      /\ asked.authenticated_raw = u.authenticated_raw
  BY <1>1 DEF Slot
<1> HIDE DEF asked
<1>3. GoodSlot(i, asked, r)
  BY <1>2 DEF GoodSlot
<1> QED
  BY <1>3 DEF asked

LEMMA ReceiveInductive ==
  ASSUME IInv, NEW n \in DOMAIN sessions, NEW h \in Host, Receive(n, h)
  PROVE  IInv'
<1> PICK i \in User : i = sessions[n].place
  BY SessionType DEF IInv
<1>1. /\ GoodSlot(i, users[i], replies)
      /\ met \in [User -> SUBSET QueryName]
  BY DEF IInv
<1>2. CASE HandleLogin(n, h)
  <2>1. users[i].active
    BY <1>2 DEF HandleLogin, check_user_and_ip
  <2> DEFINE kept == [users[i] EXCEPT !.idle = 0]
  <2>2. CASE /\ LoginHashMatches(n, i)
             /\ Handle("login", n, [kept EXCEPT !.authenticated = TRUE])
             /\ replies' = replies \cup {<< "login", n >>}
    <3>1. users[i].seed = n
      BY <2>2 DEF LoginHashMatches
    <3>2. GoodSlot(i, [kept EXCEPT !.authenticated = TRUE], replies')
      BY <1>1, <2>1, <2>2, <3>1, LoginSlotGood
    <3> QED
      BY <1>1, <2>1, <2>2, <3>1, <3>2, HandleInductive DEF Handle
  <2>3. CASE Handle("login", n, kept) /\ replies' = replies
    <3>1. GoodSlot(i, kept, replies')
      BY <1>1, <2>1, <2>3, LoginSlotGood
    <3>2. replies' = replies \cup {}
      BY <2>3
    <3> QED
      BY <1>1, <2>1, <2>3, <3>1, <3>2, HandleInductive DEF Handle
  <2> QED
    BY <1>2, <2>2, <2>3 DEF HandleLogin
<1>3. CASE HandleRequest(n, h)
  <2>1. users[i].active /\ Handle("request", n, users[i])
    BY <1>3
    DEF HandleRequest, check_authenticated_user_and_ip, check_user_and_ip
  <2>2. replies' = replies \cup {} /\ GoodSlot(i, users[i], replies')
    BY <1>1, <1>3 DEF HandleRequest
  <2> QED
    BY <1>1, <2>1, <2>2, HandleInductive DEF Handle
<1>4. ASSUME NEW k \in QueryName, HandleNewQuery(n, h, k) \/ HandleCopy(n, h, k)
      PROVE  IInv'
  <2> DEFINE asked == [users[i] EXCEPT !.idle = 0, !.known = @ \cup {k}]
  <2>1. HandleTunnel(n, h, k, asked) \/ HandleTunnel(n, h, k, users[i])
    BY <1>4 DEF HandleNewQuery, HandleCopy
  <2>2. GoodSlot(i, asked, replies)
    BY <1>1, AskedSlotGood
  <2> HIDE DEF asked
  <2>3. PICK slot \in {asked, users[i]} : HandleTunnel(n, h, k, slot)
    BY <2>1
  <2>4. /\ users[i].active /\ \E kind : Serve(kind, n, slot)
        /\ met' = [met EXCEPT ![i] = @ \cup {k}]
        /\ replies' = replies \cup {}
    BY <2>3 DEF HandleTunnel, check_authenticated_user_and_ip, check_user_and_ip
  <2>5. GoodSlot(i, slot, replies') /\ met' \in [User -> SUBSET QueryName]
    BY <1>1, <2>2, <2>4
  <2> QED
    BY <2>4, <2>5, HandleInductive
<1>5. CASE HandleRaw(n, h)
  <2>1. /\ users[i].active
        /\ Handle("raw", n, [users[i] EXCEPT !.idle = 0])
        /\ replies' = replies \cup {}
    BY <1>5 DEF HandleRaw, check_authenticated_user_and_ip, check_user_and_ip
  <2>2. GoodSlot(i, [users[i] EXCEPT !.idle = 0], replies')
    BY <1>1, <2>1, LoginSlotGood
  <2> QED
    BY <1>1, <2>1, <2>2, HandleInductive DEF Handle
<1>6. CASE HandleRawLogin(n, h)
  <2>1. /\ users[i].active /\ users[i].authenticated /\ users[i].seed = n
        /\ Handle("rawlogin", n, RawSlot(users[i], h))
        /\ replies' = replies \cup {<< "rawlogin", n >>}
    BY <1>6 DEF HandleRawLogin, LoginHashMatches
  <2>2. GoodSlot(i, RawSlot(users[i], h), replies')
    BY <1>1, <2>1, RawSlotGood
  <2> QED
    BY <1>1, <2>1, <2>2, HandleInductive DEF Handle
<1> QED
  BY <1>2, <1>3, <1>4, <1>5, <1>6 DEF Receive

LEMMA TickInductive ==
  ASSUME IInv, Tick
  PROVE  IInv'
<1> DEFINE older(i) == [users[i] EXCEPT !.idle = IF @ > Timeout THEN @ ELSE @ + 1]
<1>1. /\ users' = [i \in User |-> older(i)]
      /\ sessions' = sessions /\ replies' = replies
  BY DEF Tick
<1>2. ASSUME NEW i \in User
      PROVE  /\ older(i) \in Slot
             /\ \A f \in {"active", "authenticated", "authenticated_raw",
                          "conn", "seed"} : older(i)[f] = users[i][f]
  <2>1. users[i] \in Slot
    BY DEF IInv
  <2>2. (IF users[i].idle > Timeout THEN users[i].idle ELSE users[i].idle + 1) \in Time
    BY <2>1, TableAssumption DEF Slot
  <2> QED
    BY <2>1, <2>2 DEF Slot
<1> HIDE DEF older
<1>3. users' \in [User -> Slot]
  BY <1>1, <1>2
<1>4. quiet' \in [User -> Time] /\ met' \in [User -> SUBSET QueryName]
  BY TableAssumption DEF IInv, Tick
<1>5. SessionOK'
  BY <1>1 DEF IInv, SessionOK
<1>6. ASSUME NEW i \in User PROVE GoodSlot(i, users[i], replies)'
  <2>1. GoodSlot(i, users[i], replies)
    BY DEF IInv
  <2>2. GoodSlot(i, older(i), replies)
    BY <1>2, <2>1 DEF GoodSlot
  <2>3. users'[i] = older(i)
    BY <1>1
  <2> QED
    BY <1>1, <2>2, <2>3 DEF GoodSlot
<1> QED
  BY <1>3, <1>4, <1>5, <1>6 DEF IInv

\* The steps of the client: only a confirmed raw login leads to raw mode.
LEMMA ClientInductive ==
  ASSUME IInv, NEW n \in DOMAIN sessions,
         ClientLoggedIn(n) \/ ClientRawLoggedIn(n) \/ ClientGivesUpRaw(n)
  PROVE  IInv'
<1>1. PICK to \in Phase :
        /\ sessions' = [sessions EXCEPT ![n].phase = to]
        /\ to = "raw" => << "rawlogin", n >> \in replies
        /\ users' = users /\ replies' = replies /\ quiet' = quiet /\ met' = met
  BY DEF ClientLoggedIn, ClientRawLoggedIn, ClientGivesUpRaw, Advance
<1>2. /\ DOMAIN sessions' = DOMAIN sessions /\ Len(sessions') = Len(sessions)
      /\ \A k \in DOMAIN sessions :
           /\ sessions'[k].place = sessions[k].place
           /\ sessions'[k].phase = IF k = n THEN to ELSE sessions[k].phase
      /\ sessions' \in Seq([place : User, phase : Phase])
  <2> DEFINE S == [place : User, phase : Phase]
  <2>1. \A k \in DOMAIN sessions : sessions[k] \in S
    <3>1. ASSUME NEW T, NEW s \in Seq(T), NEW k \in DOMAIN s PROVE s[k] \in T
      OBVIOUS
    <3> QED
      BY <3>1 DEF IInv, SessionOK
  <2>2. [sessions[n] EXCEPT !.phase = to] \in S
    BY <2>1
  <2>3. \A k \in DOMAIN sessions :
          sessions'[k] = IF k = n THEN [sessions[n] EXCEPT !.phase = to]
                         ELSE sessions[k]
    BY <1>1
  <2>4. /\ DOMAIN sessions' = DOMAIN sessions /\ Len(sessions') = Len(sessions)
        /\ sessions' \in Seq(S)
    <3>1. ASSUME NEW T, NEW s \in Seq(T), NEW k \in DOMAIN s, NEW x \in T
          PROVE  /\ [s EXCEPT ![k] = x] \in Seq(T)
                 /\ Len([s EXCEPT ![k] = x]) = Len(s)
                 /\ DOMAIN [s EXCEPT ![k] = x] = DOMAIN s
      OBVIOUS
    <3> HIDE DEF S
    <3> QED
      BY <1>1, <2>2, <3>1 DEF IInv, SessionOK, S
  <2> QED
    BY <2>1, <2>2, <2>3, <2>4
<1>3. SessionOK'
  BY <1>1, <1>2 DEF IInv, SessionOK
<1>4. ASSUME NEW i \in User PROVE GoodSlot(i, users[i], replies)'
  BY <1>1, <1>2, GoodSlotKept DEF IInv
<1> QED
  BY <1>1, <1>3, <1>4 DEF IInv

LEMMA StepInductive == IInv /\ [Next]_vars => IInv'
<1> SUFFICES ASSUME IInv, [Next]_vars PROVE IInv'
  OBVIOUS
<1>1. CASE \E h \in Host : Version(h)
  BY <1>1, VersionInductive
<1>2. CASE \E n \in DOMAIN sessions, h \in Host : Receive(n, h)
  BY <1>2, ReceiveInductive
<1>3. CASE Tick
  BY <1>3, TickInductive
<1>4. CASE \E n \in DOMAIN sessions :
             ClientLoggedIn(n) \/ ClientRawLoggedIn(n) \/ ClientGivesUpRaw(n)
  BY <1>4, ClientInductive
<1>5. CASE UNCHANGED vars
  BY <1>5 DEF vars, IInv, SessionOK, GoodSlot
<1> QED
  BY <1>1, <1>2, <1>3, <1>4, <1>5 DEF Next

LEMMA Inductive == Spec => []IInv
BY InitInductive, StepInductive, PTL DEF Spec

-----------------------------------------------------------------------------
\* Every field of the table keeps its type, and the seed of a slot in use is
\* that of a session granted there (find_available_user, handle_null_request).
THEOREM TypeCorrect == Spec => []TypeOK
<1>1. IInv => TypeOK
  BY DEF IInv, SessionOK, GoodSlot, TypeOK
<1> QED
  BY <1>1, Inductive, PTL

\* A slot is authenticated only by a login of its present owner, however many
\* slots and sessions there are and however late messages come.
THEOREM OnlyOwnLogin == Spec => []OnlyOwnLoginCounts
<1>1. IInv => OnlyOwnLoginCounts
  BY DEF IInv, GoodSlot, OnlyOwnLoginCounts
<1> QED
  BY <1>1, Inductive, PTL

\* A slot is in raw mode exactly if its present owner passed both logins.
THEOREM OnlyOwnRawLogin == Spec => []OnlyOwnRawLoginCounts
<1>1. IInv => OnlyOwnRawLoginCounts
  BY DEF IInv, GoodSlot, OnlyOwnRawLoginCounts
<1> QED
  BY <1>1, Inductive, PTL

\* A client in raw mode finds the server in raw mode as long as the slot is
\* its own (handle_raw_login, handshake_raw_udp).
THEOREM RawMeetsRaw == Spec => []RawClientMeetsRawServer
<1>1. IInv => RawClientMeetsRawServer
  <2> SUFFICES ASSUME IInv, NEW n \in DOMAIN sessions,
                      sessions[n].phase = "raw", Owns(n)
               PROVE  users[sessions[n].place].conn = "raw"
    BY DEF RawClientMeetsRawServer
  <2>1. << "rawlogin", n >> \in replies /\ sessions[n].place \in User
    BY SessionType DEF IInv, SessionOK
  <2>2. GoodSlot(sessions[n].place, users[sessions[n].place], replies)
    BY <2>1 DEF IInv
  <2> QED
    BY <2>1, <2>2 DEF GoodSlot, Owns
<1> QED
  BY <1>1, Inductive, PTL

-----------------------------------------------------------------------------
\* The owner of a slot was served no later than last_pkt says: every message
\* that resets the ghost resets last_pkt.
QuietOK == \A i \in User : quiet[i] >= users[i].idle

\* A slot in DNS mode recognizes only what came since it was granted.
MemoryOK == \A i \in User : users[i].conn = "dns" => users[i].known \subseteq met[i]

\* What a message changes at its slot, with the kind the ghost takes it for
SlotAfter(i, u, kind) ==
  \/ /\ u.seed = users[i].seed /\ u.idle = 0
     /\ \/ u.known = users[i].known /\ u.conn = users[i].conn
        \/ u.known \subseteq met'[i]
        \/ u.conn = "raw"
  \/ u = users[i] /\ kind \in {"request", "copy"}

LEMMA MessageAtSlot ==
  ASSUME IInv, MemoryOK, NEW n \in DOMAIN sessions, NEW h \in Host, Receive(n, h)
  PROVE  LET i == sessions[n].place
         IN  /\ met[i] \subseteq met'[i]
             /\ \A j \in User : j # i => met'[j] = met[j]
             /\ \E kind, slot : Serve(kind, n, slot) /\ SlotAfter(i, slot, kind)
<1> PICK i \in User : i = sessions[n].place
  BY SessionType DEF IInv
<1>1. users[i] \in Slot /\ met \in [User -> SUBSET QueryName]
  BY DEF IInv
<1> DEFINE kept   == [users[i] EXCEPT !.idle = 0]
           logged == [kept EXCEPT !.authenticated = TRUE]
           raw    == RawSlot(users[i], h)
<1>2. /\ kept.seed = users[i].seed /\ kept.idle = 0
      /\ kept.known = users[i].known /\ kept.conn = users[i].conn
      /\ logged.seed = users[i].seed /\ logged.idle = 0
      /\ logged.known = users[i].known /\ logged.conn = users[i].conn
      /\ raw.seed = users[i].seed /\ raw.idle = 0 /\ raw.conn = "raw"
  BY <1>1 DEF Slot, RawSlot
<1>3. CASE HandleLogin(n, h) \/ HandleRaw(n, h) \/ HandleRawLogin(n, h)
  <2>1. \E kind, slot : Handle(kind, n, slot) /\ slot \in {kept, logged, raw}
    <3>1. HandleLogin(n, h) => Handle("login", n, kept) \/ Handle("login", n, logged)
      BY DEF HandleLogin
    <3>2. HandleRaw(n, h) => Handle("raw", n, kept)
      BY DEF HandleRaw
    <3>3. HandleRawLogin(n, h) => Handle("rawlogin", n, raw)
      BY DEF HandleRawLogin
    <3> HIDE DEF kept, logged, raw
    <3> QED
      BY <1>3, <3>1, <3>2, <3>3
  <2> HIDE DEF kept, logged, raw
  <2> QED
    BY <1>2, <2>1 DEF Handle, SlotAfter
<1>4. CASE HandleRequest(n, h)
  BY <1>4 DEF HandleRequest, Handle, SlotAfter
<1>5. ASSUME NEW k \in QueryName, HandleNewQuery(n, h, k) \/ HandleCopy(n, h, k)
      PROVE  /\ met[i] \subseteq met'[i]
             /\ \A j \in User : j # i => met'[j] = met[j]
             /\ \E kind, slot : Serve(kind, n, slot) /\ SlotAfter(i, slot, kind)
  <2> DEFINE asked == [users[i] EXCEPT !.idle = 0, !.known = @ \cup {k}]
             kind == IF IsFirst(i, k) THEN "tunnel" ELSE "copy"
  <2>1. /\ met' = [met EXCEPT ![i] = @ \cup {k}]
        /\ \/ Serve(kind, n, asked)
           \/ Serve(kind, n, users[i]) /\ k \in users[i].known
    BY <1>5 DEF HandleNewQuery, HandleCopy, HandleTunnel
  <2>2. met'[i] = met[i] \cup {k} /\ \A j \in User : j # i => met'[j] = met[j]
    BY <1>1, <2>1
  <2>3. SlotAfter(i, asked, kind)
    <3>1. /\ asked.seed = users[i].seed /\ asked.idle = 0
          /\ asked.conn = users[i].conn /\ asked.known = users[i].known \cup {k}
      BY <1>1 DEF Slot
    <3>2. CASE users[i].conn = "dns"
      BY <2>2, <3>1, <3>2 DEF MemoryOK, SlotAfter
    <3>3. CASE users[i].conn # "dns"
      BY <1>1, <3>1, <3>3 DEF Slot, SlotAfter
    <3> QED
      BY <3>2, <3>3
  <2>4. k \in users[i].known => SlotAfter(i, users[i], kind)
    BY DEF MemoryOK, IsFirst, SlotAfter
  <2> HIDE DEF asked, kind
  <2> QED
    BY <2>1, <2>2, <2>3, <2>4
<1> QED
  BY <1>3, <1>4, <1>5 DEF Receive

\* What a step does to one slot.
SlotStep(i) ==
  \/ /\ users'[i] = users[i] /\ quiet'[i] = quiet[i]
  \/ users'[i].seed = users[i].seed /\ users'[i].idle = 0
  \/ Available(i) /\ users'[i].idle = 0
  \/ Tick

LEMMA EverySlotSteps ==
  ASSUME IInv, MemoryOK, Activity \cap {"request", "copy"} = {}, [Next]_vars,
         NEW i \in User
  PROVE  /\ SlotStep(i)
         /\ users'[i].conn = "dns" => users'[i].known \subseteq met'[i]
<1>1. /\ users \in [User -> Slot] /\ quiet \in [User -> Time] /\ users[i] \in Slot
      /\ met \in [User -> SUBSET QueryName]
      /\ users[i].conn = "dns" => users[i].known \subseteq met[i]
  BY DEF IInv, MemoryOK
<1>2. CASE \E h \in Host : Version(h)
  <2>1. PICK j \in User, h \in Host :
          /\ Available(j)
          /\ users' = [users EXCEPT ![j] = FreshSlot(j, Len(sessions) + 1, h)]
          /\ quiet' = [quiet EXCEPT ![j] = 0]
          /\ met' = [met EXCEPT ![j] = {}]
    BY <1>2 DEF Version
  <2>2. CASE j = i
    BY <1>1, <2>1, <2>2 DEF SlotStep, FreshSlot
  <2>3. CASE j # i
    BY <1>1, <2>1, <2>3 DEF SlotStep
  <2> QED
    BY <2>2, <2>3
<1>3. ASSUME NEW n \in DOMAIN sessions, NEW h \in Host, Receive(n, h)
      PROVE  /\ SlotStep(i)
             /\ users'[i].conn = "dns" => users'[i].known \subseteq met'[i]
  <2> PICK j \in User : j = sessions[n].place
    BY SessionType DEF IInv
  <2>1. /\ met[j] \subseteq met'[j] /\ (j # i => met'[i] = met[i])
        /\ \E kind, slot : Serve(kind, n, slot) /\ SlotAfter(j, slot, kind)
    BY <1>3, MessageAtSlot
  <2>2. PICK kind, slot : Serve(kind, n, slot) /\ SlotAfter(j, slot, kind)
    BY <2>1
  <2>3. users' = [users EXCEPT ![j] = slot]
        /\ (kind \in {"request", "copy"} => quiet' = quiet)
        /\ (j # i => quiet'[i] = quiet[i])
    BY <1>1, <2>2 DEF Serve, Heard
  <2>4. CASE j = i
    <3>1. users'[i] = slot
      BY <1>1, <2>3, <2>4
    <3>2. SlotStep(i)
      BY <2>2, <2>3, <2>4, <3>1 DEF SlotStep, SlotAfter
    <3>3. slot.conn = "dns" => slot.known \subseteq met'[i]
      BY <1>1, <2>1, <2>2, <2>4 DEF SlotAfter
    <3> QED
      BY <3>1, <3>2, <3>3
  <2>5. CASE j # i
    BY <1>1, <2>1, <2>3, <2>5 DEF SlotStep
  <2> QED
    BY <2>4, <2>5
<1>4. CASE \E n \in DOMAIN sessions :
             ClientLoggedIn(n) \/ ClientRawLoggedIn(n) \/ ClientGivesUpRaw(n)
  BY <1>1, <1>4 DEF ClientLoggedIn, ClientRawLoggedIn, ClientGivesUpRaw, Advance,
                    SlotStep
<1>5. CASE Tick
  <2>1. /\ users'[i].conn = users[i].conn /\ users'[i].known = users[i].known
        /\ met' = met
    BY <1>1, <1>5 DEF Tick, Slot
  <2> QED
    BY <1>1, <1>5, <2>1 DEF SlotStep
<1>6. CASE UNCHANGED vars
  BY <1>1, <1>6 DEF vars, SlotStep
<1> QED
  BY <1>2, <1>3, <1>4, <1>5, <1>6 DEF Next

LEMMA QuietInductive ==
  ASSUME IInv, QuietOK, MemoryOK, Activity \cap {"request", "copy"} = {}, [Next]_vars
  PROVE  QuietOK' /\ MemoryOK'
<1>1. IInv'
  BY StepInductive
<1>2. ASSUME NEW i \in User PROVE quiet'[i] >= users'[i].idle
  <2>1. /\ users[i].idle \in Time /\ quiet[i] \in Time
        /\ users'[i].idle \in Time /\ quiet'[i] \in Time
        /\ quiet[i] >= users[i].idle
    BY <1>1 DEF IInv, QuietOK, Slot
  <2>2. CASE Tick
    <3>1. users[i] \in Slot
      BY DEF IInv
    <3>2. /\ users'[i].idle = IF users[i].idle > Timeout THEN users[i].idle
                              ELSE users[i].idle + 1
          /\ quiet'[i] = IF quiet[i] > Timeout THEN quiet[i] ELSE quiet[i] + 1
      BY <2>2, <3>1 DEF Tick, Slot
    <3> QED
      BY <2>1, <3>2, TableAssumption
  <2> QED
    BY <2>1, <2>2, EverySlotSteps DEF SlotStep
<1> QED
  BY <1>2, EverySlotSteps DEF QuietOK, MemoryOK

\* A slot passes to another session only if for a minute no login, no raw
\* message and no new ping or data query of its owner was served
\* (find_available_user and every handler that sets last_pkt).  Queries that a
\* slot recognizes as copies do not set it, nor do 'I', 'S', 'O', 'N' and 'R'
\* requests, so that this does not hold if they count.
THEOREM ActiveSlotKept ==
  ASSUME Activity \cap {"request", "copy"} = {}
  PROVE  Spec => ActiveSlotIsKept
<1>1. Init => QuietOK /\ MemoryOK
  <2> SUFFICES ASSUME Init, NEW i \in User
               PROVE  quiet[i] >= users[i].idle /\ users[i].known \subseteq met[i]
    BY DEF QuietOK, MemoryOK
  <2>1. quiet[i] = Timeout + 1 /\ users[i].idle = Timeout + 1 /\ users[i].known = {}
    BY DEF Init, init_users
  <2> QED
    BY <2>1, TableAssumption
<1>2. IInv /\ (QuietOK /\ MemoryOK) /\ [Next]_vars => (QuietOK /\ MemoryOK)'
  BY QuietInductive
<1>3. ASSUME IInv, QuietOK, MemoryOK, [Next]_vars, NEW i \in User,
             users'[i].seed # users[i].seed, users[i].active
      PROVE  quiet[i] > Timeout
  <2>1. users[i] \in Slot /\ quiet[i] \in Time /\ quiet[i] >= users[i].idle
    BY <1>3 DEF IInv, QuietOK
  <2>2. ~ Tick
    <3>1. Tick => users'[i].seed = users[i].seed
      BY <2>1 DEF Tick, Slot
    <3> QED
      BY <1>3, <3>1
  <2>3. Available(i)
    BY <1>3, <2>2, EverySlotSteps DEF SlotStep
  <2> QED
    BY <1>3, <2>1, <2>3, TableAssumption DEF Available, Slot
<1>4. IInv /\ (QuietOK /\ MemoryOK) /\ [Next]_vars =>
        [\A i \in User :
           users'[i].seed # users[i].seed /\ users[i].active =>
             quiet[i] > Timeout]_vars
  BY <1>3
<1> QED
  BY <1>1, <1>2, <1>4, Inductive, PTL DEF Spec, ActiveSlotIsKept
=============================================================================
