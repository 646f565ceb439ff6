----------------------------- MODULE UserTable ------------------------------
(***************************************************************************)
(* The table of users of iodined: who gets a slot, who may use it, and     *)
(* what becomes of it when nothing is heard for a minute.                  *)
(*                                                                         *)
(* A session is one answer of iodined to a version request: a slot and a   *)
(* seed, which here is the number of the session.  Requests carry the slot *)
(* only, logins also a hash of the seed.  Every message of a session may   *)
(* come at any time after its client could first send it, again and again, *)
(* and from any host: relays keep copies, and a client may use several.    *)
(***************************************************************************)
EXTENDS Integers, Sequences

CONSTANTS usercount,     \* slots of the table
          Timeout,       \* 60 seconds, in ticks of the model
          Host,          \* addresses messages come from
          check_ip,      \* option -c: FALSE
          QueryName,     \* what iodined tells tunnel queries apart by
          Activity,      \* the kinds of messages the ghost quiet listens to
          MaxSessions    \* bound of the model: version requests granted

ASSUME TableAssumption == usercount \in Nat /\ Timeout \in Nat \ {0}
ASSUME HostAssumption == Host # {}
ASSUME CheckAssumption == check_ip \in BOOLEAN

(***************************************************************************)
(* users    the table of iodined; idle is the time since last_pkt          *)
(* sessions what iodined granted, and how far the client has got           *)
(* replies  the logins and raw logins iodined has confirmed                *)
(* quiet    ghost: the time since the owner of a slot was last served      *)
(* met      ghost: the tunnel queries a slot was asked since it was granted*)
(***************************************************************************)
VARIABLES users, sessions, replies, quiet, met

vars == << users, sessions, replies, quiet, met >>

User == 0 .. usercount - 1
Time == 0 .. Timeout + 1      \* longer silences are all alike
Kind == {"login", "request", "tunnel", "copy", "rawlogin", "raw"}

(***************************************************************************)
(* The client: it logs in, then either uses DNS (option -r, or it does not *)
(* learn the address of the server) or tries raw UDP, and uses that or,    *)
(* after four tries, DNS.                                                  *)
(***************************************************************************)
Phase == {"login", "dns", "trying", "raw", "fallback"}

\* What may come from a client that got that far: also late copies.
MaySend(kind, phase) ==
  CASE kind = "login"    -> TRUE
    [] kind = "request"  -> phase # "login"
    [] kind \in {"tunnel", "copy"} -> phase \in {"dns", "fallback"}
    [] kind = "rawlogin" -> phase \in {"trying", "raw", "fallback"}
    [] kind = "raw"      -> phase = "raw"

\* known: the tunnel queries that may be among those held (q, q_sendrealsoon)
\* or remembered (dnscache, qmemping, qmemdata)
Slot == [active : BOOLEAN, authenticated : BOOLEAN, authenticated_raw : BOOLEAN,
         conn : {"dns", "raw"}, host : Host, seed : Nat, idle : Time,
         known : SUBSET QueryName]

\* A new table: no slot is in use, last_pkt is long ago, and nobody looks at
\* the host
init_users ==
  users = [i \in User |->
             [active |-> FALSE, authenticated |-> FALSE,
              authenticated_raw |-> FALSE, conn |-> "dns",
              host |-> CHOOSE h \in Host : TRUE, seed |-> 0,
              idle |-> Timeout + 1, known |-> {}]]

Init ==
  /\ init_users
  /\ sessions = << >>
  /\ replies = {}
  /\ quiet = [i \in User |-> Timeout + 1]
  /\ met = [i \in User |-> {}]
-----------------------------------------------------------------------------
\* Wrong: a slot once used is never free again.
Available_Never(i) == ~ users[i].active

Available(i) == ~ users[i].active \/ users[i].idle > Timeout

\* Wrong: the new owner inherits the login of the old one.
FreshSlot_LoginKept(i, seed, h) ==
  [users[i] EXCEPT !.active = TRUE, !.authenticated_raw = FALSE,
                   !.conn = "dns", !.host = h, !.seed = seed, !.idle = 0,
                   !.known = {}]

\* Wrong: the new owner inherits the raw mode of the old one.
FreshSlot_RawKept(i, seed, h) ==
  [users[i] EXCEPT !.active = TRUE, !.authenticated = FALSE,
                   !.host = h, !.seed = seed, !.idle = 0, !.known = {}]

\* Wrong: the new owner inherits the memory of the old one.
FreshSlot_MemoryKept(i, seed, h) ==
  [active |-> TRUE, authenticated |-> FALSE, authenticated_raw |-> FALSE,
   conn |-> "dns", host |-> h, seed |-> seed, idle |-> 0,
   known |-> users[i].known]

\* find_available_user and the version handshake on what it found
FreshSlot(i, seed, h) ==
  [active |-> TRUE, authenticated |-> FALSE, authenticated_raw |-> FALSE,
   conn |-> "dns", host |-> h, seed |-> seed, idle |-> 0, known |-> {}]

\* A version request: the first available slot, with a new seed.  If there is
\* none the answer is VFUL and nothing changes.
Version(h) ==
  \E i \in User :
    /\ Len(sessions) < MaxSessions
    /\ Available(i) /\ \A j \in 0 .. i - 1 : ~ Available(j)
    /\ users' = [users EXCEPT ![i] = FreshSlot(i, Len(sessions) + 1, h)]
    /\ sessions' = Append(sessions, [place |-> i, phase |-> "login"])
    /\ quiet' = [quiet EXCEPT ![i] = 0]
    /\ met' = [met EXCEPT ![i] = {}]
    /\ UNCHANGED replies

check_user_and_ip(i, h) ==
  /\ users[i].active
  /\ users[i].idle <= Timeout
  /\ check_ip => users[i].host = h

check_authenticated_user_and_ip(i, h) ==
  check_user_and_ip(i, h) /\ users[i].authenticated

\* The ghost when a message of session n was served at its slot
Heard(kind, n) ==
  LET i == sessions[n].place
  IN  IF kind \in Activity /\ users[i].seed = n THEN [quiet EXCEPT ![i] = 0]
      ELSE quiet

\* A message of session n is at its slot, and the code for it sets these
Serve(kind, n, slot) ==
  /\ MaySend(kind, sessions[n].phase)
  /\ users' = [users EXCEPT ![sessions[n].place] = slot]
  /\ quiet' = Heard(kind, n)
  /\ UNCHANGED sessions

Handle(kind, n, slot) == Serve(kind, n, slot) /\ UNCHANGED met

\* login_calculate on the seed of the slot gives what the client sent
LoginHashMatches(n, i) == users[i].seed = n

\* 'L': a login by the password and the seed the client knows, or by a wrong
\* password, which keeps the slot alive all the same
HandleLogin(n, h) ==
  LET i    == sessions[n].place
      kept == [users[i] EXCEPT !.idle = 0]
  IN  /\ check_user_and_ip(i, h)
      /\ \/ /\ LoginHashMatches(n, i)
            /\ Handle("login", n, [kept EXCEPT !.authenticated = TRUE])
            /\ replies' = replies \cup {<< "login", n >>}
         \/ /\ Handle("login", n, kept)
            /\ UNCHANGED replies

\* 'I', 'S', 'O', 'N', 'R': the settings they change are not in this table,
\* and last_pkt stays as it is
HandleRequest(n, h) ==
  /\ check_authenticated_user_and_ip(sessions[n].place, h)
  /\ Handle("request", n, users[sessions[n].place])
  /\ UNCHANGED replies

\* A query is the first of its name since the slot was granted.  In raw mode a
\* slot does not know what came to it.
IsFirst(i, k) == users[i].conn = "dns" /\ k \notin met[i]

\* 'P' and data queries, by their names.  (Those with id 0 or too short are
\* thrown away: they are lost.)
HandleTunnel(n, h, k, slot) ==
  LET i == sessions[n].place
  IN  /\ check_authenticated_user_and_ip(i, h)
      /\ Serve(IF IsFirst(i, k) THEN "tunnel" ELSE "copy", n, slot)
      /\ met' = [met EXCEPT ![i] = @ \cup {k}]
      /\ UNCHANGED replies

\* The query is new to the slot, or forgotten.
HandleNewQuery(n, h, k) ==
  HandleTunnel(n, h, k,
    [users[sessions[n].place] EXCEPT !.idle = 0, !.known = @ \cup {k}])

\* The query is answered from a cache, or noted as a copy of one that is held:
\* both return before last_pkt is set.
HandleCopy(n, h, k) ==
  LET i == sessions[n].place
  IN  k \in users[i].known /\ HandleTunnel(n, h, k, users[i])

\* The slot in raw mode, for the host the raw login came from.  It holds a query
\* of which only the sender was set: what is in its name may be any other's.
RawSlot(slot, h) ==
  [slot EXCEPT !.idle = 0, !.host = h, !.authenticated_raw = TRUE,
               !.conn = "raw", !.known = QueryName]

\* handle_raw_login: as check_authenticated_user_and_ip, but from any host
HandleRawLogin(n, h) ==
  LET i == sessions[n].place
  IN  /\ users[i].active /\ users[i].authenticated
      /\ users[i].idle <= Timeout
      /\ LoginHashMatches(n, i)
      /\ Handle("rawlogin", n, RawSlot(users[i], h))
      /\ replies' = replies \cup {<< "rawlogin", n >>}

\* handle_raw_data and handle_raw_ping
HandleRaw(n, h) ==
  LET i == sessions[n].place
  IN  /\ check_authenticated_user_and_ip(i, h)
      /\ users[i].authenticated_raw
      /\ Handle("raw", n, [users[i] EXCEPT !.idle = 0])
      /\ UNCHANGED replies

\* A second passes
Tick ==
  /\ users' = [i \in User |->
                 [users[i] EXCEPT !.idle = IF @ > Timeout THEN @ ELSE @ + 1]]
  /\ quiet' = [i \in User |-> IF quiet[i] > Timeout THEN quiet[i]
                              ELSE quiet[i] + 1]
  /\ UNCHANGED << sessions, replies, met >>
-----------------------------------------------------------------------------
\* The client goes on to another phase
Advance(n, from, to) ==
  /\ sessions[n].phase = from
  /\ sessions' = [sessions EXCEPT ![n].phase = to]
  /\ UNCHANGED << users, replies, quiet, met >>

\* handshake_login has its answer
ClientLoggedIn(n) ==
  /\ << "login", n >> \in replies
  /\ Advance(n, "login", "dns") \/ Advance(n, "login", "trying")

\* Wrong: the client takes raw mode for granted.
ClientRawLoggedIn_Unasked(n) == Advance(n, "trying", "raw")

\* handshake_raw_udp has its answer
ClientRawLoggedIn(n) ==
  /\ << "rawlogin", n >> \in replies
  /\ Advance(n, "trying", "raw")

\* handshake_raw_udp has tried often enough
ClientGivesUpRaw(n) == Advance(n, "trying", "fallback")

Receive(n, h) ==
  \/ HandleLogin(n, h) \/ HandleRequest(n, h)
  \/ \E k \in QueryName : HandleNewQuery(n, h, k) \/ HandleCopy(n, h, k)
  \/ HandleRawLogin(n, h) \/ HandleRaw(n, h)

Next ==
  \/ \E h \in Host : Version(h)
  \/ \E n \in DOMAIN sessions, h \in Host : Receive(n, h)
  \/ Tick
  \/ \E n \in DOMAIN sessions :
       ClientLoggedIn(n) \/ ClientRawLoggedIn(n) \/ ClientGivesUpRaw(n)

Spec == Init /\ [][Next]_vars

\* Time goes on, whatever arrives or does not.
FairSpec == Spec /\ WF_vars(Tick)
-----------------------------------------------------------------------------
(***************************************************************************)
(* Properties.                                                             *)
(***************************************************************************)

\* Every field holds a value of its type, and the seed of a slot in use is
\* that of a session granted there.
TypeOK ==
  /\ users \in [User -> Slot]
  /\ sessions \in Seq([place : User, phase : Phase])
  /\ replies \subseteq ({"login", "rawlogin"} \X (1 .. Len(sessions)))
  /\ quiet \in [User -> Time]
  /\ met \in [User -> SUBSET QueryName]
  /\ \A i \in User : users[i].active =>
       /\ users[i].seed \in DOMAIN sessions
       /\ sessions[users[i].seed].place = i

\* The session a slot belongs to has passed the login challenge itself: not
\* its predecessor in the slot, nor by a login that was under way since
\* (find_available_user, login_calculate).
OnlyOwnLoginCounts ==
  \A i \in User :
    users[i].authenticated => << "login", users[i].seed >> \in replies

\* A slot is in raw mode exactly if its owner itself passed the raw login,
\* and then it had passed the other one before.
OnlyOwnRawLoginCounts ==
  \A i \in User :
    /\ users[i].conn = "raw" <=> users[i].authenticated_raw
    /\ users[i].authenticated_raw =>
         /\ users[i].authenticated
         /\ << "rawlogin", users[i].seed >> \in replies

Owns(n) == users[sessions[n].place].seed = n

\* A client that uses raw UDP finds the server in raw mode, as long as the
\* slot is its own: nothing, not even a late DNS query, switches back.
RawClientMeetsRawServer ==
  \A n \in DOMAIN sessions :
    sessions[n].phase = "raw" /\ Owns(n) =>
      users[sessions[n].place].conn = "raw"

\* A slot passes to another session only if for a minute iodined has served no
\* login, no raw message and no new tunnel query of its owner, whatever others
\* sent in the meantime.  A tunnel query is new if none of its name has come
\* since the slot was granted: what the last owner left in the caches does not
\* make iodined take it for a copy, which would not keep the slot.
\* (find_available_user; the returns before last_pkt is set.)
ActiveSlotIsKept ==
  [][\A i \in User :
       users'[i].seed # users[i].seed /\ users[i].active =>
         quiet[i] > Timeout]_vars

\* A slot nobody is served at becomes available: a full server does not stay
\* full.
SilentSlotComesFree ==
  \A i \in User : []<>(Available(i) \/ users[i].idle = 0)
=============================================================================
