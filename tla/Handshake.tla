----------------------------- MODULE Handshake ------------------------------
(***************************************************************************)
(* The handshake of the client over DNS and what iodined makes of it:      *)
(* requests that are repeated until an answer fits, and settings that      *)
(* change at the server when a request arrives and at the client when the  *)
(* answer does.  With it the count of queries and answers by which the     *)
(* client leaves lazy mode, since it outlives a connection.                *)
(*                                                                         *)
(* Raw mode is in UserTable, what the tests of the relay find in           *)
(* Autodetect and FragsizeProbe; here they may find anything.              *)
(***************************************************************************)
EXTENDS Integers, Sequences

CONSTANTS created_users,   \* slots of the server
          Codecs,          \* codecs of upstream data, "Base32" among them
          Tries,           \* how often a request is made: 5
          NoneLimit,       \* queries without any answer: 6
          FewLimit,        \* queries with too few answers: 10
          CountLimit,      \* queries that are counted: 100
          lazy_mode,       \* the user's choice
          Lines,           \* the lines to the server: of "perfect", "poor"
          check_ip,        \* option -c: FALSE
          MaxTests,        \* bound of the model: queries of one test
          MaxLag,          \* bound of the model: queries still under way
          MaxConnections   \* bound of the model: connections of the process

ASSUME CodecAssumption == "Base32" \in Codecs /\ "BADIP" \notin Codecs
ASSUME NumberAssumption ==
  /\ created_users \in Nat \ {0} /\ Tries \in Nat \ {0, 1} /\ MaxLag \in Nat \ {0, 1}
  /\ NoneLimit \in Nat /\ FewLimit \in Nat /\ CountLimit \in Nat
  /\ MaxTests \in Nat /\ MaxConnections \in Nat
ASSUME SwitchAssumption ==
  lazy_mode \in BOOLEAN /\ check_ip \in BOOLEAN
ASSUME LineAssumption == Lines \subseteq {"perfect", "poor"}

(***************************************************************************)
(* c           the client's variables                                      *)
(* users       the settings in the slots of iodined                        *)
(* recent      the client's last queries: each may reach iodined, and any  *)
(*             number of times, and carries the answers given to it        *)
(* connection  the number of the connection of this process                *)
(* line        a poor line loses messages, and its queries reach iodined   *)
(*             by several relays                                           *)
(***************************************************************************)
VARIABLES c, users, recent, connection, line

vars == << c, users, recent, connection, line >>

User == 0 .. created_users - 1

TestSteps == {"uptest", "downtest", "probe"}
HandshakeSteps == TestSteps \cup
  {"version", "login", "codec", "downenc", "lazy", "fragsize"}

\* The first letter of the query of a step
Letter(step) ==
  CASE step = "version" -> "v" [] step = "login" -> "l"
    [] step = "codec" -> "s"   [] step \in {"downenc", "lazy"} -> "o"
    [] step = "fragsize" -> "n" [] step = "tunnel" -> "p"
    [] OTHER -> "test"         \* 'y', 'z' and 'r': nothing changes by them

\* A user that is not in use
NoUser == [active |-> FALSE, authenticated |-> FALSE, encoder |-> "Base32",
           downenc |-> FALSE, lazy |-> FALSE, fragsize |-> FALSE]

(***************************************************************************)
(* The client.  off counts the tries of handshake_lazyoff, which           *)
(* send_query may call in the middle of anything, and is 0 outside it;     *)
(* downenc: an encoding was chosen; patient: selecttimeout > 1.            *)
(***************************************************************************)
Init ==
  /\ c = [step |-> "over", tries |-> 0, off |-> 0, userid |-> 0,
          dataenc |-> "Base32", upcodec |-> "Base32", downenc |-> FALSE,
          lazymode |-> FALSE, patient |-> FALSE, sendcnt |-> -1, recvcnt |-> 0]
  /\ users = [u \in User |-> NoUser]
  /\ recent = << >>
  /\ connection = 0
  /\ line \in Lines
-----------------------------------------------------------------------------
(***************************************************************************)
(* Sending.                                                                *)
(***************************************************************************)

Make(kind, user, arg) ==
  [kind |-> kind, user |-> user, arg |-> arg, got |-> FALSE, answers |-> {}]

send_lazy_switch(cl) ==
  Make("o", cl.userid, IF cl.lazymode THEN "Lazy" ELSE "Immediate")

\* What the client asks at its step, or in handshake_lazyoff
Request(cl) ==
  IF cl.off > 0 \/ cl.step = "lazy" THEN send_lazy_switch(cl)
  ELSE Make(Letter(cl.step), cl.userid,
            CASE cl.step = "codec"   -> cl.upcodec
              [] cl.step = "downenc" -> "Downenc"
              [] OTHER               -> "None")

\* Wrong: queries are counted from the first, not from the tunnel on.
Counting_FromStart(cl) == cl.sendcnt < CountLimit /\ cl.lazymode

Counting(cl) == cl.sendcnt \in 0 .. CountLimit - 1 /\ cl.lazymode

TooFewAnswers(sent, received) ==
  \/ sent > NoneLimit /\ received <= 0
  \/ sent > FewLimit /\ 4 * received < sent

\* The count in send_query, which first shortens the timeout and then gives
\* lazy mode up
CountQuery(cl) ==
  LET n == cl.sendcnt + 1
  IN  IF ~ Counting(cl) THEN cl
      ELSE IF ~ TooFewAnswers(n, cl.recvcnt) THEN [cl EXCEPT !.sendcnt = n]
      ELSE IF cl.patient
        THEN [cl EXCEPT !.patient = FALSE, !.sendcnt = 0, !.recvcnt = 0]
      ELSE [cl EXCEPT !.sendcnt = n, !.lazymode = FALSE, !.off = 1]

Newest(queries) ==
  SubSeq(queries, IF Len(queries) > MaxLag THEN Len(queries) - MaxLag + 1 ELSE 1,
         Len(queries))

\* send_query, and the first query of handshake_lazyoff if it comes to that
Send(cl) ==
  LET sent == CountQuery(cl)
      new  == IF sent.off = cl.off THEN << Request(cl) >>
              ELSE << Request(cl), Request(sent) >>
  IN  /\ c' = sent
      /\ recent' = Newest(recent \o new)

NextStep(cl) ==
  CASE cl.step = "version" -> "login"
    [] cl.step = "login" -> "uptest"
    [] cl.step = "uptest" /\ cl.upcodec # "Base32" -> "codec"
    [] cl.step = "codec" \/ (cl.step = "uptest" /\ cl.upcodec = "Base32") ->
         IF cl.downenc THEN "downenc" ELSE "downtest"
    [] cl.step = "downtest" /\ cl.downenc -> "downenc"
    [] cl.step = "downenc" \/ (cl.step = "downtest" /\ ~ cl.downenc) ->
         IF cl.lazymode THEN "lazy" ELSE "probe"
    [] cl.step = "lazy" -> "probe"
    [] cl.step = "probe" -> "fragsize"
    [] cl.step = "fragsize" -> "tunnel"

\* client_handshake goes on; client_tunnel_cb starts to count
GoOn(cl) ==
  IF cl.step = "fragsize"
  THEN c' = [cl EXCEPT !.step = "tunnel", !.sendcnt = 0] /\ UNCHANGED recent
  ELSE Send([cl EXCEPT !.step = NextStep(cl), !.tries = 1])

Fail == c' = [c EXCEPT !.step = "failed"] /\ UNCHANGED recent

Legacy(cl) == [cl EXCEPT !.lazymode = FALSE, !.patient = FALSE]

GiveUp ==
  CASE c.step \in {"version", "login"} -> Fail
    [] c.step = "lazy"                 -> GoOn(Legacy(c))
    [] OTHER                           -> GoOn(c)

\* Wrong: the tries are not counted.
TryAgain_NotCounted == IF c.tries < Tries THEN Send(c) ELSE GiveUp

TryAgain == IF c.tries < Tries THEN Send([c EXCEPT !.tries = @ + 1]) ELSE GiveUp
-----------------------------------------------------------------------------
(***************************************************************************)
(* The client waits.                                                       *)
(***************************************************************************)

\* handshake_waitdns: only an answer to the latest query, and with its letter
Fits ==
  /\ recent # << >>
  /\ recent[Len(recent)].kind = IF c.off > 0 THEN "o" ELSE Letter(c.step)

Answers == IF Fits THEN recent[Len(recent)].answers ELSE {}

Loses == line = "poor"

MayTimeOut == Loses \/ ~ Fits

InStep(steps) == c.step \in steps /\ c.off = 0 /\ UNCHANGED << users, connection, line >>

VersionAnswered ==
  /\ InStep({"version"})
  /\ \E a \in Answers :
       IF a.text = "VACK" THEN GoOn([c EXCEPT !.userid = a.user]) ELSE Fail

LoginAnswered ==
  /\ InStep({"login"})
  /\ \E a \in Answers : IF a.text = "Ok" THEN GoOn(c) ELSE TryAgain

\* Wrong: a refusal is taken for consent.
SwitchCodec_Unread(a) == [c EXCEPT !.dataenc = c.upcodec]

SwitchCodec(a) == IF a.text = "BADIP" THEN c ELSE [c EXCEPT !.dataenc = c.upcodec]

CodecAnswered ==
  /\ InStep({"codec"})
  /\ \E a \in Answers : GoOn(SwitchCodec(a))

DownencOrFragsizeAnswered ==
  /\ InStep({"downenc", "fragsize"})
  /\ Answers # {}
  /\ GoOn(c)

\* Wrong: any answer, even a refusal, means lazy mode.
SaysLazy_Unread(a) == TRUE

SaysLazy(a) == a.text = "Lazy"

LazyAnswered ==
  /\ InStep({"lazy"})
  /\ \E a \in Answers :
       \/ SaysLazy(a) /\ GoOn([c EXCEPT !.lazymode = TRUE])
       \/ ~ SaysLazy(a) /\ a.text = "BADIP" /\ GoOn(Legacy(c))
       \/ ~ SaysLazy(a) /\ a.text # "BADIP" /\ TryAgain

Timeout ==
  /\ InStep(HandshakeSteps \ TestSteps)
  /\ MayTimeOut
  /\ TryAgain

\* The tests of the relay: another query, or a result
TestGoesOn ==
  /\ InStep(TestSteps)
  /\ Answers # {} \/ MayTimeOut
  /\ c.tries < MaxTests
  /\ Send([c EXCEPT !.tries = @ + 1])

TestEnds ==
  /\ InStep(TestSteps)
  /\ Answers # {} \/ MayTimeOut
  /\ \/ \E codec \in Codecs : c.step = "uptest" /\ GoOn([c EXCEPT !.upcodec = codec])
     \/ \E found \in BOOLEAN : c.step = "downtest" /\ GoOn([c EXCEPT !.downenc = found])
     \/ c.step = "probe" /\ (GoOn(c) \/ Fail)

InLazyoff == c.off > 0 /\ UNCHANGED << users, connection, line >>

LazyoffAnswered ==
  /\ InLazyoff
  /\ \E a \in Answers : a.text = "Immediate"
  /\ c' = [Legacy(c) EXCEPT !.off = 0]
  /\ UNCHANGED recent

LazyoffAgain ==
  /\ InLazyoff
  /\ MayTimeOut \/ \E a \in Answers : a.text # "Immediate"
  /\ IF c.off < Tries THEN Send([c EXCEPT !.off = @ + 1])
     ELSE c' = [c EXCEPT !.off = 0] /\ UNCHANGED recent

\* A query of the tunnel.  On a relay that loses nothing the server keeps one
\* query back and answers the others in time.
Ping ==
  /\ InStep({"tunnel"})
  /\ Loses \/ \A i \in 1 .. Len(recent) - 1 : recent[i].kind = "p" => recent[i].got
  /\ Send(c)

\* An answer in the tunnel.  Answers beyond CountLimit make no difference to
\* TooFewAnswers.
PingAnswered(i) ==
  /\ InStep({"tunnel"})
  /\ recent[i].kind = "p" /\ ~ recent[i].got
  /\ \E a \in recent[i].answers : a.text # "BADIP"
  /\ recent' = [recent EXCEPT ![i].got = TRUE]
  /\ c' = [c EXCEPT !.recvcnt = IF @ < CountLimit THEN @ + 1 ELSE @]

\* client_stop, in the handshake or in the tunnel
Stop ==
  /\ c.step \notin {"over", "failed"}
  /\ c' = [c EXCEPT !.step = "over", !.off = 0]
  /\ UNCHANGED << users, recent, connection, line >>

\* connect: client_init and the options, on a new socket
Connect ==
  /\ c.step \in {"over", "failed"}
  /\ connection < MaxConnections
  /\ connection' = connection + 1
  /\ Send([c EXCEPT !.step = "version", !.tries = 1, !.dataenc = "Base32",
                    !.upcodec = "Base32", !.lazymode = lazy_mode,
                    !.patient = TRUE])
  /\ UNCHANGED << users, line >>
-----------------------------------------------------------------------------
(***************************************************************************)
(* iodined: query i arrives, or arrives again.                             *)
(***************************************************************************)

Reply(i, text, user) ==
  recent' = [recent EXCEPT ![i].answers = @ \cup {[text |-> text, user |-> user]}]

Arrives(i, kind) == recent[i].kind = kind /\ UNCHANGED << c, connection, line >>

Set(u, record) == users' = [users EXCEPT ![u] = record]

\* No minute without a message passes here
Available(u) == ~ users[u].active

HandleVersion(i) ==
  /\ Arrives(i, "v")
  /\ \/ \E u \in User :
          /\ Available(u) /\ \A v \in 0 .. u - 1 : ~ Available(v)
          /\ Set(u, [NoUser EXCEPT !.active = TRUE])
          /\ Reply(i, "VACK", u)
     \/ /\ \A u \in User : ~ Available(u)
        /\ Reply(i, "VFUL", 0)
        /\ UNCHANGED users

\* The user is unknown, or the query took a way through another relay
Refuse(i) ==
  /\ recent[i].kind \in {"l", "s", "o", "n", "p"}
  /\ \/ check_ip /\ Loses
     \/ ~ users[recent[i].user].active
     \/ recent[i].kind # "l" /\ ~ users[recent[i].user].authenticated
  /\ Reply(i, "BADIP", 0)
  /\ UNCHANGED << c, users, connection, line >>

HandleLogin(i) ==
  LET u == recent[i].user
  IN  /\ Arrives(i, "l")
      /\ users[u].active
      /\ Set(u, [users[u] EXCEPT !.authenticated = TRUE])
      /\ Reply(i, "Ok", 0)

HandleTest(i) == Arrives(i, "test") /\ Reply(i, "Ok", 0) /\ UNCHANGED users

\* user_switch_codec
HandleCodec(i) ==
  LET u == recent[i].user
  IN  /\ Arrives(i, "s")
      /\ users[u].authenticated
      /\ Set(u, [users[u] EXCEPT !.encoder = recent[i].arg])
      /\ Reply(i, recent[i].arg, 0)

HandleOption(i) ==
  LET u == recent[i].user
      option == recent[i].arg
  IN  /\ Arrives(i, "o")
      /\ users[u].authenticated
      /\ Set(u, IF option = "Downenc" THEN [users[u] EXCEPT !.downenc = TRUE]
                ELSE [users[u] EXCEPT !.lazy = (option = "Lazy")])
      /\ Reply(i, option, 0)

HandleFragsize(i) ==
  LET u == recent[i].user
  IN  /\ Arrives(i, "n")
      /\ users[u].authenticated
      /\ Set(u, [users[u] EXCEPT !.fragsize = TRUE])
      /\ Reply(i, "Ok", 0)

HandlePing(i) ==
  /\ Arrives(i, "p")
  /\ users[recent[i].user].authenticated
  /\ Reply(i, "Ok", 0)
  /\ UNCHANGED users

HandshakeNext ==
  \/ VersionAnswered \/ LoginAnswered \/ CodecAnswered
  \/ DownencOrFragsizeAnswered \/ LazyAnswered \/ Timeout
  \/ TestGoesOn \/ TestEnds
  \/ LazyoffAnswered \/ LazyoffAgain

IodinedNext ==
  \E i \in DOMAIN recent :
    \/ HandleVersion(i) \/ Refuse(i) \/ HandleLogin(i) \/ HandleTest(i)
    \/ HandleCodec(i) \/ HandleOption(i) \/ HandleFragsize(i) \/ HandlePing(i)

Next ==
  \/ HandshakeNext \/ IodinedNext
  \/ Ping \/ \E i \in DOMAIN recent : PingAnswered(i)
  \/ Stop \/ Connect

Spec == Init /\ [][Next]_vars

\* Every wait of the handshake has a timeout.
FairSpec == Spec /\ WF_vars(HandshakeNext)
-----------------------------------------------------------------------------
(***************************************************************************)
(* Properties.                                                             *)
(***************************************************************************)

InTunnel == c.step = "tunnel" /\ c.off = 0

\* A client that switched its codec has a server that decodes it: no late
\* copy of a query takes that back, and no refusal is taken for consent.  On a
\* line that answers everything the same holds of a client that stayed with
\* Base32.  On a poor one it does not: the answers to the switch get lost, and
\* the client goes on with Base32 (handshake_switch_codec).
ConfirmedCodecIsUsed ==
  \/ c.dataenc = "Base32" /\ (InTunnel => Loses)
  \/ c.step \notin HandshakeSteps \cup {"tunnel"}
  \/ users[c.userid].encoder = c.dataenc

\* A client in lazy mode has a server in lazy mode, also after the
\* handshake_lazyoff that send_query starts in the middle of the handshake.
LazyAgreed == InTunnel /\ c.lazymode => users[c.userid].lazy

\* On a line that answers everything a client that wants lazy mode has it: the counts of
\* send_query never tell otherwise.
AnsweredMeansLazy == InTunnel /\ ~ Loses /\ lazy_mode => c.lazymode

\* Whatever a poor line loses, the handshake ends, in a tunnel or with an
\* error.  (On a perfect one nothing times out, so it ends if iodined runs.)
HandshakeEnds ==
  c.step \in HandshakeSteps /\ Loses ~> c.step \notin HandshakeSteps
=============================================================================
