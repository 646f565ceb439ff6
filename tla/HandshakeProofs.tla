-------------------------- MODULE HandshakeProofs ---------------------------
(***************************************************************************)
(* What the two ends agree on after the handshake, however many tries it   *)
(* took and whatever was repeated or lost; and what the tests of the relay *)
(* and the probes for the fragment size have shown by then.                *)
(***************************************************************************)
EXTENDS Handshake, Autodetect, FragsizeProbe, SequenceTheorems, TLAPS

-----------------------------------------------------------------------------
(***************************************************************************)
(* The invariant, as a predicate on a client, the slots and the recent     *)
(* queries: a client that is about to send is a value, not yet a state.    *)
(***************************************************************************)
Args  == Codecs \cup {"None", "Downenc", "Lazy", "Immediate"}
Texts == Args \cup {"VACK", "VFUL", "BADIP", "Ok"}

Client ==
  [step : HandshakeSteps \cup {"tunnel", "over", "failed"}, tries : Nat, off : Nat,
   userid : User, dataenc : Codecs, upcodec : Codecs, downenc : BOOLEAN,
   lazymode : BOOLEAN, patient : BOOLEAN, sendcnt : Int, recvcnt : Nat]
Slot ==
  [active : BOOLEAN, authenticated : BOOLEAN, encoder : Codecs,
   downenc : BOOLEAN, lazy : BOOLEAN, fragsize : BOOLEAN]
Query ==
  [kind : {"v", "l", "s", "o", "n", "p", "test"}, user : User, arg : Args,
   got : BOOLEAN, answers : SUBSET [text : Texts, user : User]]

Last(rec) == rec[Len(rec)]

\* The client has been given a slot
Settled(cl) == cl.step \in (HandshakeSteps \ {"version"}) \cup {"tunnel"}

\* The client connects or is connected
Busy(cl) == cl.step \in HandshakeSteps \cup {"tunnel"}

Early == {"login", "uptest"}
Late  == {"downtest", "downenc", "lazy", "probe", "fragsize", "tunnel"}

\* Queries with the number of a slot that was given to somebody
Naming == {"l", "s", "o", "n", "p"}

\* What is true of everybody's queries, ...
QuerySound(q, us) ==
  /\ q.kind \in Naming => us[q.user].active
  /\ q.kind = "s" => q.arg \in Codecs
  /\ q.kind = "o" => q.arg \in {"Lazy", "Immediate", "Downenc"}
  /\ \A a \in q.answers :
       /\ q.kind = "v" /\ a.text = "VACK" => us[a.user].active
       /\ q.kind = "l" /\ a.text = "Ok" => us[q.user].authenticated
       /\ q.kind = "o" => a.text \in {q.arg, "BADIP"}

\* ... and of those with the number of the client's slot.  A client in lazy
\* mode has not asked to leave it, ...
LazySound(q, cl, us) ==
  q.kind = "o" =>
    /\ q.arg = "Immediate" => ~ cl.lazymode
    /\ cl.lazymode /\ (\E a \in q.answers : a.text = "Lazy") => us[q.user].lazy

\* ... and whoever has asked for a codec still wants the same one.
CodecSound(q, cl, us) ==
  q.kind = "s" =>
    /\ q.arg = cl.upcodec /\ cl.step \notin Early
    /\ (\E a \in q.answers : a.text # "BADIP") => us[q.user].encoder = cl.upcodec

OwnSound(q, cl, us) == LazySound(q, cl, us) /\ CodecSound(q, cl, us)

\* The client and the slot it was given
SlotSound(cl, us) ==
  /\ us[cl.userid].active
  /\ cl.step # "login" => us[cl.userid].authenticated
  /\ cl.step \in Early => us[cl.userid].encoder = "Base32" /\ cl.dataenc = "Base32"
  /\ cl.dataenc # "Base32" => cl.dataenc = cl.upcodec /\ us[cl.userid].encoder = cl.upcodec
  /\ cl.step \in {"probe", "fragsize", "tunnel"} /\ cl.lazymode => us[cl.userid].lazy

\* handshake_lazyoff is called in lazy mode only, and when queries are counted
OffSound(cl) ==
  /\ cl.off > 0 => ~ cl.lazymode /\ cl.sendcnt >= 0
  /\ cl.step \in {"over", "failed"} => cl.off = 0

QueriesSound(cl, us, rec) ==
  \A n \in 1 .. Len(rec) :
    /\ QuerySound(rec[n], us)
    /\ Settled(cl) /\ rec[n].user = cl.userid => OwnSound(rec[n], cl, us)

Good(cl, us, rec) ==
  /\ cl \in Client /\ us \in [User -> Slot] /\ rec \in Seq(Query)
  /\ cl.sendcnt >= 0 => us[cl.userid].active
  /\ OffSound(cl)
  /\ cl.step = "version" => cl.dataenc = "Base32" /\ cl.upcodec = "Base32"
  /\ Settled(cl) => SlotSound(cl, us)
  /\ QueriesSound(cl, us, rec)

\* A slot that was given away and not used yet
Pristine(u, us, rec) ==
  /\ us[u] = [NoUser EXCEPT !.active = TRUE]
  /\ \A n \in 1 .. Len(rec) : rec[n].kind \in Naming => rec[n].user # u

\* The latest query
LastSound(cl, us, rec) ==
  rec # << >> =>
    /\ Last(rec).user = cl.userid
    /\ Last(rec).kind = "o" /\ Last(rec).arg = "Lazy" => cl.lazymode
    /\ cl.step = "version" /\ Last(rec).kind = "v" =>
         \A a \in Last(rec).answers : a.text = "VACK" => Pristine(a.user, us, rec)

(***************************************************************************)
(* On a line that answers everything: no request for a codec is refused,   *)
(* and only handshake_lazyoff, which happens once, keeps the client from   *)
(* an answer to it.                                                        *)
(***************************************************************************)
NoneRefused(cl, rec) ==
  Settled(cl) =>
    \A n \in 1 .. Len(rec) : \A a \in rec[n].answers :
      rec[n].kind = "s" /\ rec[n].user = cl.userid => a.text # "BADIP"

SecondTry(cl, rec) ==
  cl.step = "codec" =>
    /\ rec # << >>
    /\ cl.off > 0 \/ Last(rec).kind # "s" => cl.tries = 1 /\ ~ cl.lazymode

BothSwitched(cl, us) ==
  cl.step \in Late => cl.dataenc = cl.upcodec /\ us[cl.userid].encoder = cl.upcodec

Perfect(cl, us, rec) ==
  NoneRefused(cl, rec) /\ SecondTry(cl, rec) /\ BothSwitched(cl, us)

IInv ==
  /\ Good(c, users, recent)
  /\ LastSound(c, users, recent)
  /\ ~ Loses => Perfect(c, users, recent)

-----------------------------------------------------------------------------
(***************************************************************************)
(* Sending.                                                                *)
(***************************************************************************)

LEMMA Numbers ==
  /\ created_users \in Nat \ {0} /\ 0 \in User /\ Tries \in Nat /\ Tries > 1
  /\ MaxLag \in Nat /\ MaxLag > 1
  /\ NoneLimit \in Nat /\ FewLimit \in Nat /\ CountLimit \in Nat
  BY NumberAssumption DEF User

\* The last queries of a line
LEMMA NewestOf ==
  ASSUME NEW qs \in Seq(Query), qs # << >>
  PROVE  /\ Newest(qs) \in Seq(Query)
         /\ Len(Newest(qs)) = IF Len(qs) > MaxLag THEN MaxLag ELSE Len(qs)
         /\ \A n \in 1 .. Len(Newest(qs)) :
              /\ n + Len(qs) - Len(Newest(qs)) \in 1 .. Len(qs)
              /\ Newest(qs)[n] = qs[n + Len(qs) - Len(Newest(qs))]
<1> DEFINE m == IF Len(qs) > MaxLag THEN Len(qs) - MaxLag + 1 ELSE 1
<1>1. Len(qs) \in Nat /\ Len(qs) > 0
  BY EmptySeq
<1>2. m \in 1 .. Len(qs)
  BY <1>1, Numbers
<1>3. \A k \in m .. Len(qs) : qs[k] \in Query
  BY <1>1, <1>2, ElementOfSeq
<1>4. Newest(qs) = SubSeq(qs, m, Len(qs))
  BY DEF Newest
<1> HIDE DEF m
<1>5. /\ Newest(qs) \in Seq(Query)
      /\ Len(Newest(qs)) = Len(qs) - m + 1
      /\ \A n \in 1 .. Len(qs) - m + 1 : Newest(qs)[n] = qs[m + n - 1]
  BY <1>1, <1>2, <1>3, <1>4, SubSeqProperties
<1>6. Len(Newest(qs)) = IF Len(qs) > MaxLag THEN MaxLag ELSE Len(qs)
  BY <1>1, <1>5, Numbers DEF m
<1>7. \A n \in 1 .. Len(Newest(qs)) :
        /\ n + Len(qs) - Len(Newest(qs)) \in 1 .. Len(qs)
        /\ n + Len(qs) - Len(Newest(qs)) = m + n - 1
  BY <1>1, <1>2, <1>5
<1> QED
  BY <1>5, <1>6, <1>7

\* The recent queries after one or two more
LEMMA Appended ==
  ASSUME NEW rec \in Seq(Query), NEW new \in Seq(Query), new # << >>
  PROVE  LET r == Newest(rec \o new) IN
         /\ r \in Seq(Query) /\ r # << >>
         /\ Last(r) = Last(new)
         /\ \A n \in 1 .. Len(r) :
              \/ \E k \in 1 .. Len(rec) : r[n] = rec[k]
              \/ \E k \in 1 .. Len(new) : r[n] = new[k]
<1> DEFINE qs == rec \o new
           r  == Newest(qs)
<1>1. /\ Len(rec) \in Nat /\ Len(new) \in Nat /\ Len(new) > 0
  BY EmptySeq
<1>2. /\ qs \in Seq(Query) /\ Len(qs) = Len(rec) + Len(new)
      /\ \A n \in 1 .. Len(rec) + Len(new) :
           qs[n] = IF n <= Len(rec) THEN rec[n] ELSE new[n - Len(rec)]
  BY ConcatProperties
<1> HIDE DEF qs
<1>3. qs # << >> /\ Len(qs) > 0
  BY <1>1, <1>2, EmptySeq
<1>4. /\ r \in Seq(Query) /\ Len(r) \in Nat /\ Len(r) > 0
      /\ \A n \in 1 .. Len(r) :
           /\ n + Len(qs) - Len(r) \in 1 .. Len(qs)
           /\ r[n] = qs[n + Len(qs) - Len(r)]
  <2>1. Len(qs) \in Nat /\ Len(qs) > 0
    BY <1>1, <1>2, <1>3
  <2>2. Len(r) = IF Len(qs) > MaxLag THEN MaxLag ELSE Len(qs)
    BY <1>2, <1>3, NewestOf
  <2>3. Len(r) \in Nat /\ Len(r) > 0
    BY <2>1, <2>2, Numbers
  <2> QED
    BY <1>2, <1>3, <2>3, NewestOf
<1> HIDE DEF r
<1>5. r # << >>
  BY <1>4, EmptySeq
<1>6. Last(r) = Last(new)
  <2>1. r[Len(r)] = qs[Len(qs)]
    BY <1>1, <1>2, <1>4
  <2>2. qs[Len(qs)] = new[Len(new)]
    BY <1>1, <1>2
  <2> QED
    BY <2>1, <2>2 DEF Last
<1>7. ASSUME NEW n \in 1 .. Len(r)
      PROVE  \/ \E k \in 1 .. Len(rec) : r[n] = rec[k]
             \/ \E k \in 1 .. Len(new) : r[n] = new[k]
  <2> DEFINE k == n + Len(qs) - Len(r)
  <2>1. k \in 1 .. Len(qs) /\ r[n] = qs[k]
    BY <1>4
  <2> HIDE DEF k
  <2>2. CASE k <= Len(rec)
    BY <1>1, <1>2, <2>1, <2>2
  <2>3. CASE k > Len(rec)
    <3>1. k - Len(rec) \in 1 .. Len(new) /\ qs[k] = new[k - Len(rec)]
      BY <1>1, <1>2, <2>1, <2>3
    <3> QED
      BY <2>1, <3>1
  <2> QED
    BY <1>1, <1>2, <2>1, <2>2, <2>3
<1> QED
  BY <1>4, <1>5, <1>6, <1>7 DEF r, qs

\* What the next query is.
LEMMA RequestIs ==
  ASSUME NEW cl \in Client, Busy(cl)
  PROVE  LET q == Request(cl) IN
         /\ q \in Query
         /\ q.user = cl.userid /\ q.answers = {} /\ q.got = FALSE
         /\ q.kind = IF cl.off > 0 \/ cl.step = "lazy" THEN "o" ELSE Letter(cl.step)
         /\ q.kind = "s" => cl.step = "codec" /\ q.arg = cl.upcodec
         /\ q.kind = "o" => q.arg = IF cl.off > 0 \/ cl.step = "lazy"
                                  THEN (IF cl.lazymode THEN "Lazy" ELSE "Immediate")
                                  ELSE "Downenc"
         /\ q.kind \in Naming => cl.off > 0 \/ Settled(cl)
         /\ q.kind = "p" => cl.off = 0 /\ cl.step = "tunnel"
<1>1. cl.upcodec \in Codecs /\ cl.userid \in User /\ cl.off \in Nat
  BY DEF Client
<1> DEFINE q == Request(cl)
<1>2. CASE cl.off > 0 \/ cl.step = "lazy"
  <2>1. q = [kind |-> "o", user |-> cl.userid,
             arg |-> IF cl.lazymode THEN "Lazy" ELSE "Immediate",
             got |-> FALSE, answers |-> {}]
    BY <1>2 DEF Request, send_lazy_switch, Make
  <2> HIDE DEF q
  <2> QED
    BY <1>1, <1>2, <2>1 DEF Query, Args, Settled, HandshakeSteps, TestSteps, q
<1>3. CASE ~ (cl.off > 0 \/ cl.step = "lazy")
  <2>1. q = [kind |-> Letter(cl.step), user |-> cl.userid,
             arg |-> CASE cl.step = "codec"   -> cl.upcodec
                       [] cl.step = "downenc" -> "Downenc"
                       [] OTHER               -> "None",
             got |-> FALSE, answers |-> {}]
    BY <1>3 DEF Request, Make
  <2>2. q.arg \in Args
    BY <1>1, <2>1 DEF Args
  <2>3. /\ Letter(cl.step) \in {"v", "l", "s", "o", "n", "p", "test"}
        /\ Letter(cl.step) = "s" => cl.step = "codec"
        /\ Letter(cl.step) = "o" => cl.step = "downenc"
        /\ Letter(cl.step) = "v" <=> cl.step = "version"
        /\ Letter(cl.step) = "p" => cl.step = "tunnel"
    BY <1>3 DEF Letter, Busy, HandshakeSteps, TestSteps
  <2>4. q.kind = "s" => q.arg = cl.upcodec
    BY <2>1, <2>3
  <2>5. q.kind = "o" => q.arg = "Downenc"
    BY <2>1, <2>3
  <2>6. q \in Query
    BY <1>1, <2>1, <2>2, <2>3 DEF Query
  <2>7. q.kind = Letter(cl.step) /\ q.user = cl.userid /\ q.answers = {} /\ q.got = FALSE
    BY <2>1
  <2> HIDE DEF q
  <2>8. q.kind \in Naming => Settled(cl)
    BY <2>3, <2>7 DEF Settled, Busy, Naming
  <2>9. cl.off = 0
    BY <1>1, <1>3
  <2> QED
    BY <1>3, <2>3, <2>4, <2>5, <2>6, <2>7, <2>8, <2>9 DEF q
<1> QED
  BY <1>2, <1>3

\* Clients that differ only in what is counted
SameBut(cl, new) ==
  \A f \in {"step", "tries", "userid", "dataenc", "upcodec", "downenc"} : new[f] = cl[f]

\* The count of send_query, which may call handshake_lazyoff.
LEMMA CountIs ==
  ASSUME NEW cl \in Client, OffSound(cl)
  PROVE  LET new == CountQuery(cl) IN
         /\ new \in Client /\ SameBut(cl, new)
         /\ cl.sendcnt >= 0 <=> new.sendcnt >= 0
         /\ \/ new.off = cl.off /\ new.lazymode = cl.lazymode
            \/ /\ cl.off = 0 /\ cl.lazymode /\ cl.sendcnt >= 0
               /\ new.off = 1 /\ ~ new.lazymode
<1> DEFINE n == cl.sendcnt + 1
           new == CountQuery(cl)
<1>0. /\ cl.sendcnt \in Int /\ cl.off \in Nat
      /\ Counting(cl) => cl.sendcnt >= 0 /\ cl.lazymode
  BY Numbers DEF Client, Counting
<1>1. CASE ~ Counting(cl)
  BY <1>0, <1>1 DEF CountQuery, SameBut
<1>2. CASE Counting(cl) /\ ~ TooFewAnswers(n, cl.recvcnt)
  <2>1. new = [cl EXCEPT !.sendcnt = n]
    BY <1>2 DEF CountQuery
  <2> QED
    BY <1>0, <1>2, <2>1 DEF Client, SameBut
<1>3. CASE Counting(cl) /\ TooFewAnswers(n, cl.recvcnt) /\ cl.patient
  <2>1. new = [cl EXCEPT !.patient = FALSE, !.sendcnt = 0, !.recvcnt = 0]
    BY <1>3 DEF CountQuery
  <2> HIDE DEF new, n
  <2>2. new \in Client
    <3> DEFINE zero == 0
    <3>1. zero \in Int /\ zero \in Nat
      OBVIOUS
    <3>2. new = [cl EXCEPT !.patient = FALSE, !.sendcnt = zero, !.recvcnt = zero]
      BY <2>1
    <3> HIDE DEF zero
    <3> QED
      BY <3>1, <3>2 DEF Client
  <2>3. SameBut(cl, new)
    BY <2>1 DEF Client, SameBut
  <2>4. new.lazymode = cl.lazymode
    BY <2>1 DEF Client
  <2>5. new.off = cl.off /\ new.sendcnt = 0
    BY <2>1 DEF Client
  <2> QED
    BY <1>0, <1>3, <2>2, <2>3, <2>4, <2>5 DEF new
<1>4. CASE Counting(cl) /\ TooFewAnswers(n, cl.recvcnt) /\ ~ cl.patient
  <2>1. new = [cl EXCEPT !.sendcnt = n, !.lazymode = FALSE, !.off = 1]
    BY <1>4 DEF CountQuery
  <2>2. cl.off = 0
    BY <1>0, <1>4 DEF OffSound
  <2>3. n \in Int /\ n >= 0
    BY <1>0, <1>4
  <2> HIDE DEF new, n
  <2>4. new \in Client
    BY <2>1, <2>3 DEF Client
  <2>5. /\ SameBut(cl, new)
        /\ new.off = 1 /\ new.lazymode = FALSE /\ new.sendcnt = n
    BY <2>1 DEF Client, SameBut
  <2> QED
    BY <1>0, <1>4, <2>2, <2>3, <2>4, <2>5 DEF new
<1> QED
  BY <1>1, <1>2, <1>3, <1>4

\* What Send does: a query, or two of them if handshake_lazyoff is called.
LEMMA SendIs ==
  ASSUME NEW cl \in Client, OffSound(cl), Busy(cl), recent \in Seq(Query), Send(cl)
  PROVE  /\ c' \in Client /\ SameBut(cl, c')
         /\ cl.sendcnt >= 0 <=> c'.sendcnt >= 0
         /\ recent' \in Seq(Query) /\ recent' # << >>
         /\ \A n \in 1 .. Len(recent') :
              \/ \E k \in 1 .. Len(recent) : recent'[n] = recent[k]
              \/ recent'[n] \in {Request(cl), Request(c')}
         /\ \/ /\ c'.off = cl.off /\ c'.lazymode = cl.lazymode
               /\ Request(c').kind = Request(cl).kind
               /\ Last(recent') = Request(cl)
            \/ /\ cl.off = 0 /\ cl.lazymode /\ cl.sendcnt >= 0
               /\ c'.off = 1 /\ ~ c'.lazymode
               /\ Last(recent') = Request(c')
<1>1. /\ c' = CountQuery(cl) /\ c' \in Client /\ SameBut(cl, c')
      /\ cl.sendcnt >= 0 <=> c'.sendcnt >= 0
      /\ \/ c'.off = cl.off /\ c'.lazymode = cl.lazymode
         \/ /\ cl.off = 0 /\ cl.lazymode /\ cl.sendcnt >= 0
            /\ c'.off = 1 /\ ~ c'.lazymode
  BY CountIs DEF Send
<1>2. Busy(c')
  BY <1>1 DEF SameBut, Busy
<1>3. Request(cl) \in Query /\ Request(c') \in Query
  BY <1>1, <1>2, RequestIs
<1>4. CASE c'.off = cl.off /\ c'.lazymode = cl.lazymode
  <2> DEFINE new == << Request(cl) >>
  <2>1. recent' = Newest(recent \o new)
    BY <1>1, <1>4 DEF Send
  <2>2. new \in Seq(Query) /\ new # << >> /\ Len(new) = 1 /\ new[1] = Request(cl)
    BY <1>3
  <2> HIDE DEF new
  <2>3. Last(new) = Request(cl) /\ \A k \in 1 .. Len(new) : new[k] = Request(cl)
    BY <2>2 DEF Last
  <2>4. /\ recent' \in Seq(Query) /\ recent' # << >> /\ Last(recent') = Last(new)
        /\ \A n \in 1 .. Len(recent') :
              \/ \E k \in 1 .. Len(recent) : recent'[n] = recent[k]
              \/ \E k \in 1 .. Len(new) : recent'[n] = new[k]
    BY <2>1, <2>2, Appended
  <2>5. Request(c').kind = Request(cl).kind
    BY <1>1, <1>2, <1>4, RequestIs DEF SameBut
  <2> QED
    BY <1>1, <1>4, <2>3, <2>4, <2>5
<1>5. CASE cl.off = 0 /\ cl.lazymode /\ cl.sendcnt >= 0 /\ c'.off = 1 /\ ~ c'.lazymode
  <2> DEFINE new == << Request(cl), Request(c') >>
  <2>1. recent' = Newest(recent \o new)
    BY <1>1, <1>5 DEF Send
  <2>2. /\ new \in Seq(Query) /\ new # << >> /\ Len(new) = 2
        /\ new[1] = Request(cl) /\ new[2] = Request(c')
    BY <1>3
  <2> HIDE DEF new
  <2>3. Last(new) = Request(c') /\ \A k \in 1 .. Len(new) : new[k] \in {Request(cl), Request(c')}
    BY <2>2 DEF Last
  <2>4. /\ recent' \in Seq(Query) /\ recent' # << >> /\ Last(recent') = Last(new)
        /\ \A n \in 1 .. Len(recent') :
              \/ \E k \in 1 .. Len(recent) : recent'[n] = recent[k]
              \/ \E k \in 1 .. Len(new) : recent'[n] = new[k]
    BY <2>1, <2>2, Appended
  <2> QED
    BY <1>1, <1>5, <2>3, <2>4
<1> QED
  BY <1>1, <1>4, <1>5

\* A query without answers is sound if the client may send it.
LEMMA RequestSound ==
  ASSUME NEW cl \in Client, NEW us, NEW rec, Good(cl, us, rec), Busy(cl)
  PROVE  QuerySound(Request(cl), us) /\ OwnSound(Request(cl), cl, us)
<1> DEFINE q == Request(cl)
<1>1. /\ q.user = cl.userid /\ q.answers = {}
      /\ q.kind = "s" => cl.step = "codec" /\ q.arg = cl.upcodec
      /\ q.kind = "o" => q.arg \in {"Lazy", "Immediate", "Downenc"}
      /\ q.kind = "o" /\ q.arg = "Immediate" => ~ cl.lazymode
      /\ q.kind \in Naming => cl.off > 0 \/ Settled(cl)
  BY RequestIs
<1> HIDE DEF q
<1>2. q.kind \in Naming => us[q.user].active
  BY <1>1 DEF Good, OffSound, SlotSound
<1>3. cl.upcodec \in Codecs
  BY DEF Client
<1> QED
  BY <1>1, <1>2, <1>3 DEF QuerySound, OwnSound, LazySound, CodecSound, Early, q

\* A client that is good to send is good, and waits well, when it has sent.
LEMMA SendKeeps ==
  ASSUME NEW cl, Good(cl, users, recent), Busy(cl), Send(cl), users' = users
  PROVE  Good(c, users, recent)' /\ LastSound(c, users, recent)'
<1>0. cl \in Client /\ OffSound(cl) /\ recent \in Seq(Query)
  BY DEF Good
<1>1. /\ c' \in Client /\ SameBut(cl, c')
      /\ cl.sendcnt >= 0 <=> c'.sendcnt >= 0
      /\ recent' \in Seq(Query) /\ recent' # << >>
      /\ \A n \in 1 .. Len(recent') :
           \/ \E k \in 1 .. Len(recent) : recent'[n] = recent[k]
           \/ recent'[n] \in {Request(cl), Request(c')}
      /\ \/ /\ c'.off = cl.off /\ c'.lazymode = cl.lazymode
            /\ Request(c').kind = Request(cl).kind
            /\ Last(recent') = Request(cl)
         \/ /\ cl.off = 0 /\ cl.lazymode /\ cl.sendcnt >= 0
            /\ c'.off = 1 /\ ~ c'.lazymode
            /\ Last(recent') = Request(c')
  BY <1>0, SendIs
<1>2. /\ c'.step = cl.step /\ c'.userid = cl.userid /\ c'.tries = cl.tries
      /\ c'.dataenc = cl.dataenc /\ c'.upcodec = cl.upcodec
      /\ c'.lazymode => cl.lazymode
      /\ Settled(c') <=> Settled(cl)
      /\ Busy(c')
      /\ c'.off \in Nat /\ cl.off \in Nat
  BY <1>0, <1>1 DEF SameBut, Settled, Busy, Client
<1>3. OffSound(c')
  BY <1>0, <1>1, <1>2 DEF OffSound, Busy, HandshakeSteps, TestSteps
<1>4. Settled(c') => SlotSound(c', users')
  <2>1. Settled(c') => SlotSound(cl, users')
    BY <1>2 DEF Good
  <2> QED
    BY <1>2, <2>1 DEF SlotSound
<1>5. \A q : Settled(c') /\ q.user = c'.userid /\ OwnSound(q, cl, users) => OwnSound(q, c', users')
  BY <1>2 DEF OwnSound, LazySound, CodecSound
<1>6. QuerySound(Request(cl), users) /\ OwnSound(Request(cl), cl, users)
  BY <1>0, <1>2, RequestSound
<1>7. Good(c', users', recent)
  <2>1. QueriesSound(c', users', recent)
    BY <1>2, <1>5 DEF Good, QueriesSound
  <2> QED
    BY <1>1, <1>2, <1>3, <1>4, <2>1 DEF Good
<1>8. QuerySound(Request(c'), users') /\ OwnSound(Request(c'), c', users')
  BY <1>1, <1>2, <1>7, RequestSound
<1>9. QueriesSound(c', users', recent')
  <2> SUFFICES ASSUME NEW n \in 1 .. Len(recent')
               PROVE  /\ QuerySound(recent'[n], users')
                      /\ Settled(c') /\ recent'[n].user = c'.userid
                           => OwnSound(recent'[n], c', users')
    BY DEF QueriesSound
  <2>1. CASE \E k \in 1 .. Len(recent) : recent'[n] = recent[k]
    BY <1>7, <2>1 DEF Good, QueriesSound
  <2>2. CASE recent'[n] = Request(cl)
    BY <1>2, <1>5, <1>6, <2>2
  <2>3. CASE recent'[n] = Request(c')
    BY <1>8, <2>3
  <2> QED
    BY <1>1, <2>1, <2>2, <2>3
<1>10. Good(c', users', recent')
  BY <1>1, <1>7, <1>9 DEF Good
<1>11. LastSound(c', users', recent')
  <2>1. /\ Request(cl).user = c'.userid /\ Request(cl).answers = {}
        /\ Request(c').user = c'.userid /\ Request(c').answers = {}
        /\ Request(cl).kind = "o" /\ Request(cl).arg = "Lazy" => cl.lazymode
        /\ Request(c').kind = "o" /\ Request(c').arg = "Lazy" => c'.lazymode
    BY <1>0, <1>1, <1>2, RequestIs
  <2> QED
    BY <1>1, <2>1 DEF LastSound
<1> QED
  BY <1>10, <1>11

\* A client that may send
Ready(cl) ==
  /\ Good(cl, users, recent) /\ Busy(cl)
  /\ ~ Loses =>
       /\ NoneRefused(cl, recent) /\ BothSwitched(cl, users)
       /\ cl.step = "codec" => cl.tries = 1 \/ (cl.off = 0 /\ ~ cl.lazymode)

LEMMA SendIInv ==
  ASSUME NEW cl, Ready(cl), Send(cl), UNCHANGED << users, line >>
  PROVE  IInv'
<1>1. Good(c, users, recent)' /\ LastSound(c, users, recent)'
  BY SendKeeps DEF Ready
<1>2. ASSUME ~ Loses PROVE Perfect(c', users', recent')
  <2>1. /\ cl \in Client /\ OffSound(cl) /\ recent \in Seq(Query) /\ Busy(cl)
        /\ users' = users
    BY DEF Ready, Good
  <2>2. /\ SameBut(cl, c')
        /\ recent' # << >>
        /\ \A n \in 1 .. Len(recent') :
             \/ \E k \in 1 .. Len(recent) : recent'[n] = recent[k]
             \/ recent'[n] \in {Request(cl), Request(c')}
        /\ \/ /\ c'.off = cl.off /\ c'.lazymode = cl.lazymode
              /\ Last(recent') = Request(cl)
           \/ /\ cl.off = 0 /\ cl.lazymode
              /\ c'.off = 1 /\ ~ c'.lazymode
              /\ Last(recent') = Request(c')
    BY <2>1, SendIs
  <2>3. /\ c'.step = cl.step /\ c'.userid = cl.userid /\ c'.tries = cl.tries
        /\ c'.dataenc = cl.dataenc /\ c'.upcodec = cl.upcodec
        /\ c' \in Client /\ Busy(c')
    BY <1>1, <2>1, <2>2 DEF SameBut, Busy, Good
  <2>4. Request(cl).answers = {} /\ Request(c').answers = {}
    BY <2>1, <2>3, RequestIs
  <2>5. NoneRefused(c', recent')
    <3>1. NoneRefused(cl, recent) /\ (Settled(c') <=> Settled(cl))
      BY <1>2, <2>3 DEF Ready, Settled
    <3> QED
      BY <2>2, <2>3, <2>4, <3>1 DEF NoneRefused
  <2>6. SecondTry(c', recent')
    <3>1. ASSUME cl.step = "codec", cl.off = 0 PROVE Request(cl).kind = "s"
      <4>1. Letter(cl.step) = "s"
        BY <3>1 DEF Letter
      <4>2. ~ (cl.off > 0 \/ cl.step = "lazy")
        BY <3>1
      <4> QED
        BY <2>1, <4>1, <4>2, RequestIs
    <3>2. cl.off \in Nat /\ (cl.off > 0 => ~ cl.lazymode)
      BY <2>1 DEF Client, OffSound
    <3>3. cl.step = "codec" => cl.tries = 1 \/ (cl.off = 0 /\ ~ cl.lazymode)
      BY <1>2 DEF Ready
    <3> QED
      BY <2>2, <2>3, <3>1, <3>2, <3>3 DEF SecondTry
  <2>7. BothSwitched(c', users')
    BY <1>2, <2>1, <2>3 DEF Ready, BothSwitched
  <2> QED
    BY <2>5, <2>6, <2>7 DEF Perfect
<1>3. Loses' = Loses
  BY DEF Loses
<1> QED
  BY <1>1, <1>2, <1>3 DEF IInv

\* A client that differs from a good one in its step and its counts
LEMMA MovesOn ==
  ASSUME NEW us, NEW rec, NEW old, Good(old, us, rec), NEW cl \in Client,
         cl.userid = old.userid, cl.upcodec = old.upcodec,
         cl.lazymode => old.lazymode,
         Settled(cl) => Settled(old),
         cl.step \in Early => old.step \in Early,
         cl.step = "version" => old.step = "version" /\ cl.dataenc = old.dataenc,
         OffSound(cl),
         cl.sendcnt >= 0 => us[cl.userid].active,
         Settled(cl) => SlotSound(cl, us)
  PROVE  Good(cl, us, rec)
<1>1. \A q : Settled(cl) /\ OwnSound(q, old, us) => OwnSound(q, cl, us)
  BY DEF OwnSound, LazySound, CodecSound
<1>2. QueriesSound(cl, us, rec)
  BY <1>1 DEF Good, QueriesSound
<1> QED
  BY <1>2 DEF Good

\* What comes next
LEMMA NextStepIs ==
  ASSUME NEW cl \in Client, cl.step \in HandshakeSteps \ {"fragsize"}
  PROVE  LET next == NextStep(cl) IN
         /\ next \in HandshakeSteps \ {"version"}
         /\ next \in Early <=> cl.step \in {"version", "login"}
         /\ next = "login" <=> cl.step = "version"
         /\ next = "codec" <=> cl.step = "uptest" /\ cl.upcodec # "Base32"
         /\ next \in Late => cl.step \in Late \cup {"uptest", "codec"}
         /\ next = "probe" => cl.step = "lazy" \/ ~ cl.lazymode
         /\ next = "fragsize" => cl.step = "probe"
         /\ next = "lazy" => cl.lazymode
<1>1. cl.downenc \in BOOLEAN /\ cl.lazymode \in BOOLEAN
  BY DEF Client
<1>2. CASE cl.step \in {"version", "login", "lazy", "probe"}
  BY <1>2 DEF NextStep, HandshakeSteps, TestSteps, Early, Late
<1>3. CASE cl.step \in {"uptest", "codec"}
  BY <1>1, <1>3 DEF NextStep, HandshakeSteps, TestSteps, Early, Late
<1>4. CASE cl.step \in {"downtest", "downenc"}
  BY <1>1, <1>4 DEF NextStep, HandshakeSteps, TestSteps, Early, Late
<1> QED
  BY <1>2, <1>3, <1>4 DEF HandshakeSteps, TestSteps

\* A client with a slot goes on: after the login it is logged in, after the
\* request for lazy mode the slot is in lazy mode if the client is, and on a
\* perfect line both ends have switched after the request for a codec.
LEMMA GoOnKeeps ==
  ASSUME NEW cl, Good(cl, users, recent), cl.off = 0,
         cl.step \in HandshakeSteps \ {"version"},
         cl.step = "fragsize" => LastSound(cl, users, recent),
         cl.step = "login" => users[cl.userid].authenticated,
         cl.step = "lazy" /\ cl.lazymode => users[cl.userid].lazy,
         ~ Loses =>
           /\ NoneRefused(cl, recent) /\ BothSwitched(cl, users)
           /\ cl.step = "codec" =>
                cl.dataenc = cl.upcodec /\ users[cl.userid].encoder = cl.upcodec,
         GoOn(cl), UNCHANGED << users, line >>
  PROVE  IInv'
<1>1. /\ cl \in Client /\ Settled(cl) /\ SlotSound(cl, users)
      /\ users' = users /\ Loses' = Loses
  BY DEF Good, Settled, Loses
<1>2. CASE cl.step = "fragsize"
  <2> DEFINE zero == 0
  <2>1. zero \in Int /\ zero >= 0
    OBVIOUS
  <2>2. c' = [cl EXCEPT !.step = "tunnel", !.sendcnt = zero] /\ recent' = recent
    BY <1>2 DEF GoOn
  <2> HIDE DEF zero
  <2>3. /\ c' \in Client /\ c'.step = "tunnel" /\ c'.off = 0
        /\ c'.userid = cl.userid /\ c'.upcodec = cl.upcodec /\ c'.dataenc = cl.dataenc
        /\ c'.lazymode = cl.lazymode
    BY <1>1, <2>1, <2>2 DEF Client
  <2>4. Settled(c') /\ OffSound(c')
    BY <2>3 DEF Settled, OffSound
  <2>5. SlotSound(c', users)
    BY <1>1, <1>2, <2>3 DEF SlotSound, Early
  <2>6. Good(c', users, recent)
    BY <1>1, <2>3, <2>4, <2>5, MovesOn DEF SlotSound, Early
  <2>7. LastSound(c', users, recent)
    BY <1>2, <2>3 DEF LastSound
  <2>8. ~ Loses => Perfect(c', users, recent)
    BY <1>1, <1>2, <2>3 DEF Perfect, NoneRefused, BothSwitched, SecondTry, Late
  <2> QED
    BY <1>1, <2>2, <2>6, <2>7, <2>8 DEF IInv
<1>3. CASE cl.step # "fragsize"
  <2> DEFINE one  == 1
             next == [cl EXCEPT !.step = NextStep(cl), !.tries = one]
  <2>1. Send(next)
    BY <1>3 DEF GoOn
  <2>2. /\ NextStep(cl) \in HandshakeSteps \ {"version", "login"}
        /\ NextStep(cl) \in Early => cl.step = "login"
        /\ NextStep(cl) = "codec" => cl.step = "uptest"
        /\ NextStep(cl) \in Late =>
             \/ cl.step \in Late \cup {"codec"}
             \/ cl.step = "uptest" /\ cl.upcodec = "Base32"
        /\ NextStep(cl) = "probe" => cl.step = "lazy" \/ ~ cl.lazymode
        /\ NextStep(cl) = "fragsize" => cl.step = "probe"
    BY <1>1, <1>3, NextStepIs DEF HandshakeSteps, TestSteps, Early, Late
  <2>3. one \in Nat /\ one = 1
    OBVIOUS
  <2> HIDE DEF one, next
  <2>4. /\ next \in Client /\ next.step = NextStep(cl) /\ next.tries = one
        /\ next.userid = cl.userid /\ next.upcodec = cl.upcodec
        /\ next.dataenc = cl.dataenc /\ next.off = cl.off /\ next.sendcnt = cl.sendcnt
    BY <1>1, <2>2, <2>3 DEF Client, HandshakeSteps, next
  <2>5. next.lazymode = cl.lazymode
    BY <1>1 DEF Client, next
  <2>6. Settled(next) /\ Busy(next) /\ OffSound(next)
    BY <2>2, <2>4 DEF Settled, Busy, OffSound, HandshakeSteps, TestSteps
  <2>7. SlotSound(next, users)
    <3>1. users[cl.userid].active /\ users[cl.userid].authenticated
      BY <1>1 DEF SlotSound
    <3>2. next.step \in Early => users[next.userid].encoder = "Base32"
      BY <1>1, <2>2, <2>4 DEF SlotSound, Early
    <3>3. next.step \in Early => next.dataenc = "Base32"
      BY <1>1, <2>2, <2>4 DEF SlotSound, Early
    <3>4. next.dataenc # "Base32" =>
            next.dataenc = next.upcodec /\ users[next.userid].encoder = next.upcodec
      BY <1>1, <2>4 DEF SlotSound
    <3>5. next.step \in {"probe", "fragsize", "tunnel"} /\ next.lazymode
            => users[next.userid].lazy
      BY <1>1, <2>2, <2>4, <2>5 DEF SlotSound, HandshakeSteps, TestSteps
    <3> QED
      BY <2>4, <3>1, <3>2, <3>3, <3>4, <3>5 DEF SlotSound
  <2>8. Good(next, users, recent)
    <3>1. /\ next.step \in Early => cl.step \in Early
          /\ next.step # "version" /\ users[next.userid].active
      BY <1>1, <2>2, <2>4, <2>7 DEF Early, SlotSound
    <3> QED
      BY <1>1, <2>4, <2>5, <2>6, <2>7, <3>1, MovesOn
  <2>9. ASSUME ~ Loses
        PROVE  /\ NoneRefused(next, recent) /\ BothSwitched(next, users)
               /\ next.step = "codec" => next.tries = 1 \/ (next.off = 0 /\ ~ next.lazymode)
    <3>1. NoneRefused(next, recent)
      BY <1>1, <2>4, <2>9 DEF NoneRefused
    <3>2. cl.step = "uptest" => users[cl.userid].encoder = "Base32" /\ cl.dataenc = "Base32"
      BY <1>1 DEF SlotSound, Early
    <3>3. BothSwitched(next, users)
      BY <2>2, <2>4, <2>9, <3>2 DEF BothSwitched
    <3> QED
      BY <2>3, <2>4, <3>1, <3>3
  <2> QED
    BY <2>1, <2>6, <2>8, <2>9, SendIInv DEF Ready
<1> QED
  BY <1>2, <1>3

-----------------------------------------------------------------------------
(***************************************************************************)
(* The steps of the client.                                                *)
(***************************************************************************)

\* The query an answer belongs to
LEMMA AnswerIs ==
  ASSUME IInv, NEW a \in Answers
  PROVE  LET q == Last(recent) IN
         /\ recent # << >> /\ Len(recent) \in 1 .. Len(recent)
         /\ a \in q.answers /\ q \in Query /\ q.user = c.userid
         /\ q.kind = IF c.off > 0 THEN "o" ELSE Letter(c.step)
         /\ QuerySound(q, users)
         /\ Settled(c) => OwnSound(q, c, users)
         /\ q.kind = "o" /\ q.arg = "Lazy" => c.lazymode
<1>1. Fits /\ a \in Last(recent).answers
  BY DEF Answers, Last
<1>2. recent # << >> /\ recent \in Seq(Query)
  BY <1>1 DEF Fits, IInv, Good
<1>3. Len(recent) \in 1 .. Len(recent)
  BY <1>2, EmptySeq
<1>4. Last(recent) \in Query
  BY <1>2, <1>3, ElementOfSeq DEF Last
<1>5. Last(recent).user = c.userid
  BY <1>2 DEF IInv, LastSound
<1>6. /\ QuerySound(Last(recent), users)
      /\ Settled(c) => OwnSound(Last(recent), c, users)
  BY <1>3, <1>5 DEF IInv, Good, QueriesSound, Last
<1> QED
  BY <1>1, <1>2, <1>3, <1>4, <1>5, <1>6 DEF Fits, Last, IInv, LastSound

\* Another try of whatever the client does, but not of a request for a codec
\* that a perfect line has answered
LEMMA TriesAgain ==
  ASSUME IInv, c.off = 0, Busy(c),
         ~ Loses /\ c.step = "codec" => c.tries = 1 /\ ~ c.lazymode,
         Send([c EXCEPT !.tries = @ + 1]), UNCHANGED << users, line >>
  PROVE  IInv'
<1> DEFINE cl == [c EXCEPT !.tries = @ + 1]
<1>1. c \in Client /\ Good(c, users, recent)
  BY DEF IInv, Good
<1>2. /\ cl \in Client /\ cl.step = c.step /\ cl.userid = c.userid
      /\ cl.upcodec = c.upcodec /\ cl.dataenc = c.dataenc
      /\ cl.off = c.off /\ cl.sendcnt = c.sendcnt
  BY <1>1 DEF Client
<1>3. cl.lazymode = c.lazymode
  BY <1>1 DEF Client
<1> HIDE DEF cl
<1>4. Settled(cl) = Settled(c) /\ Busy(cl)
  BY <1>2 DEF Settled, Busy
<1>5. OffSound(cl) /\ (Settled(cl) => SlotSound(cl, users))
  BY <1>1, <1>2, <1>3, <1>4 DEF Good, OffSound, SlotSound
<1>6. Good(cl, users, recent)
  <2>1. cl.sendcnt >= 0 => users[cl.userid].active
    BY <1>1, <1>2 DEF Good
  <2> QED
    BY <1>1, <1>2, <1>3, <1>4, <1>5, <2>1, MovesOn
<1>7. ~ Loses => NoneRefused(cl, recent) /\ BothSwitched(cl, users)
  BY <1>2, <1>4 DEF IInv, Perfect, NoneRefused, BothSwitched
<1> QED
  BY <1>2, <1>3, <1>4, <1>6, <1>7, SendIInv DEF Ready, cl

\* client_handshake or the connection is over
LEMMA Ends ==
  ASSUME IInv, NEW s \in {"over", "failed"}, c' = [c EXCEPT !.step = s, !.off = 0],
         UNCHANGED << users, recent, line >>
  PROVE  IInv'
<1> DEFINE zero == 0
<1>0. zero \in Nat /\ zero = 0
  OBVIOUS
<1>1. c \in Client /\ Good(c, users, recent) /\ c' = [c EXCEPT !.step = s, !.off = zero]
  BY DEF IInv, Good
<1> HIDE DEF zero
<1>2. /\ c' \in Client /\ c'.step = s /\ c'.userid = c.userid /\ c'.upcodec = c.upcodec
      /\ c'.lazymode = c.lazymode /\ c'.off = zero /\ c'.sendcnt = c.sendcnt
  BY <1>0, <1>1 DEF Client
<1>3. ~ Settled(c') /\ OffSound(c') /\ c'.step \notin Early /\ c'.step # "version"
  BY <1>0, <1>2 DEF Settled, OffSound, HandshakeSteps, TestSteps, Early
<1>4. Good(c', users, recent)
  <2>1. c'.sendcnt >= 0 => users[c'.userid].active
    BY <1>1, <1>2 DEF Good
  <2> QED
    BY <1>1, <1>2, <1>3, <2>1, MovesOn
<1>5. LastSound(c', users, recent)
  BY <1>2, <1>3 DEF LastSound, IInv
<1>6. Perfect(c', users, recent)
  BY <1>2, <1>3 DEF Perfect, NoneRefused, SecondTry, BothSwitched, Late
<1> QED
  BY <1>4, <1>5, <1>6 DEF IInv

\* In the handshake handshake_lazyoff is over.
LEMMA Fails ==
  ASSUME IInv, c.off = 0, Fail, UNCHANGED << users, line >>
  PROVE  IInv'
<1>1. c \in Client
  BY DEF IInv, Good
<1>2. c' = [c EXCEPT !.step = "failed", !.off = 0]
  BY <1>1 DEF Fail, Client
<1> QED
  BY <1>2, Ends DEF Fail

LEMMA LegacyGood ==
  ASSUME Good(c, users, recent)
  PROVE  LET cl == Legacy(c) IN
         /\ cl \in Client /\ Good(cl, users, recent)
         /\ cl.step = c.step /\ cl.off = c.off /\ cl.userid = c.userid /\ cl.tries = c.tries
         /\ cl.dataenc = c.dataenc /\ cl.upcodec = c.upcodec /\ ~ cl.lazymode
<1> DEFINE cl == Legacy(c)
<1>1. c \in Client
  BY DEF Good
<1>2. /\ cl \in Client /\ ~ cl.lazymode
      /\ cl.step = c.step /\ cl.off = c.off /\ cl.userid = c.userid /\ cl.tries = c.tries
      /\ cl.dataenc = c.dataenc /\ cl.upcodec = c.upcodec /\ cl.sendcnt = c.sendcnt
  BY <1>1 DEF Legacy, Client
<1> HIDE DEF cl
<1>3. Settled(cl) = Settled(c) /\ OffSound(cl)
  BY <1>2 DEF Settled, OffSound, Good
<1>4. Settled(cl) => SlotSound(cl, users)
  BY <1>2, <1>3 DEF Good, SlotSound
<1>5. Good(cl, users, recent)
  <2>1. cl.sendcnt >= 0 => users[cl.userid].active
    BY <1>2 DEF Good
  <2> QED
    BY <1>2, <1>3, <1>4, <2>1, MovesOn
<1> QED
  BY <1>2, <1>5 DEF cl

LEMMA TryAgainKeeps ==
  ASSUME IInv, c.off = 0, c.step \in HandshakeSteps \ TestSteps,
         ~ Loses /\ c.step = "codec" => c.tries = 1 /\ ~ c.lazymode,
         TryAgain, UNCHANGED << users, line >>
  PROVE  IInv'
<1>1. Good(c, users, recent) /\ c \in Client /\ Busy(c)
  BY DEF IInv, Good, Busy
<1>2. CASE Send([c EXCEPT !.tries = @ + 1])
  BY <1>1, <1>2, TriesAgain
<1>3. CASE c.tries >= Tries /\ GiveUp
  <2>1. CASE c.step \in {"version", "login"}
    <3>1. Fail
      BY <1>3, <2>1 DEF GiveUp
    <3> QED
      BY <3>1, Fails
  <2>2. CASE c.step = "lazy"
    <3> DEFINE cl == Legacy(c)
    <3>1. GoOn(cl)
      BY <1>3, <2>2 DEF GiveUp
    <3>2. /\ Good(cl, users, recent) /\ cl.step = "lazy" /\ cl.off = 0
          /\ cl.userid = c.userid /\ ~ cl.lazymode
          /\ cl.dataenc = c.dataenc /\ cl.upcodec = c.upcodec
      BY <1>1, <2>2, LegacyGood
    <3> HIDE DEF cl
    <3>3. ~ Loses => NoneRefused(cl, recent) /\ BothSwitched(cl, users)
      BY <2>2, <3>2 DEF IInv, Perfect, NoneRefused, BothSwitched, Settled
    <3> QED
      BY <3>1, <3>2, <3>3, GoOnKeeps DEF HandshakeSteps
  <2>3. CASE c.step \in {"codec", "downenc", "fragsize"}
    <3>1. GoOn(c)
      BY <1>3, <2>3 DEF GiveUp
    <3>2. ~ Loses => NoneRefused(c, recent) /\ BothSwitched(c, users)
      BY DEF IInv, Perfect
    <3>3. ~ Loses => c.step # "codec"
      BY <1>1, <1>3, Numbers DEF Client
    <3> QED
      BY <1>1, <2>3, <3>1, <3>2, <3>3, GoOnKeeps DEF HandshakeSteps, IInv
  <2> QED
    BY <2>1, <2>2, <2>3 DEF HandshakeSteps, TestSteps
<1>4. c.tries \in Nat
  BY <1>1 DEF Client
<1> QED
  BY <1>2, <1>3, <1>4, Numbers DEF TryAgain

\* A client that is given a slot: nobody has used it, or will.
LEMMA VersionAnsweredKeeps ==
  ASSUME IInv, VersionAnswered
  PROVE  IInv'
<1>1. /\ Good(c, users, recent) /\ c \in Client /\ c.step = "version" /\ c.off = 0
      /\ UNCHANGED << users, line >>
  BY DEF IInv, Good, VersionAnswered, InStep
<1>2. PICK a \in Answers :
        IF a.text = "VACK" THEN GoOn([c EXCEPT !.userid = a.user]) ELSE Fail
  BY DEF VersionAnswered
<1>3. CASE a.text # "VACK"
  BY <1>1, <1>2, <1>3, Fails
<1>4. CASE a.text = "VACK"
  <2> DEFINE one  == 1
             cl   == [c EXCEPT !.userid = a.user]
             next == [cl EXCEPT !.step = NextStep(cl), !.tries = one]
  <2>1. /\ recent # << >> /\ a \in Last(recent).answers /\ Last(recent) \in Query
        /\ Last(recent).kind = "v"
    <3>1. Letter(c.step) = "v"
      BY <1>1 DEF Letter
    <3> QED
      BY <1>1, <3>1, AnswerIs
  <2>2. Pristine(a.user, users, recent) /\ a.user \in User
    BY <1>1, <1>4, <2>1 DEF IInv, LastSound, Query
  <2>3. cl \in Client /\ cl.step = "version"
    BY <1>1, <2>2 DEF Client
  <2>4. NextStep(cl) = "login" /\ one \in Nat /\ one = 1
    BY <2>3 DEF NextStep
  <2>5. Send(next)
    BY <1>2, <1>4, <2>3 DEF GoOn
  <2>6. next = [c EXCEPT !.userid = a.user, !.step = "login", !.tries = one]
    BY <1>1, <2>4 DEF Client
  <2> HIDE DEF next, cl, one
  <2>7. /\ next \in Client /\ next.step = "login" /\ next.userid = a.user
        /\ next.off = c.off /\ next.dataenc = c.dataenc /\ next.upcodec = c.upcodec
        /\ next.sendcnt = c.sendcnt
    BY <1>1, <2>2, <2>4, <2>6 DEF Client, HandshakeSteps
  <2>8. next.lazymode = c.lazymode
    BY <1>1, <2>6 DEF Client
  <2>9. users[a.user].active /\ users[a.user].encoder = "Base32"
    BY <2>2 DEF Pristine, NoUser
  <2>10. OffSound(next) /\ Busy(next) /\ Settled(next)
    BY <1>1, <2>7 DEF OffSound, Busy, Settled, HandshakeSteps
  <2>11. SlotSound(next, users)
    BY <1>1, <2>7, <2>9 DEF SlotSound, Early, Good
  <2>12. \A n \in 1 .. Len(recent) :
           recent[n].user = a.user => recent[n].kind \notin {"s", "o"}
    BY <2>2 DEF Pristine, Naming
  <2>13. QueriesSound(next, users, recent)
    BY <1>1, <2>7, <2>12 DEF Good, QueriesSound, OwnSound, LazySound, CodecSound
  <2>14. Good(next, users, recent)
    BY <1>1, <2>7, <2>9, <2>10, <2>11, <2>13 DEF Good
  <2>15. NoneRefused(next, recent) /\ BothSwitched(next, users)
    BY <2>7, <2>12 DEF NoneRefused, BothSwitched, Late
  <2> QED
    BY <1>1, <2>5, <2>7, <2>10, <2>14, <2>15, SendIInv DEF Ready
<1> QED
  BY <1>3, <1>4

LEMMA LoginAnsweredKeeps ==
  ASSUME IInv, LoginAnswered
  PROVE  IInv'
<1>1. /\ Good(c, users, recent) /\ c.step = "login" /\ c.off = 0
      /\ UNCHANGED << users, line >>
  BY DEF IInv, Good, LoginAnswered, InStep
<1>2. PICK a \in Answers : IF a.text = "Ok" THEN GoOn(c) ELSE TryAgain
  BY DEF LoginAnswered
<1>3. CASE a.text # "Ok"
  BY <1>1, <1>2, <1>3, TryAgainKeeps DEF HandshakeSteps, TestSteps
<1>4. CASE a.text = "Ok"
  <2>1. Letter(c.step) = "l"
    BY <1>1 DEF Letter
  <2>2. users[c.userid].authenticated
    BY <1>1, <1>4, <2>1, AnswerIs DEF QuerySound
  <2>3. ~ Loses => NoneRefused(c, recent) /\ BothSwitched(c, users)
    BY DEF IInv, Perfect
  <2> QED
    BY <1>1, <1>2, <1>4, <2>2, <2>3, GoOnKeeps DEF HandshakeSteps
<1> QED
  BY <1>3, <1>4

\* The answer to a request for a codec is that the slot has it, or a refusal.
LEMMA CodecAnsweredKeeps ==
  ASSUME IInv, CodecAnswered
  PROVE  IInv'
<1>1. /\ Good(c, users, recent) /\ c \in Client /\ c.step = "codec" /\ c.off = 0
      /\ Settled(c)
      /\ UNCHANGED << users, line >>
  BY DEF IInv, Good, CodecAnswered, InStep, Settled, HandshakeSteps
<1>2. PICK a \in Answers : GoOn(SwitchCodec(a))
  BY DEF CodecAnswered
<1>3. /\ recent # << >> /\ Len(recent) \in 1 .. Len(recent)
      /\ a \in Last(recent).answers
      /\ Last(recent).user = c.userid /\ Last(recent).kind = "s"
      /\ OwnSound(Last(recent), c, users)
  <2>1. Letter(c.step) = "s"
    BY <1>1 DEF Letter
  <2> QED
    BY <1>1, <2>1, AnswerIs
<1>4. a.text # "BADIP" => users[c.userid].encoder = c.upcodec
  BY <1>3 DEF OwnSound, CodecSound
<1>5. ~ Loses => a.text # "BADIP"
  BY <1>1, <1>3 DEF IInv, Perfect, NoneRefused, Last
<1>6. CASE a.text = "BADIP"
  <2>1. GoOn(c)
    BY <1>2, <1>6 DEF SwitchCodec
  <2> QED
    BY <1>1, <1>5, <1>6, <2>1, GoOnKeeps DEF HandshakeSteps
<1>7. CASE a.text # "BADIP"
  <2> DEFINE cl == [c EXCEPT !.dataenc = c.upcodec]
  <2>1. GoOn(cl)
    BY <1>2, <1>7 DEF SwitchCodec
  <2>2. /\ cl \in Client /\ cl.step = "codec" /\ cl.userid = c.userid /\ cl.off = 0
        /\ cl.upcodec = c.upcodec /\ cl.dataenc = c.upcodec /\ cl.sendcnt = c.sendcnt
        /\ cl.lazymode = c.lazymode
    BY <1>1 DEF Client
  <2> HIDE DEF cl
  <2>3. Settled(cl) /\ OffSound(cl)
    BY <1>1, <2>2 DEF Settled, OffSound
  <2>4. SlotSound(cl, users)
    BY <1>1, <1>4, <1>7, <2>2 DEF Good, SlotSound, Early
  <2>5. Good(cl, users, recent)
    <3>1. cl.sendcnt >= 0 => users[cl.userid].active
      BY <2>2, <2>4 DEF SlotSound
    <3>2. (cl.step \in Early => c.step \in Early) /\ cl.step # "version"
      BY <1>1, <2>2
    <3> QED
      BY <1>1, <2>2, <2>3, <2>4, <3>1, <3>2, MovesOn
  <2>6. ~ Loses => NoneRefused(cl, recent) /\ BothSwitched(cl, users)
    BY <1>1, <2>2 DEF IInv, Perfect, NoneRefused, BothSwitched, Late
  <2> QED
    BY <1>1, <1>4, <1>7, <2>1, <2>2, <2>5, <2>6, GoOnKeeps DEF HandshakeSteps
<1> QED
  BY <1>6, <1>7

LEMMA DownencOrFragsizeAnsweredKeeps ==
  ASSUME IInv, DownencOrFragsizeAnswered
  PROVE  IInv'
<1>1. /\ Good(c, users, recent) /\ c.step \in {"downenc", "fragsize"} /\ c.off = 0
      /\ GoOn(c) /\ UNCHANGED << users, line >>
  BY DEF IInv, DownencOrFragsizeAnswered, InStep
<1>2. ~ Loses => NoneRefused(c, recent) /\ BothSwitched(c, users)
  BY DEF IInv, Perfect
<1> QED
  BY <1>1, <1>2, GoOnKeeps DEF HandshakeSteps, IInv

\* An answer that says "Lazy" is one to a request for lazy mode.
LEMMA LazyAnsweredKeeps ==
  ASSUME IInv, LazyAnswered
  PROVE  IInv'
<1>1. /\ Good(c, users, recent) /\ c \in Client /\ c.step = "lazy" /\ c.off = 0
      /\ Settled(c)
      /\ UNCHANGED << users, line >>
  BY DEF IInv, Good, LazyAnswered, InStep, Settled, HandshakeSteps
<1>2. PICK a \in Answers :
        \/ SaysLazy(a) /\ GoOn([c EXCEPT !.lazymode = TRUE])
        \/ ~ SaysLazy(a) /\ a.text = "BADIP" /\ GoOn(Legacy(c))
        \/ ~ SaysLazy(a) /\ a.text # "BADIP" /\ TryAgain
  BY DEF LazyAnswered
<1>3. CASE SaysLazy(a) /\ GoOn([c EXCEPT !.lazymode = TRUE])
  <2>1. /\ a \in Last(recent).answers /\ Last(recent).user = c.userid
        /\ Last(recent).kind = "o"
        /\ QuerySound(Last(recent), users) /\ OwnSound(Last(recent), c, users)
        /\ Last(recent).arg = "Lazy" => c.lazymode
    <3>1. Letter(c.step) = "o"
      BY <1>1 DEF Letter
    <3> QED
      BY <1>1, <3>1, AnswerIs
  <2>2. c.lazymode
    BY <1>3, <2>1 DEF SaysLazy, QuerySound
  <2>3. users[c.userid].lazy
    BY <1>3, <2>1, <2>2 DEF SaysLazy, OwnSound, LazySound
  <2>4. [c EXCEPT !.lazymode = TRUE] = c
    BY <1>1, <2>2 DEF Client
  <2>5. ~ Loses => NoneRefused(c, recent) /\ BothSwitched(c, users)
    BY DEF IInv, Perfect
  <2> QED
    BY <1>1, <1>3, <2>3, <2>4, <2>5, GoOnKeeps DEF HandshakeSteps
<1>4. CASE GoOn(Legacy(c))
  <2> DEFINE cl == Legacy(c)
  <2>1. /\ Good(cl, users, recent) /\ cl.step = "lazy" /\ cl.off = 0
        /\ cl.userid = c.userid /\ ~ cl.lazymode
        /\ cl.dataenc = c.dataenc /\ cl.upcodec = c.upcodec
    BY <1>1, LegacyGood
  <2>2. GoOn(cl)
    BY <1>4
  <2> HIDE DEF cl
  <2>3. ~ Loses => NoneRefused(cl, recent) /\ BothSwitched(cl, users)
    BY <1>1, <2>1 DEF IInv, Perfect, NoneRefused, BothSwitched, Settled
  <2> QED
    BY <1>1, <2>1, <2>2, <2>3, GoOnKeeps DEF HandshakeSteps
<1>5. CASE TryAgain
  BY <1>1, <1>5, TryAgainKeeps DEF HandshakeSteps, TestSteps
<1> QED
  BY <1>2, <1>3, <1>4, <1>5

\* On a perfect line only a request after handshake_lazyoff is not answered.
LEMMA TimeoutKeeps ==
  ASSUME IInv, Timeout
  PROVE  IInv'
<1>1. /\ c.step \in HandshakeSteps \ TestSteps /\ c.off = 0
      /\ TryAgain /\ UNCHANGED << users, line >>
      /\ ~ Loses => ~ Fits
  BY DEF Timeout, InStep, MayTimeOut
<1>2. ASSUME ~ Loses, c.step = "codec" PROVE c.tries = 1 /\ ~ c.lazymode
  <2>1. Letter(c.step) = "s" /\ ~ (c.off > 0)
    BY <1>1, <1>2 DEF Letter
  <2>2. recent # << >> /\ Last(recent).kind # "s"
    BY <1>1, <1>2, <2>1 DEF Fits, Last, IInv, Perfect, SecondTry
  <2> QED
    BY <1>2, <2>2 DEF IInv, Perfect, SecondTry
<1> QED
  BY <1>1, <1>2, TryAgainKeeps

LEMMA TestGoesOnKeeps ==
  ASSUME IInv, TestGoesOn
  PROVE  IInv'
<1>1. /\ c.step \in TestSteps /\ c.off = 0 /\ Send([c EXCEPT !.tries = @ + 1])
      /\ UNCHANGED << users, line >>
  BY DEF TestGoesOn, InStep
<1> QED
  BY <1>1, TriesAgain DEF TestSteps, HandshakeSteps, Busy

LEMMA TestEndsKeeps ==
  ASSUME IInv, TestEnds
  PROVE  IInv'
<1>1. /\ Good(c, users, recent) /\ c \in Client /\ c.step \in TestSteps /\ c.off = 0
      /\ Settled(c) /\ SlotSound(c, users)
      /\ UNCHANGED << users, line >>
  BY DEF IInv, Good, TestEnds, InStep, TestSteps, Settled, HandshakeSteps
<1>2. ~ Loses => NoneRefused(c, recent) /\ BothSwitched(c, users)
  BY DEF IInv, Perfect
<1>3. ASSUME NEW k \in Codecs, c.step = "uptest", GoOn([c EXCEPT !.upcodec = k])
      PROVE  IInv'
  <2> DEFINE cl == [c EXCEPT !.upcodec = k]
  <2>1. GoOn(cl)
    BY <1>3
  <2>2. /\ cl \in Client /\ cl.step = "uptest" /\ cl.userid = c.userid /\ cl.off = 0
        /\ cl.dataenc = c.dataenc /\ cl.sendcnt = c.sendcnt /\ cl.lazymode = c.lazymode
    BY <1>1, <1>3 DEF Client
  <2> HIDE DEF cl
  <2>3. Settled(cl) /\ OffSound(cl)
    BY <1>1, <1>3, <2>2 DEF Settled, OffSound
  <2>4. SlotSound(cl, users)
    BY <1>1, <1>3, <2>2 DEF SlotSound, Early
  <2>5. QueriesSound(cl, users, recent)
    <3>1. \A q : OwnSound(q, c, users) => OwnSound(q, cl, users)
      BY <1>3, <2>2 DEF OwnSound, LazySound, CodecSound, Early
    <3> QED
      BY <1>1, <2>2, <3>1 DEF Good, QueriesSound
  <2>6. Good(cl, users, recent)
    BY <1>1, <2>2, <2>3, <2>4, <2>5 DEF Good
  <2>7. ~ Loses => NoneRefused(cl, recent) /\ BothSwitched(cl, users)
    BY <1>1, <1>2, <2>2 DEF NoneRefused, BothSwitched, Late
  <2> QED
    BY <1>1, <2>1, <2>2, <2>6, <2>7, GoOnKeeps DEF HandshakeSteps, TestSteps
<1>4. ASSUME NEW found \in BOOLEAN, c.step = "downtest", GoOn([c EXCEPT !.downenc = found])
      PROVE  IInv'
  <2> DEFINE cl == [c EXCEPT !.downenc = found]
  <2>1. GoOn(cl)
    BY <1>4
  <2>2. /\ cl \in Client /\ cl.step = "downtest" /\ cl.userid = c.userid /\ cl.off = 0
        /\ cl.dataenc = c.dataenc /\ cl.upcodec = c.upcodec
        /\ cl.sendcnt = c.sendcnt /\ cl.lazymode = c.lazymode
    BY <1>1, <1>4 DEF Client
  <2> HIDE DEF cl
  <2>3. Settled(cl) /\ OffSound(cl)
    BY <1>1, <1>4, <2>2 DEF Settled, OffSound
  <2>4. SlotSound(cl, users)
    BY <1>1, <1>4, <2>2 DEF SlotSound
  <2>5. Good(cl, users, recent)
    <3>1. cl.sendcnt >= 0 => users[cl.userid].active
      BY <2>4 DEF SlotSound
    <3>2. (cl.step \in Early => c.step \in Early) /\ cl.step # "version"
      BY <1>4, <2>2
    <3> QED
      BY <1>1, <2>2, <2>3, <2>4, <3>1, <3>2, MovesOn
  <2>6. ~ Loses => NoneRefused(cl, recent) /\ BothSwitched(cl, users)
    BY <1>1, <1>2, <1>4, <2>2 DEF NoneRefused, BothSwitched
  <2> QED
    BY <1>1, <2>1, <2>2, <2>5, <2>6, GoOnKeeps DEF HandshakeSteps, TestSteps
<1>5. CASE c.step = "probe" /\ GoOn(c)
  BY <1>1, <1>2, <1>5, GoOnKeeps DEF HandshakeSteps, TestSteps
<1>6. CASE Fail
  BY <1>1, <1>6, Fails
<1> QED
  BY <1>3, <1>4, <1>5, <1>6 DEF TestEnds

\* handshake_lazyoff ends where it is, with or without an answer.
LEMMA OffEnds ==
  ASSUME IInv, c.off > 0, NEW cl \in {c, Legacy(c)}, c' = [cl EXCEPT !.off = 0],
         UNCHANGED << users, recent, line >>
  PROVE  IInv'
<1> DEFINE zero == 0
<1>0. zero \in Nat /\ zero = 0
  OBVIOUS
<1>1. /\ Good(c, users, recent) /\ c \in Client /\ ~ c.lazymode /\ Busy(c)
  BY DEF IInv, Good, OffSound, Client, Busy
<1>2. /\ Good(cl, users, recent) /\ cl \in Client
      /\ cl.step = c.step /\ cl.off = c.off /\ cl.userid = c.userid /\ cl.tries = c.tries
      /\ cl.dataenc = c.dataenc /\ cl.upcodec = c.upcodec /\ ~ cl.lazymode
  BY <1>1, LegacyGood
<1>3. c' = [cl EXCEPT !.off = zero]
  OBVIOUS
<1> HIDE DEF zero
<1>4. /\ c' \in Client /\ ~ c'.lazymode /\ c'.off = zero
      /\ c'.step = c.step /\ c'.userid = c.userid /\ c'.tries = c.tries
      /\ c'.dataenc = c.dataenc /\ c'.upcodec = c.upcodec /\ c'.sendcnt = cl.sendcnt
  BY <1>0, <1>2, <1>3 DEF Client
<1>5. (Settled(c') <=> Settled(cl)) /\ OffSound(c')
  BY <1>0, <1>2, <1>4 DEF Settled, OffSound
<1>6. Settled(c') => SlotSound(c', users)
  BY <1>2, <1>4, <1>5 DEF Good, SlotSound
<1>7. Good(c', users, recent)
  <2>1. c'.sendcnt >= 0 => users[c'.userid].active
    BY <1>2, <1>4 DEF Good
  <2> QED
    BY <1>2, <1>4, <1>5, <1>6, <2>1, MovesOn
<1>8. LastSound(c', users, recent)
  BY <1>1, <1>4 DEF IInv, LastSound
<1>9. ~ Loses => Perfect(c', users, recent)
  <2>1. Settled(c') <=> Settled(c)
    BY <1>4 DEF Settled
  <2> QED
    BY <1>0, <1>4, <2>1 DEF IInv, Perfect, NoneRefused, SecondTry, BothSwitched
<1>10. users' = users /\ recent' = recent /\ Loses' = Loses
  BY DEF Loses
<1> QED
  BY <1>7, <1>8, <1>9, <1>10 DEF IInv

LEMMA LazyoffAnsweredKeeps ==
  ASSUME IInv, LazyoffAnswered
  PROVE  IInv'
  BY OffEnds DEF LazyoffAnswered, InLazyoff

LEMMA LazyoffAgainKeeps ==
  ASSUME IInv, LazyoffAgain
  PROVE  IInv'
<1>1. /\ Good(c, users, recent) /\ c \in Client /\ c.off > 0 /\ c.off \in Nat
      /\ ~ c.lazymode /\ c.sendcnt >= 0 /\ Busy(c)
      /\ UNCHANGED << users, line >>
  BY DEF IInv, Good, LazyoffAgain, InLazyoff, OffSound, Client, Busy
<1>2. CASE c' = [c EXCEPT !.off = 0] /\ UNCHANGED recent
  BY <1>1, <1>2, OffEnds
<1>3. CASE Send([c EXCEPT !.off = @ + 1])
  <2> DEFINE cl == [c EXCEPT !.off = @ + 1]
  <2>1. Send(cl)
    BY <1>3
  <2>2. /\ cl \in Client /\ cl.step = c.step /\ cl.userid = c.userid /\ cl.tries = c.tries
        /\ cl.upcodec = c.upcodec /\ cl.dataenc = c.dataenc /\ cl.sendcnt = c.sendcnt
        /\ cl.off > 0
    BY <1>1 DEF Client
  <2>3. ~ cl.lazymode
    BY <1>1 DEF Client
  <2> HIDE DEF cl
  <2>4. (Settled(cl) <=> Settled(c)) /\ Busy(cl) /\ OffSound(cl)
    BY <1>1, <2>2, <2>3 DEF Settled, Busy, OffSound, HandshakeSteps, TestSteps
  <2>5. Settled(cl) => SlotSound(cl, users)
    BY <1>1, <2>2, <2>3, <2>4 DEF Good, SlotSound
  <2>6. Good(cl, users, recent)
    <3>1. cl.sendcnt >= 0 => users[cl.userid].active
      BY <1>1, <2>2 DEF Good
    <3> QED
      BY <1>1, <2>2, <2>3, <2>4, <2>5, <3>1, MovesOn
  <2>7. ~ Loses => /\ NoneRefused(cl, recent) /\ BothSwitched(cl, users)
                   /\ cl.step = "codec" => cl.tries = 1
    BY <1>1, <2>2, <2>4 DEF IInv, Perfect, NoneRefused, SecondTry, BothSwitched
  <2> QED
    BY <1>1, <2>1, <2>4, <2>6, <2>7, SendIInv DEF Ready
<1> QED
  BY <1>2, <1>3 DEF LazyoffAgain

LEMMA PingKeeps ==
  ASSUME IInv, Ping
  PROVE  IInv'
<1>1. /\ Send(c) /\ c.step = "tunnel" /\ Busy(c) /\ UNCHANGED << users, line >>
  BY DEF Ping, InStep, Busy
<1>2. Ready(c)
  BY <1>1 DEF IInv, Ready, Perfect
<1> QED
  BY <1>1, <1>2, SendIInv

\* That an answer was counted is seen in got alone.
LEMMA Counts ==
  ASSUME NEW rec \in Seq(Query), NEW n \in DOMAIN rec
  PROVE  LET new == [rec EXCEPT ![n].got = TRUE] IN
         /\ new \in Seq(Query) /\ Len(new) = Len(rec)
         /\ \A k \in 1 .. Len(rec) :
              /\ new[k].kind = rec[k].kind /\ new[k].user = rec[k].user
              /\ new[k].arg = rec[k].arg /\ new[k].answers = rec[k].answers
              /\ k # n => new[k] = rec[k]
         /\ new[n].got = TRUE
<1> DEFINE q   == [rec[n] EXCEPT !.got = TRUE]
           new == [rec EXCEPT ![n].got = TRUE]
<1>1. n \in 1 .. Len(rec) /\ rec[n] \in Query
  OBVIOUS
<1>2. /\ q \in Query /\ q.got = TRUE
      /\ q.kind = rec[n].kind /\ q.user = rec[n].user
      /\ q.arg = rec[n].arg /\ q.answers = rec[n].answers
  BY <1>1 DEF Query
<1>3. new = [rec EXCEPT ![n] = q]
  OBVIOUS
<1> HIDE DEF q, new
<1>4. /\ new \in Seq(Query) /\ Len(new) = Len(rec)
      /\ \A k \in 1 .. Len(rec) : new[k] = IF k = n THEN q ELSE rec[k]
  BY <1>1, <1>2, <1>3, ExceptSeq
<1> QED
  BY <1>1, <1>2, <1>4 DEF new

LEMMA PingAnsweredKeeps ==
  ASSUME IInv, NEW n \in DOMAIN recent, PingAnswered(n)
  PROVE  IInv'
<1>1. /\ Good(c, users, recent) /\ c \in Client /\ recent \in Seq(Query)
      /\ c.step = "tunnel" /\ UNCHANGED << users, line >>
      /\ c' = [c EXCEPT !.recvcnt = IF @ < CountLimit THEN @ + 1 ELSE @]
  BY DEF IInv, Good, PingAnswered, InStep
<1>2. /\ recent' \in Seq(Query) /\ Len(recent') = Len(recent)
      /\ \A k \in 1 .. Len(recent) :
           /\ recent'[k].kind = recent[k].kind /\ recent'[k].user = recent[k].user
           /\ recent'[k].arg = recent[k].arg /\ recent'[k].answers = recent[k].answers
  <2> DEFINE new == [recent EXCEPT ![n].got = TRUE]
  <2>1. recent' = new
    BY DEF PingAnswered
  <2>2. /\ new \in Seq(Query) /\ Len(new) = Len(recent)
        /\ \A k \in 1 .. Len(recent) :
             /\ new[k].kind = recent[k].kind /\ new[k].user = recent[k].user
             /\ new[k].arg = recent[k].arg /\ new[k].answers = recent[k].answers
    BY <1>1, Counts
  <2> HIDE DEF new
  <2> QED
    BY <2>1, <2>2
<1>3. /\ c' \in Client /\ c'.step = c.step /\ c'.userid = c.userid /\ c'.off = c.off
      /\ c'.upcodec = c.upcodec /\ c'.dataenc = c.dataenc /\ c'.sendcnt = c.sendcnt
  <2>1. (IF c.recvcnt < CountLimit THEN c.recvcnt + 1 ELSE c.recvcnt) \in Nat
    BY <1>1, Numbers DEF Client
  <2> QED
    BY <1>1, <2>1 DEF Client
<1>4. c'.lazymode = c.lazymode
  BY <1>1 DEF Client
<1>5. Settled(c') /\ Settled(c) /\ OffSound(c') /\ SlotSound(c', users)
  BY <1>1, <1>3, <1>4 DEF Settled, OffSound, Good, SlotSound
<1>6. Good(c', users, recent)
  <2>1. c'.sendcnt >= 0 => users[c'.userid].active
    BY <1>5 DEF SlotSound
  <2>2. c'.step \notin Early /\ c'.step # "version"
    BY <1>1, <1>3 DEF Early
  <2> QED
    BY <1>1, <1>3, <1>4, <1>5, <2>1, <2>2, MovesOn
<1>7. \A k \in 1 .. Len(recent) :
        /\ QuerySound(recent[k], users) => QuerySound(recent'[k], users)
        /\ OwnSound(recent[k], c', users) => OwnSound(recent'[k], c', users)
  BY <1>2 DEF QuerySound, OwnSound, LazySound, CodecSound
<1>8. Good(c', users, recent')
  BY <1>2, <1>6, <1>7 DEF Good, QueriesSound
<1>9. recent' # << >> => recent # << >> /\ Len(recent) \in 1 .. Len(recent)
  BY <1>1, <1>2, EmptySeq
<1>10. LastSound(c', users, recent')
  BY <1>1, <1>2, <1>3, <1>4, <1>9 DEF IInv, LastSound, Last
<1>11. ~ Loses => Perfect(c', users, recent')
  <2>1. ~ Loses => NoneRefused(c', recent')
    BY <1>2, <1>3, <1>5 DEF IInv, Perfect, NoneRefused
  <2>2. SecondTry(c', recent')
    BY <1>1, <1>3 DEF SecondTry
  <2>3. ~ Loses => BothSwitched(c', users)
    BY <1>3 DEF IInv, Perfect, BothSwitched
  <2> QED
    BY <2>1, <2>2, <2>3 DEF Perfect
<1> QED
  BY <1>1, <1>8, <1>10, <1>11 DEF IInv, Loses

LEMMA StopKeeps ==
  ASSUME IInv, Stop
  PROVE  IInv'
  BY Ends DEF Stop

\* Another connection: nothing of the last one's settings is left at the
\* client, but its queries may still be under way.
LEMMA ConnectKeeps ==
  ASSUME IInv, Connect
  PROVE  IInv'
<1> DEFINE one == 1
           cl  == [c EXCEPT !.step = "version", !.tries = one, !.dataenc = "Base32",
                            !.upcodec = "Base32", !.lazymode = lazy_mode, !.patient = TRUE]
<1>1. /\ Good(c, users, recent) /\ c \in Client /\ c.off = 0
      /\ UNCHANGED << users, line >> /\ Send(cl)
  BY DEF IInv, Good, Connect, OffSound
<1>2. one \in Nat
  OBVIOUS
<1> HIDE DEF one
<1>3. /\ cl \in Client /\ cl.step = "version" /\ cl.dataenc = "Base32"
      /\ cl.upcodec = "Base32" /\ cl.userid = c.userid /\ cl.off = c.off
      /\ cl.sendcnt = c.sendcnt
  BY <1>1, <1>2, CodecAssumption, SwitchAssumption DEF Client, HandshakeSteps
<1> HIDE DEF cl
<1>4. ~ Settled(cl) /\ Busy(cl) /\ OffSound(cl)
  BY <1>1, <1>3 DEF Settled, Busy, OffSound, HandshakeSteps, TestSteps
<1>5. Good(cl, users, recent)
  BY <1>1, <1>3, <1>4 DEF Good, QueriesSound
<1>6. NoneRefused(cl, recent) /\ BothSwitched(cl, users)
  BY <1>3, <1>4 DEF NoneRefused, BothSwitched, Late
<1> QED
  BY <1>1, <1>3, <1>4, <1>5, <1>6, SendIInv DEF Ready

-----------------------------------------------------------------------------
(***************************************************************************)
(* The steps of iodined.                                                   *)
(***************************************************************************)

LEMMA Replies ==
  ASSUME recent \in Seq(Query), NEW n \in DOMAIN recent,
         NEW text \in Texts, NEW u \in User, Reply(n, text, u)
  PROVE  /\ recent' \in Seq(Query) /\ Len(recent') = Len(recent)
         /\ \A k \in 1 .. Len(recent) :
              /\ recent'[k].kind = recent[k].kind /\ recent'[k].user = recent[k].user
              /\ recent'[k].arg = recent[k].arg /\ recent'[k].got = recent[k].got
              /\ k # n => recent'[k] = recent[k]
         /\ recent'[n].answers = recent[n].answers \cup {[text |-> text, user |-> u]}
<1> DEFINE a == [text |-> text, user |-> u]
           q == [recent[n] EXCEPT !.answers = @ \cup {a}]
<1>1. n \in 1 .. Len(recent) /\ recent[n] \in Query /\ a \in [text : Texts, user : User]
  OBVIOUS
<1>2. recent' = [recent EXCEPT ![n] = q]
  BY DEF Reply
<1> HIDE DEF a
<1>3. /\ q \in Query /\ q.answers = recent[n].answers \cup {a}
      /\ q.kind = recent[n].kind /\ q.user = recent[n].user
      /\ q.arg = recent[n].arg
  BY <1>1 DEF Query
<1>4. q.got = recent[n].got
  BY <1>1 DEF Query
<1> HIDE DEF q
<1>5. /\ recent' \in Seq(Query) /\ Len(recent') = Len(recent)
      /\ \A k \in 1 .. Len(recent) : recent'[k] = IF k = n THEN q ELSE recent[k]
  BY <1>1, <1>2, <1>3, ExceptSeq
<1> QED
  BY <1>1, <1>3, <1>4, <1>5 DEF a

\* What a handler may do to the slots: only the one that the query names
\* changes, or one that nobody had.
Touches(q, us, new) ==
  \A u \in User :
    /\ new[u] # us[u] => ~ us[u].active \/ (q.kind \in Naming /\ q.user = u)
    /\ us[u].active => new[u].active
    /\ us[u].authenticated /\ us[u].active => new[u].authenticated

\* A handler's effect on the settings of the client's slot
Serves(q, cl, us, new) ==
  LET u == cl.userid
  IN  /\ new[u].encoder = us[u].encoder
           \/ (cl.step \notin Early /\ new[u].encoder = cl.upcodec)
      /\ us[u].lazy /\ cl.lazymode => new[u].lazy

\* What is true of the handlers alike: query q was answered with a text
Handled(q, text, u) ==
  /\ users' \in [User -> Slot] /\ Touches(q, users, users')
  /\ Settled(c) => Serves(q, c, users, users')
  /\ q.kind = "v" /\ text = "VACK" =>
       users'[u] = [NoUser EXCEPT !.active = TRUE] /\ ~ users[u].active
  /\ q.kind = "l" /\ text = "Ok" => users'[q.user].authenticated
  /\ q.kind = "o" => text \in {q.arg, "BADIP"}
  /\ q.kind = "o" /\ text = "Lazy" => users'[q.user].lazy
  /\ q.kind = "s" /\ text # "BADIP" => users'[q.user].encoder = q.arg
  /\ q.kind = "s" /\ text = "BADIP" /\ ~ Loses
       => ~ users[q.user].active \/ ~ users[q.user].authenticated

LEMMA HandledIs ==
  ASSUME IInv, NEW n \in DOMAIN recent, NEW text \in Texts, NEW u \in User,
         Reply(n, text, u), UNCHANGED << c, line >>, Handled(recent[n], text, u)
  PROVE  IInv'
<1> DEFINE q == recent[n]
           a == [text |-> text, user |-> u]
<1>1. /\ Good(c, users, recent) /\ LastSound(c, users, recent) /\ c \in Client
      /\ recent \in Seq(Query) /\ users \in [User -> Slot]
      /\ c' = c /\ Loses' = Loses
  BY DEF IInv, Good, Loses
<1>2. /\ recent' \in Seq(Query) /\ Len(recent') = Len(recent)
      /\ \A k \in 1 .. Len(recent) :
           /\ recent'[k].kind = recent[k].kind /\ recent'[k].user = recent[k].user
           /\ recent'[k].arg = recent[k].arg
           /\ k # n => recent'[k] = recent[k]
      /\ recent'[n].answers = q.answers \cup {a}
  BY <1>1, Replies
<1>3. /\ n \in 1 .. Len(recent) /\ q \in Query /\ q.user \in User /\ c.userid \in User
      /\ a.text = text /\ a.user = u
  <2>1. q \in Query
    BY <1>1, ElementOfSeq
  <2> QED
    BY <1>1, <2>1 DEF Query, Client
<1> HIDE DEF q, a
<1>4. \A v \in User :
        /\ users[v].active => users'[v].active
        /\ users[v].active /\ users[v].authenticated => users'[v].authenticated
  BY DEF Handled, Touches
<1>5. Settled(c) => SlotSound(c, users')
  <2> SUFFICES ASSUME Settled(c) PROVE SlotSound(c, users')
    OBVIOUS
  <2>1. SlotSound(c, users) /\ Serves(q, c, users, users')
    BY <1>1 DEF Good, Handled, q
  <2>2. users'[c.userid].active /\ (c.step # "login" => users'[c.userid].authenticated)
    BY <1>3, <1>4, <2>1 DEF SlotSound
  <2>3. \/ users'[c.userid].encoder = users[c.userid].encoder
        \/ c.step \notin Early /\ users'[c.userid].encoder = c.upcodec
    BY <2>1 DEF Serves
  <2>4. /\ c.step \in Early => users'[c.userid].encoder = "Base32" /\ c.dataenc = "Base32"
        /\ c.dataenc # "Base32" => c.dataenc = c.upcodec /\ users'[c.userid].encoder = c.upcodec
    BY <2>1, <2>3 DEF SlotSound
  <2>5. c.step \in {"probe", "fragsize", "tunnel"} /\ c.lazymode => users'[c.userid].lazy
    BY <2>1 DEF SlotSound, Serves
  <2> QED
    BY <2>2, <2>4, <2>5 DEF SlotSound
<1>6. ASSUME NEW k \in 1 .. Len(recent)
      PROVE  /\ QuerySound(recent'[k], users')
             /\ Settled(c) /\ recent'[k].user = c.userid => OwnSound(recent'[k], c, users')
  <2>1. /\ recent[k] \in Query /\ QuerySound(recent[k], users)
        /\ Settled(c) /\ recent[k].user = c.userid => OwnSound(recent[k], c, users)
    BY <1>1, ElementOfSeq DEF Good, QueriesSound
  <2>2. /\ recent[k].user \in User
        /\ \A b \in recent[k].answers : b.user \in User
    BY <2>1 DEF Query
  <2>3. /\ recent'[k].kind = recent[k].kind /\ recent'[k].user = recent[k].user
        /\ recent'[k].arg = recent[k].arg
    BY <1>2
  <2>4. \A b \in recent'[k].answers : b \in recent[k].answers \/ (k = n /\ b = a)
    BY <1>2 DEF q
  <2>5. QuerySound(recent'[k], users')
    <3>1. /\ recent[k].kind \in Naming => users'[recent[k].user].active
          /\ recent[k].kind = "s" => recent[k].arg \in Codecs
          /\ recent[k].kind = "o" => recent[k].arg \in {"Lazy", "Immediate", "Downenc"}
      BY <1>4, <2>1, <2>2 DEF QuerySound
    <3>2. ASSUME NEW b \in recent'[k].answers
          PROVE  /\ recent[k].kind = "v" /\ b.text = "VACK" => users'[b.user].active
                 /\ recent[k].kind = "l" /\ b.text = "Ok" => users'[recent[k].user].authenticated
                 /\ recent[k].kind = "o" => b.text \in {recent[k].arg, "BADIP"}
      <4>1. CASE b \in recent[k].answers
        BY <1>4, <2>1, <2>2, <4>1 DEF QuerySound, Naming
      <4>2. CASE k = n /\ b = a
        <5>1. /\ q.kind = "v" /\ text = "VACK" => users'[u].active
              /\ q.kind = "l" /\ text = "Ok" => users'[q.user].authenticated
              /\ q.kind = "o" => text \in {q.arg, "BADIP"}
          BY DEF Handled, NoUser, q
        <5> QED
          BY <1>3, <4>2, <5>1 DEF q
      <4> QED
        BY <2>4, <4>1, <4>2
    <3> QED
      BY <2>3, <3>1, <3>2 DEF QuerySound
  <2>6. ASSUME Settled(c), recent[k].user = c.userid PROVE OwnSound(recent'[k], c, users')
    <3>1. OwnSound(recent[k], c, users) /\ Serves(q, c, users, users')
      BY <2>1, <2>6 DEF Handled, q
    <3>2. LazySound(recent'[k], c, users')
      <4>1. ASSUME recent[k].kind = "o" PROVE recent[k].arg = "Immediate" => ~ c.lazymode
        BY <3>1, <4>1 DEF OwnSound, LazySound
      <4>2. ASSUME recent[k].kind = "o", c.lazymode, NEW b \in recent'[k].answers,
                   b.text = "Lazy"
            PROVE  users'[recent[k].user].lazy
        <5>1. CASE b \in recent[k].answers
          BY <2>6, <3>1, <4>2, <5>1 DEF OwnSound, LazySound, Serves
        <5>2. CASE k = n /\ b = a
          BY <1>3, <4>2, <5>2 DEF Handled, q
        <5> QED
          BY <2>4, <5>1, <5>2
      <4> QED
        BY <2>3, <4>1, <4>2 DEF LazySound
    <3>3. CodecSound(recent'[k], c, users')
      <4>1. ASSUME recent[k].kind = "s" PROVE recent[k].arg = c.upcodec /\ c.step \notin Early
        BY <3>1, <4>1 DEF OwnSound, CodecSound
      <4>2. ASSUME recent[k].kind = "s", NEW b \in recent'[k].answers, b.text # "BADIP"
            PROVE  users'[recent[k].user].encoder = c.upcodec
        <5>1. CASE b \in recent[k].answers
          BY <2>6, <3>1, <4>2, <5>1 DEF OwnSound, CodecSound, Serves
        <5>2. CASE k = n /\ b = a
          BY <1>3, <4>1, <4>2, <5>2 DEF Handled, q
        <5> QED
          BY <2>4, <5>1, <5>2
      <4> QED
        BY <2>3, <4>1, <4>2 DEF CodecSound
    <3> QED
      BY <3>2, <3>3 DEF OwnSound
  <2> QED
    BY <2>3, <2>5, <2>6
<1>7. Good(c, users', recent')
  <2>1. QueriesSound(c, users', recent')
    BY <1>2, <1>6 DEF QueriesSound
  <2>2. c.sendcnt >= 0 => users'[c.userid].active
    BY <1>1, <1>3, <1>4 DEF Good
  <2>3. users' \in [User -> Slot]
    BY DEF Handled
  <2> QED
    BY <1>1, <1>2, <1>5, <2>1, <2>2, <2>3 DEF Good
<1>8. LastSound(c, users', recent')
  <2> SUFFICES ASSUME recent' # << >>
               PROVE  /\ Last(recent').user = c.userid
                      /\ Last(recent').kind = "o" /\ Last(recent').arg = "Lazy" => c.lazymode
                      /\ c.step = "version" /\ Last(recent').kind = "v" =>
                           \A b \in Last(recent').answers :
                             b.text = "VACK" => Pristine(b.user, users', recent')
    BY DEF LastSound
  <2> DEFINE m == Len(recent)
  <2>1. recent # << >> /\ m \in 1 .. Len(recent) /\ m = Len(recent')
    BY <1>1, <1>2, EmptySeq
  <2>2. Last(recent') = recent'[m] /\ Last(recent) = recent[m]
    BY <2>1 DEF Last
  <2> HIDE DEF m
  <2>3. /\ recent'[m].kind = recent[m].kind /\ recent'[m].user = recent[m].user
        /\ recent'[m].arg = recent[m].arg
    BY <1>2, <2>1
  <2>4. ASSUME c.step = "version", recent[m].kind = "v",
               NEW b \in recent'[m].answers, b.text = "VACK"
        PROVE  Pristine(b.user, users', recent')
    <3>1. CASE b \in recent[m].answers
      <4>1. Pristine(b.user, users, recent)
        BY <1>1, <2>1, <2>2, <2>4, <3>1 DEF LastSound
      <4>2. b.user \in User
        <5>1. recent[m] \in Query
          BY <1>1, <2>1, ElementOfSeq
        <5> QED
          BY <3>1, <5>1 DEF Query
      <4>3. users[b.user].active
        BY <4>1 DEF Pristine, NoUser
      <4>4. ~ (q.kind \in Naming /\ q.user = b.user)
        BY <1>3, <4>1 DEF Pristine, q
      <4>5. users'[b.user] = users[b.user]
        BY <4>2, <4>3, <4>4 DEF Handled, Touches, q
      <4> QED
        BY <1>2, <4>1, <4>5 DEF Pristine
    <3>2. CASE m = n /\ b = a
      <4>1. users'[u] = [NoUser EXCEPT !.active = TRUE] /\ ~ users[u].active
        BY <1>3, <2>4, <3>2 DEF Handled, q
      <4>2. \A k \in 1 .. Len(recent) :
              recent[k].kind \in Naming => users[recent[k].user].active
        BY <1>1 DEF Good, QueriesSound, QuerySound
      <4> QED
        BY <1>2, <1>3, <3>2, <4>1, <4>2 DEF Pristine
    <3> QED
      BY <1>2, <2>1, <3>1, <3>2 DEF q
  <2> QED
    BY <1>1, <2>1, <2>2, <2>3, <2>4 DEF LastSound
<1>9. ASSUME ~ Loses PROVE Perfect(c, users', recent')
  <2>1. NoneRefused(c, recent) /\ SecondTry(c, recent) /\ BothSwitched(c, users)
    BY <1>9 DEF IInv, Perfect
  <2>2. NoneRefused(c, recent')
    <3> SUFFICES ASSUME Settled(c), NEW k \in 1 .. Len(recent), NEW b \in recent'[k].answers,
                        recent[k].kind = "s", recent[k].user = c.userid
                 PROVE  b.text # "BADIP"
      BY <1>2 DEF NoneRefused
    <3>1. CASE b \in recent[k].answers
      BY <2>1, <3>1 DEF NoneRefused
    <3>2. CASE k = n /\ b = a
      <4>1. c.step \notin Early
        BY <1>1 DEF Good, QueriesSound, OwnSound, CodecSound
      <4>2. users[c.userid].active /\ users[c.userid].authenticated
        BY <1>1, <4>1 DEF Good, SlotSound, Early
      <4> QED
        BY <1>3, <1>9, <3>2, <4>2 DEF Handled, q
    <3> QED
      BY <1>2, <3>1, <3>2 DEF q
  <2>3. SecondTry(c, recent')
    <3>1. recent # << >> => Len(recent) \in 1 .. Len(recent) /\ recent' # << >>
      BY <1>1, <1>2, EmptySeq
    <3> QED
      BY <1>2, <2>1, <3>1 DEF SecondTry, Last
  <2>4. BothSwitched(c, users')
    <3>1. c.step \in Late => Settled(c)
      BY DEF Late, Settled, HandshakeSteps, TestSteps
    <3> QED
      BY <2>1, <3>1 DEF BothSwitched, Handled, Serves
  <2> QED
    BY <2>2, <2>3, <2>4 DEF Perfect
<1> QED
  BY <1>1, <1>7, <1>8, <1>9 DEF IInv

\* What a handler knows of the query it got
LEMMA Received ==
  ASSUME IInv, NEW n \in DOMAIN recent
  PROVE  /\ recent[n] \in Query /\ recent[n].user \in User
         /\ QuerySound(recent[n], users)
         /\ c.userid \in User /\ users \in [User -> Slot]
         /\ Settled(c) => SlotSound(c, users)
         /\ Settled(c) /\ recent[n].user = c.userid => OwnSound(recent[n], c, users)
         /\ 0 \in User
<1>1. Good(c, users, recent)
  BY DEF IInv
<1>2. recent[n] \in Query /\ n \in 1 .. Len(recent)
  BY <1>1, ElementOfSeq DEF Good
<1> QED
  BY <1>1, <1>2, Numbers DEF Good, QueriesSound, Query, Client

LEMMA SetIs ==
  ASSUME users \in [User -> Slot], NEW w \in User, NEW r \in Slot, Set(w, r)
  PROVE  /\ users' \in [User -> Slot] /\ users'[w] = r
         /\ \A v \in User : v # w => users'[v] = users[v]
  BY DEF Set

\* A query that changes no settings
LEMMA OnlyReplies ==
  ASSUME IInv, NEW n \in DOMAIN recent, NEW text \in {"VFUL", "BADIP", "Ok"},
         Reply(n, text, 0), UNCHANGED << c, users, line >>,
         recent[n].kind = "l" => text # "Ok",
         recent[n].kind = "o" => text = "BADIP",
         recent[n].kind = "s" => text = "BADIP",
         recent[n].kind = "s" /\ ~ Loses =>
           ~ users[recent[n].user].active \/ ~ users[recent[n].user].authenticated
  PROVE  IInv'
<1>1. users' \in [User -> Slot] /\ 0 \in User /\ text \in Texts
  BY Received DEF Texts
<1>2. Touches(recent[n], users, users') /\ Serves(recent[n], c, users, users')
  BY DEF Touches, Serves
<1>3. Handled(recent[n], text, 0)
  BY <1>1, <1>2 DEF Handled
<1> QED
  BY <1>1, <1>3, HandledIs

LEMMA RefuseKeeps ==
  ASSUME IInv, NEW n \in DOMAIN recent, Refuse(n)
  PROVE  IInv'
<1>1. /\ recent[n].kind = "s" /\ ~ Loses =>
           ~ users[recent[n].user].active \/ ~ users[recent[n].user].authenticated
      /\ Reply(n, "BADIP", 0) /\ UNCHANGED << c, users, line >>
  BY DEF Refuse
<1> QED
  BY <1>1, OnlyReplies

LEMMA HandleTestKeeps ==
  ASSUME IInv, NEW n \in DOMAIN recent, HandleTest(n)
  PROVE  IInv'
  BY OnlyReplies DEF HandleTest, Arrives

LEMMA HandlePingKeeps ==
  ASSUME IInv, NEW n \in DOMAIN recent, HandlePing(n)
  PROVE  IInv'
  BY OnlyReplies DEF HandlePing, Arrives

\* A handler that changes the slot named by the query, and has looked into it
LEMMA SettingKeeps ==
  ASSUME IInv, NEW n \in DOMAIN recent, NEW text \in Texts \ {"BADIP"}, NEW r \in Slot,
         recent[n].kind \in Naming,
         Set(recent[n].user, r), Reply(n, text, 0), UNCHANGED << c, line >>,
         r.active,
         users[recent[n].user].authenticated => r.authenticated,
         \/ r.encoder = users[recent[n].user].encoder
         \/ recent[n].kind = "s" /\ r.encoder = recent[n].arg,
         recent[n].kind = "o" /\ recent[n].arg # "Immediate" /\ users[recent[n].user].lazy
           => r.lazy,
         recent[n].kind # "o" /\ users[recent[n].user].lazy => r.lazy,
         recent[n].kind = "l" /\ text = "Ok" => r.authenticated,
         recent[n].kind = "o" => text = recent[n].arg,
         recent[n].kind = "o" /\ text = "Lazy" => r.lazy,
         recent[n].kind = "s" => r.encoder = recent[n].arg
  PROVE  IInv'
<1> DEFINE q == recent[n]
<1>1. /\ q.user \in User /\ c.userid \in User /\ 0 \in User
      /\ Settled(c) /\ q.user = c.userid => OwnSound(q, c, users)
      /\ users' \in [User -> Slot] /\ users'[q.user] = r
      /\ \A v \in User : v # q.user => users'[v] = users[v]
  BY Received, SetIs
<1>2. Touches(q, users, users')
  BY <1>1 DEF Touches
<1>3. ASSUME Settled(c) PROVE Serves(q, c, users, users')
  <2>1. CASE q.user # c.userid
    BY <1>1, <2>1 DEF Serves
  <2>2. CASE q.user = c.userid
    <3>1. /\ q.kind = "s" => q.arg = c.upcodec /\ c.step \notin Early
          /\ q.kind = "o" /\ q.arg = "Immediate" => ~ c.lazymode
      BY <1>1, <1>3, <2>2 DEF OwnSound, CodecSound, LazySound
    <3>2. \/ users'[c.userid].encoder = users[c.userid].encoder
          \/ c.step \notin Early /\ users'[c.userid].encoder = c.upcodec
      BY <1>1, <2>2, <3>1
    <3>3. users[c.userid].lazy /\ c.lazymode => users'[c.userid].lazy
      BY <1>1, <2>2, <3>1
    <3> QED
      BY <3>2, <3>3 DEF Serves
  <2> QED
    BY <2>1, <2>2
<1>4. Handled(q, text, 0)
  BY <1>1, <1>2, <1>3 DEF Handled, Naming
<1> QED
  BY <1>1, <1>4, HandledIs

LEMMA HandleLoginKeeps ==
  ASSUME IInv, NEW n \in DOMAIN recent, HandleLogin(n)
  PROVE  IInv'
<1> DEFINE u == recent[n].user
           r == [users[u] EXCEPT !.authenticated = TRUE]
<1>1. /\ recent[n].kind = "l" /\ users[u].active
      /\ Set(u, r) /\ Reply(n, "Ok", 0) /\ UNCHANGED << c, line >>
  BY DEF HandleLogin, Arrives
<1>2. users[u] \in Slot
  BY Received
<1>3. r \in Slot /\ r.active /\ r.authenticated /\ r.encoder = users[u].encoder
  BY <1>1, <1>2 DEF Slot
<1>4. users[u].lazy => r.lazy
  BY <1>2 DEF Slot
<1> HIDE DEF r
<1>5. "Ok" \in Texts \ {"BADIP"} /\ recent[n].kind \in Naming
  BY <1>1 DEF Texts, Naming
<1> QED
  BY <1>1, <1>3, <1>4, <1>5, SettingKeeps

LEMMA HandleCodecKeeps ==
  ASSUME IInv, NEW n \in DOMAIN recent, HandleCodec(n)
  PROVE  IInv'
<1> DEFINE u == recent[n].user
           arg == recent[n].arg
           r == [users[u] EXCEPT !.encoder = arg]
<1>1. /\ recent[n].kind = "s" /\ users[u].authenticated
      /\ Set(u, r) /\ Reply(n, arg, 0) /\ UNCHANGED << c, line >>
  BY DEF HandleCodec, Arrives
<1>2. users[u] \in Slot /\ arg \in Codecs /\ users[u].active
  BY <1>1, Received DEF QuerySound, Naming
<1>3. r \in Slot /\ r.active /\ r.authenticated /\ r.encoder = arg
  BY <1>1, <1>2 DEF Slot
<1>4. users[u].lazy => r.lazy
  BY <1>2 DEF Slot
<1> HIDE DEF r
<1>5. arg \in Texts \ {"BADIP"} /\ recent[n].kind \in Naming
  BY <1>1, <1>2, CodecAssumption DEF Texts, Args, Naming
<1> QED
  BY <1>1, <1>3, <1>4, <1>5, SettingKeeps

LEMMA HandleOptionKeeps ==
  ASSUME IInv, NEW n \in DOMAIN recent, HandleOption(n)
  PROVE  IInv'
<1> DEFINE u == recent[n].user
           option == recent[n].arg
           r == IF option = "Downenc" THEN [users[u] EXCEPT !.downenc = TRUE]
                ELSE [users[u] EXCEPT !.lazy = (option = "Lazy")]
<1>1. /\ recent[n].kind = "o" /\ users[u].authenticated
      /\ Set(u, r) /\ Reply(n, option, 0) /\ UNCHANGED << c, line >>
  BY DEF HandleOption, Arrives
<1>2. users[u] \in Slot /\ users[u].active /\ option \in {"Lazy", "Immediate", "Downenc"}
  BY <1>1, Received DEF QuerySound, Naming
<1>3. r \in Slot /\ r.active /\ r.authenticated /\ r.encoder = users[u].encoder
  BY <1>1, <1>2 DEF Slot
<1>4. CASE option = "Downenc"
  <2>1. r = [users[u] EXCEPT !.downenc = TRUE]
    BY <1>4
  <2>2. users[u].lazy => r.lazy
    BY <1>2, <2>1 DEF Slot
  <2> HIDE DEF r
  <2>3. option \in Texts \ {"BADIP"} /\ recent[n].kind \in Naming
    BY <1>1, <1>4 DEF Texts, Args, Naming
  <2> QED
    BY <1>1, <1>3, <1>4, <2>2, <2>3, SettingKeeps
<1>5. CASE option # "Downenc"
  <2>1. r = [users[u] EXCEPT !.lazy = (option = "Lazy")]
    BY <1>5
  <2>2. option = "Lazy" => r.lazy
    BY <1>2, <2>1 DEF Slot
  <2> HIDE DEF r
  <2>3. option \in Texts \ {"BADIP"} /\ recent[n].kind \in Naming
    BY <1>1, <1>2 DEF Texts, Args, Naming
  <2> QED
    BY <1>1, <1>2, <1>3, <1>5, <2>2, <2>3, SettingKeeps
<1> QED
  BY <1>4, <1>5

LEMMA HandleFragsizeKeeps ==
  ASSUME IInv, NEW n \in DOMAIN recent, HandleFragsize(n)
  PROVE  IInv'
<1> DEFINE u == recent[n].user
           r == [users[u] EXCEPT !.fragsize = TRUE]
<1>1. /\ recent[n].kind = "n" /\ users[u].authenticated
      /\ Set(u, r) /\ Reply(n, "Ok", 0) /\ UNCHANGED << c, line >>
  BY DEF HandleFragsize, Arrives
<1>2. users[u] \in Slot /\ users[u].active
  BY <1>1, Received DEF QuerySound, Naming
<1>3. r \in Slot /\ r.active /\ r.authenticated /\ r.encoder = users[u].encoder
  BY <1>1, <1>2 DEF Slot
<1>4. users[u].lazy => r.lazy
  BY <1>2 DEF Slot
<1> HIDE DEF r
<1>5. "Ok" \in Texts \ {"BADIP"} /\ recent[n].kind \in Naming
  BY <1>1 DEF Texts, Naming
<1> QED
  BY <1>1, <1>3, <1>4, <1>5, SettingKeeps

\* A slot is given away: nobody had it, so nobody asks for anything in it.
LEMMA HandleVersionKeeps ==
  ASSUME IInv, NEW n \in DOMAIN recent, HandleVersion(n)
  PROVE  IInv'
<1>1. recent[n].kind = "v" /\ UNCHANGED << c, line >>
  BY DEF HandleVersion, Arrives
<1>2. CASE Reply(n, "VFUL", 0) /\ UNCHANGED users
  BY <1>1, <1>2, OnlyReplies
<1>3. CASE \E u \in User : /\ Available(u) /\ Reply(n, "VACK", u)
                          /\ Set(u, [NoUser EXCEPT !.active = TRUE])
  <2> DEFINE r == [NoUser EXCEPT !.active = TRUE]
  <2>1. PICK u \in User : ~ users[u].active /\ Reply(n, "VACK", u) /\ Set(u, r)
    BY <1>3 DEF Available
  <2>2. r \in Slot /\ r.active
    BY CodecAssumption DEF NoUser, Slot
  <2> HIDE DEF r
  <2>3. /\ users' \in [User -> Slot] /\ users'[u] = r
        /\ \A v \in User : v # u => users'[v] = users[v]
    BY <2>1, <2>2, SetIs, Received
  <2>4. Touches(recent[n], users, users')
    BY <2>1, <2>2, <2>3 DEF Touches
  <2>5. ASSUME Settled(c) PROVE Serves(recent[n], c, users, users')
    <3>1. c.userid \in User /\ users[c.userid].active
      BY <2>5, Received DEF SlotSound
    <3>2. users'[c.userid] = users[c.userid]
      BY <2>1, <2>3, <3>1
    <3> QED
      BY <3>2 DEF Serves
  <2>6. Handled(recent[n], "VACK", u)
    BY <1>1, <2>1, <2>3, <2>4, <2>5 DEF Handled, r
  <2> QED
    BY <1>1, <2>1, <2>6, HandledIs DEF Texts
<1> QED
  BY <1>2, <1>3 DEF HandleVersion

-----------------------------------------------------------------------------
(***************************************************************************)
(* The invariant holds in every state.                                     *)
(***************************************************************************)

LEMMA InitIInv == Init => IInv
<1> SUFFICES ASSUME Init PROVE IInv
  OBVIOUS
<1> DEFINE zero == 0
<1>1. c = [step |-> "over", tries |-> zero, off |-> zero, userid |-> zero,
           dataenc |-> "Base32", upcodec |-> "Base32", downenc |-> FALSE,
           lazymode |-> FALSE, patient |-> FALSE, sendcnt |-> -1, recvcnt |-> zero]
      /\ users = [u \in User |-> NoUser] /\ recent = << >>
  BY DEF Init
<1>2. zero \in Nat /\ zero \in User /\ zero = 0
  BY Numbers
<1> HIDE DEF zero
<1>3. c \in Client /\ c.step = "over" /\ c.off = zero /\ c.sendcnt = -1
  BY <1>1, <1>2, CodecAssumption DEF Client
<1>4. users \in [User -> Slot]
  BY <1>1, CodecAssumption DEF NoUser, Slot
<1>5. recent \in Seq(Query) /\ Len(recent) = 0
  BY <1>1, EmptySeq
<1>6. ~ Settled(c) /\ OffSound(c)
  BY <1>2, <1>3 DEF Settled, OffSound, HandshakeSteps, TestSteps
<1>7. Good(c, users, recent)
  BY <1>3, <1>4, <1>5, <1>6 DEF Good, QueriesSound
<1>8. LastSound(c, users, recent)
  BY <1>1 DEF LastSound
<1>9. Perfect(c, users, recent)
  BY <1>3, <1>6 DEF Perfect, NoneRefused, SecondTry, BothSwitched, Late
<1> QED
  BY <1>7, <1>8, <1>9 DEF IInv

LEMMA StepIInv == IInv /\ [Next]_vars => IInv'
<1> SUFFICES ASSUME IInv, [Next]_vars PROVE IInv'
  OBVIOUS
<1>1. CASE HandshakeNext
  BY <1>1, VersionAnsweredKeeps, LoginAnsweredKeeps, CodecAnsweredKeeps,
     DownencOrFragsizeAnsweredKeeps, LazyAnsweredKeeps, TimeoutKeeps, TestGoesOnKeeps,
     TestEndsKeeps, LazyoffAnsweredKeeps, LazyoffAgainKeeps DEF HandshakeNext
<1>2. CASE IodinedNext
  BY <1>2, HandleVersionKeeps, RefuseKeeps, HandleLoginKeeps, HandleTestKeeps,
     HandleCodecKeeps, HandleOptionKeeps, HandleFragsizeKeeps, HandlePingKeeps
     DEF IodinedNext
<1>3. CASE Ping
  BY <1>3, PingKeeps
<1>4. CASE \E n \in DOMAIN recent : PingAnswered(n)
  BY <1>4, PingAnsweredKeeps
<1>5. CASE Stop
  BY <1>5, StopKeeps
<1>6. CASE Connect
  BY <1>6, ConnectKeeps
<1>7. CASE UNCHANGED vars
  <2>1. UNCHANGED << c, users, recent, line >>
    BY <1>7 DEF vars
  <2> QED
    BY <2>1 DEF IInv, Loses
<1> QED
  BY <1>1, <1>2, <1>3, <1>4, <1>5, <1>6, <1>7 DEF Next

LEMMA Inductive == Spec => []IInv
  BY InitIInv, StepIInv, PTL DEF Spec

\* A client in lazy mode has a server in lazy mode, whichever of its requests
\* were lost, repeated or answered late (handshake_lazyoff, send_lazy_switch).
THEOREM AgreesOnLazy == Spec => []LazyAgreed
<1>1. IInv => LazyAgreed
  BY DEF IInv, Good, SlotSound, Settled, LazyAgreed, InTunnel
<1> QED
  BY <1>1, Inductive, PTL

\* The codec that a client switched to is the one of its slot at the server;
\* and where every query is answered, a client that stayed with Base32 has a
\* server that stayed with it (handshake_switch_codec).
THEOREM AgreesOnCodec == Spec => []ConfirmedCodecIsUsed
<1>1. IInv => ConfirmedCodecIsUsed
  BY DEF IInv, Good, SlotSound, Settled, Perfect, BothSwitched, Late, ConfirmedCodecIsUsed,
     InTunnel, HandshakeSteps, TestSteps
<1> QED
  BY <1>1, Inductive, PTL
-----------------------------------------------------------------------------
(***************************************************************************)
(* The first connection on a line that answers everything.  In the         *)
(* handshake nothing is counted and every request is answered as the       *)
(* client wants it; in the tunnel at most the last two queries lack an     *)
(* answer, so the counts never tell to leave lazy mode.                    *)
(***************************************************************************)

\* The server knows whoever asks
Unrefused(us, rec) ==
  \A n \in 1 .. Len(rec) :
    rec[n].kind \in {"o", "p"} =>
      us[rec[n].user].authenticated /\ \A a \in rec[n].answers : a.text # "BADIP"

Open(q)  == q.kind = "p" /\ ~ q.got
Ungot(q) == IF Open(q) THEN 1 ELSE 0

UngotAtEnd(rec) ==
  Ungot(Last(rec)) + (IF Len(rec) > 1 THEN Ungot(rec[Len(rec) - 1]) ELSE 0)

Counted(cl, rec) ==
  /\ cl.sendcnt \in 0 .. CountLimit
  /\ cl.sendcnt <= cl.recvcnt + UngotAtEnd(rec)
  /\ \A n \in 1 .. Len(rec) - 2 : ~ Open(rec[n])

InHandshake(cl, rec) ==
  /\ cl.sendcnt = -1 /\ cl.recvcnt = 0
  /\ Last(rec).kind = Letter(cl.step)
  /\ cl.step = "lazy" => Last(rec).arg = "Lazy"
  /\ \A n \in 1 .. Len(rec) : rec[n].kind # "p"

First(cl, us, rec) ==
  /\ cl.lazymode /\ cl.off = 0 /\ rec # << >> /\ Unrefused(us, rec)
  /\ cl.step \in HandshakeSteps => InHandshake(cl, rec)
  /\ cl.step = "tunnel" => Counted(cl, rec)

FirstInv ==
  /\ connection \in Nat
  /\ connection = 0 =>
       /\ recent = << >> /\ c.step = "over" /\ c.off = 0
       /\ c.sendcnt = -1 /\ c.recvcnt = 0
  /\ connection = 1 /\ ~ Loses /\ lazy_mode /\ Busy(c) => First(c, users, recent)

\* The recent queries after one more: the last two are the two latest.
LEMMA OneMore ==
  ASSUME NEW rec \in Seq(Query), NEW q \in Query
  PROVE  LET r == Newest(rec \o << q >>) IN
         /\ r \in Seq(Query) /\ r # << >> /\ Last(r) = q
         /\ Len(rec) \in Nat /\ Len(r) \in Nat /\ Len(r) >= 1
         /\ rec # << >> => Len(r) > 1
         /\ Len(r) > 1 => Len(rec) >= 1 /\ r[Len(r) - 1] = rec[Len(rec)]
         /\ \A n \in 1 .. Len(r) - 1 : \E k \in 1 .. Len(rec) : r[n] = rec[k]
         /\ \A n \in 1 .. Len(r) - 2 : \E k \in 1 .. Len(rec) - 1 : r[n] = rec[k]
<1> DEFINE new == << q >>
           qs  == rec \o new
           r   == Newest(qs)
<1>1. new \in Seq(Query) /\ new # << >> /\ Len(new) = 1 /\ new[1] = q
  OBVIOUS
<1> HIDE DEF new
<1>2. r \in Seq(Query) /\ r # << >> /\ Last(r) = q
  BY <1>1, Appended DEF Last
<1>3. /\ qs \in Seq(Query) /\ Len(qs) = Len(rec) + 1 /\ Len(rec) \in Nat
      /\ \A n \in 1 .. Len(rec) : qs[n] = rec[n]
  <2>1. /\ qs \in Seq(Query) /\ Len(qs) = Len(rec) + Len(new)
        /\ \A n \in 1 .. Len(rec) + Len(new) :
             qs[n] = IF n <= Len(rec) THEN rec[n] ELSE new[n - Len(rec)]
    BY <1>1, ConcatProperties
  <2> HIDE DEF qs
  <2> QED
    BY <1>1, <2>1
<1>4. qs # << >>
  BY <1>3, EmptySeq
<1> HIDE DEF qs
<1>5. /\ Len(r) = IF Len(qs) > MaxLag THEN MaxLag ELSE Len(qs)
      /\ \A n \in 1 .. Len(r) : r[n] = qs[n + Len(qs) - Len(r)]
  BY <1>3, <1>4, NewestOf
<1> HIDE DEF r
<1>6. Len(r) \in Nat /\ Len(r) >= 1 /\ Len(r) <= Len(rec) + 1 /\ (Len(rec) > 0 => Len(r) > 1)
  BY <1>3, <1>5, Numbers
<1>7. \A n \in 1 .. Len(r) - 1 :
        /\ n + Len(rec) + 1 - Len(r) \in 1 .. Len(rec)
        /\ r[n] = rec[n + Len(rec) + 1 - Len(r)]
  <2> SUFFICES ASSUME NEW n \in 1 .. Len(r) - 1
               PROVE  /\ n + Len(rec) + 1 - Len(r) \in 1 .. Len(rec)
                      /\ r[n] = rec[n + Len(rec) + 1 - Len(r)]
    OBVIOUS
  <2> DEFINE k == n + Len(rec) + 1 - Len(r)
  <2>1. k \in 1 .. Len(rec) /\ n \in 1 .. Len(r) /\ n + Len(qs) - Len(r) = k
    BY <1>3, <1>6
  <2> HIDE DEF k
  <2>2. r[n] = qs[k] /\ qs[k] = rec[k]
    BY <1>3, <1>5, <2>1
  <2> QED
    BY <2>1, <2>2 DEF k
<1>8. Len(r) > 1 => r[Len(r) - 1] = rec[Len(rec)] /\ Len(rec) >= 1
  <2>1. Len(r) > 1 => Len(r) - 1 \in 1 .. Len(r) - 1 /\ Len(r) - 1 + Len(rec) + 1 - Len(r) = Len(rec)
    BY <1>3, <1>6
  <2> QED
    BY <1>6, <1>7, <2>1
<1>9. \A n \in 1 .. Len(r) - 2 :
        /\ n + Len(rec) + 1 - Len(r) \in 1 .. Len(rec) - 1
        /\ r[n] = rec[n + Len(rec) + 1 - Len(r)]
  BY <1>3, <1>6, <1>7
<1>10. rec # << >> => Len(rec) > 0
  BY EmptySeq, <1>3
<1> QED
  BY <1>2, <1>3, <1>6, <1>7, <1>8, <1>9, <1>10 DEF r, qs, new

\* In the handshake nothing is counted.
LEMMA HandshakeSends ==
  ASSUME NEW cl \in Client, cl.step \in HandshakeSteps, cl.lazymode, cl.off = 0,
         cl.sendcnt = -1, cl.recvcnt = 0, recent \in Seq(Query), Unrefused(users, recent),
         \A n \in 1 .. Len(recent) : recent[n].kind # "p",
         Send(cl), UNCHANGED users, IInv'
  PROVE  First(c', users', recent')
<1> DEFINE q == Request(cl)
<1>1. CountQuery(cl) = cl
  BY Numbers DEF CountQuery, Counting
<1>2. c' = cl /\ recent' = Newest(recent \o << q >>)
  BY <1>1 DEF Send
<1>3. /\ q \in Query /\ q.answers = {} /\ q.user = cl.userid
      /\ q.kind = Letter(cl.step) /\ (cl.step = "lazy" => q.arg = "Lazy")
  <2>1. Letter("lazy") = "o" /\ Busy(cl)
    BY DEF Letter, Busy
  <2>2. /\ q \in Query /\ q.answers = {} /\ q.user = cl.userid
        /\ q.kind = IF cl.off > 0 \/ cl.step = "lazy" THEN "o" ELSE Letter(cl.step)
        /\ q.kind = "o" => q.arg = IF cl.off > 0 \/ cl.step = "lazy"
                                  THEN (IF cl.lazymode THEN "Lazy" ELSE "Immediate")
                                  ELSE "Downenc"
    BY <2>1, RequestIs
  <2> HIDE DEF q
  <2> QED
    BY <2>1, <2>2
<1> HIDE DEF q
<1>4. q.kind # "p" /\ (q.kind = "o" => cl.step \in {"downenc", "lazy"})
  BY <1>3 DEF Letter, HandshakeSteps, TestSteps
<1>5. q.kind = "o" => users[q.user].authenticated
  <2>1. IInv' => Good(c', users', recent')
    BY DEF IInv
  <2> QED
    BY <1>2, <1>3, <1>4, <2>1 DEF Good, Settled, SlotSound, HandshakeSteps, TestSteps
<1>6. /\ recent' # << >> /\ Last(recent') = q /\ Len(recent') \in Nat
      /\ recent'[Len(recent')] = q
      /\ \A n \in 1 .. Len(recent') - 1 : \E k \in 1 .. Len(recent) : recent'[n] = recent[k]
  <2> DEFINE r == Newest(recent \o << q >>)
  <2>1. /\ r # << >> /\ Last(r) = q /\ Len(r) \in Nat
        /\ \A n \in 1 .. Len(r) - 1 : \E k \in 1 .. Len(recent) : r[n] = recent[k]
    BY <1>3, OneMore
  <2> HIDE DEF r
  <2>2. recent' = r
    BY <1>2 DEF r
  <2> QED
    BY <2>1, <2>2 DEF Last
<1>7. \A n \in 1 .. Len(recent') : n = Len(recent') \/ n \in 1 .. Len(recent') - 1
  BY <1>6
<1>8. Unrefused(users', recent')
  BY <1>3, <1>4, <1>5, <1>6, <1>7 DEF Unrefused
<1>9. \A n \in 1 .. Len(recent') : recent'[n].kind # "p"
  BY <1>4, <1>6, <1>7
<1> QED
  BY <1>2, <1>3, <1>6, <1>8, <1>9 DEF First, InHandshake, HandshakeSteps, TestSteps

\* In the tunnel counting begins with nothing under way.
LEMMA HandshakeGoesOn ==
  ASSUME NEW cl \in Client, cl.step \in HandshakeSteps, cl.lazymode, cl.off = 0,
         cl.sendcnt = -1, cl.recvcnt = 0, recent \in Seq(Query), Unrefused(users, recent),
         recent # << >>, \A n \in 1 .. Len(recent) : recent[n].kind # "p",
         GoOn(cl), UNCHANGED users, IInv'
  PROVE  First(c', users', recent')
<1>1. CASE cl.step # "fragsize"
  <2> DEFINE one  == 1
             next == [cl EXCEPT !.step = NextStep(cl), !.tries = one]
  <2>1. Send(next) /\ one \in Nat
    BY <1>1 DEF GoOn
  <2>2. NextStep(cl) \in HandshakeSteps
    BY <1>1, NextStepIs
  <2> HIDE DEF one
  <2>3. /\ next \in Client /\ next.step \in HandshakeSteps /\ next.off = 0
        /\ next.sendcnt = -1 /\ next.recvcnt = 0
    BY <2>1, <2>2 DEF Client
  <2>4. next.lazymode
    BY DEF Client
  <2> HIDE DEF next
  <2> QED
    BY <2>1, <2>3, <2>4, HandshakeSends
<1>2. CASE cl.step = "fragsize"
  <2> DEFINE zero == 0
  <2>1. c' = [cl EXCEPT !.step = "tunnel", !.sendcnt = zero] /\ recent' = recent
    BY <1>2 DEF GoOn
  <2>2. zero \in Int /\ zero = 0
    OBVIOUS
  <2> HIDE DEF zero
  <2>3. c'.step = "tunnel" /\ c'.sendcnt = zero /\ c'.recvcnt = 0 /\ c'.off = 0
    BY <2>1, <2>2 DEF Client
  <2>4. c'.lazymode
    BY <2>1 DEF Client
  <2>5. Len(recent) \in 1 .. Len(recent) /\ Len(recent) \in Nat
    BY EmptySeq
  <2>6. \A n \in 1 .. Len(recent) : ~ Open(recent[n])
    BY DEF Open
  <2>7. UngotAtEnd(recent) = 0
    BY <2>5, <2>6 DEF UngotAtEnd, Ungot, Last
  <2>8. Counted(c', recent)
    BY <2>2, <2>3, <2>5, <2>6, <2>7, Numbers DEF Counted
  <2> QED
    BY <2>1, <2>3, <2>4, <2>8 DEF First, HandshakeSteps, TestSteps
<1> QED
  BY <1>1, <1>2


\* The step of a first connection
FirstStep ==
  /\ IInv /\ IInv' /\ ~ Loses /\ Busy(c) /\ First(c, users, recent)

\* A client in the handshake that is about to go on
LEMMA FirstGoesOn ==
  ASSUME FirstStep, c.step \in HandshakeSteps, NEW cl \in Client, GoOn(cl), UNCHANGED users,
         cl.step = c.step, cl.lazymode, cl.off = c.off,
         cl.sendcnt = c.sendcnt, cl.recvcnt = c.recvcnt
  PROVE  First(c', users', recent')
<1>1. recent \in Seq(Query)
  BY DEF FirstStep, IInv, Good
<1>2. /\ c.off = 0 /\ c.sendcnt = -1 /\ c.recvcnt = 0 /\ recent # << >>
      /\ Unrefused(users, recent) /\ \A n \in 1 .. Len(recent) : recent[n].kind # "p"
  BY DEF FirstStep, First, InHandshake
<1> QED
  BY <1>1, <1>2, HandshakeGoesOn DEF FirstStep

\* Another try
LEMMA FirstTriesAgain ==
  ASSUME FirstStep, c.step \in HandshakeSteps, Send([c EXCEPT !.tries = @ + 1]),
         UNCHANGED users
  PROVE  First(c', users', recent')
<1> DEFINE cl == [c EXCEPT !.tries = @ + 1]
<1>1. recent \in Seq(Query) /\ c \in Client
  BY DEF FirstStep, IInv, Good
<1>2. /\ c.off = 0 /\ c.sendcnt = -1 /\ c.recvcnt = 0 /\ c.lazymode
      /\ Unrefused(users, recent) /\ \A n \in 1 .. Len(recent) : recent[n].kind # "p"
  BY DEF FirstStep, First, InHandshake
<1>3. /\ cl \in Client /\ cl.step \in HandshakeSteps /\ cl.off = 0
      /\ cl.sendcnt = -1 /\ cl.recvcnt = 0
  BY <1>1, <1>2 DEF Client
<1>4. cl.lazymode
  BY <1>1, <1>2 DEF Client
<1> HIDE DEF cl
<1> QED
  BY <1>1, <1>2, <1>3, <1>4, HandshakeSends DEF FirstStep, cl

LEMMA FirstFails ==
  ASSUME c \in Client, Fail
  PROVE  ~ Busy(c')
<1>1. c'.step = "failed"
  BY DEF Fail, Client
<1> QED
  BY <1>1 DEF Busy, HandshakeSteps, TestSteps

\* Every answer fits, and none refuses lazy mode.
LEMMA FirstHandshake ==
  ASSUME FirstStep, HandshakeNext, Busy(c')
  PROVE  First(c', users', recent')
<1>1. c \in Client /\ recent \in Seq(Query)
  BY DEF FirstStep, IInv, Good
<1>2. /\ c.lazymode /\ c.off = 0 /\ recent # << >> /\ Unrefused(users, recent)
      /\ c.step \in HandshakeSteps => InHandshake(c, recent)
  BY DEF FirstStep, First
<1>3. c.step \in HandshakeSteps => ~ MayTimeOut
  BY <1>2 DEF MayTimeOut, Fits, InHandshake, Last, FirstStep
<1>4. CASE VersionAnswered
  <2>1. c.step = "version" /\ UNCHANGED users
    BY <1>4 DEF VersionAnswered, InStep
  <2>2. PICK a \in Answers :
          IF a.text = "VACK" THEN GoOn([c EXCEPT !.userid = a.user]) ELSE Fail
    BY <1>4 DEF VersionAnswered
  <2>3. a.text = "VACK"
    BY <1>1, <2>2, FirstFails
  <2> DEFINE cl == [c EXCEPT !.userid = a.user]
  <2>4. a.user \in User
    BY <1>1, AnswerIs DEF Query, FirstStep
  <2>5. /\ cl \in Client /\ cl.step = c.step /\ cl.off = c.off
        /\ cl.sendcnt = c.sendcnt /\ cl.recvcnt = c.recvcnt
    BY <1>1, <2>4 DEF Client
  <2>6. cl.lazymode
    BY <1>1, <1>2 DEF Client
  <2>7. GoOn(cl) /\ c.step \in HandshakeSteps
    BY <2>1, <2>2, <2>3 DEF HandshakeSteps
  <2> HIDE DEF cl
  <2> QED
    BY <2>1, <2>5, <2>6, <2>7, FirstGoesOn
<1>5. CASE LoginAnswered
  <2>1. c.step = "login" /\ UNCHANGED users
    BY <1>5 DEF LoginAnswered, InStep
  <2>2. c.step \in HandshakeSteps
    BY <2>1 DEF HandshakeSteps
  <2>3. CASE GoOn(c)
    BY <1>1, <1>2, <2>1, <2>2, <2>3, FirstGoesOn
  <2>4. CASE TryAgain
    <3>1. Send([c EXCEPT !.tries = @ + 1]) \/ Fail
      BY <2>1, <2>4 DEF TryAgain, GiveUp
    <3> QED
      BY <1>1, <2>1, <2>2, <3>1, FirstTriesAgain, FirstFails
  <2> QED
    BY <1>5, <2>3, <2>4 DEF LoginAnswered
<1>6. CASE CodecAnswered
  <2>1. c.step = "codec" /\ UNCHANGED users
    BY <1>6 DEF CodecAnswered, InStep
  <2>2. PICK a \in Answers : GoOn(SwitchCodec(a))
    BY <1>6 DEF CodecAnswered
  <2> DEFINE cl == SwitchCodec(a)
  <2>3. cl = c \/ cl = [c EXCEPT !.dataenc = c.upcodec]
    BY DEF SwitchCodec
  <2> HIDE DEF cl
  <2>4. /\ cl \in Client /\ cl.step = c.step /\ cl.off = c.off
        /\ cl.sendcnt = c.sendcnt /\ cl.recvcnt = c.recvcnt
    BY <1>1, <2>3 DEF Client
  <2>5. cl.lazymode
    BY <1>1, <1>2, <2>3 DEF Client
  <2>6. GoOn(cl) /\ c.step \in HandshakeSteps
    BY <2>1, <2>2 DEF HandshakeSteps, cl
  <2> QED
    BY <2>1, <2>4, <2>5, <2>6, FirstGoesOn
<1>7. CASE DownencOrFragsizeAnswered
  <2>1. c.step \in {"downenc", "fragsize"} /\ UNCHANGED users /\ GoOn(c)
    BY <1>7 DEF DownencOrFragsizeAnswered, InStep
  <2> QED
    BY <1>1, <1>2, <2>1, FirstGoesOn DEF HandshakeSteps
<1>8. CASE LazyAnswered
  <2>1. c.step = "lazy" /\ UNCHANGED users
    BY <1>8 DEF LazyAnswered, InStep
  <2>2. c.step \in HandshakeSteps
    BY <2>1 DEF HandshakeSteps
  <2>3. PICK a \in Answers :
          \/ SaysLazy(a) /\ GoOn([c EXCEPT !.lazymode = TRUE])
          \/ ~ SaysLazy(a) /\ a.text = "BADIP" /\ GoOn(Legacy(c))
          \/ ~ SaysLazy(a) /\ a.text # "BADIP" /\ TryAgain
    BY <1>8 DEF LazyAnswered
  <2>4. SaysLazy(a)
    <3>1. /\ Len(recent) \in 1 .. Len(recent) /\ a \in Last(recent).answers
          /\ QuerySound(Last(recent), users)
      BY AnswerIs DEF FirstStep
    <3>2. Last(recent).kind = "o" /\ Last(recent).arg = "Lazy"
      BY <1>2, <2>1, <2>2 DEF InHandshake, Letter
    <3>3. a.text # "BADIP"
      BY <1>2, <3>1, <3>2 DEF Unrefused, Last
    <3> QED
      BY <3>1, <3>2, <3>3 DEF QuerySound, SaysLazy
  <2> DEFINE cl == [c EXCEPT !.lazymode = TRUE]
  <2>5. /\ cl \in Client /\ cl.step = c.step /\ cl.off = c.off
        /\ cl.sendcnt = c.sendcnt /\ cl.recvcnt = c.recvcnt
    BY <1>1 DEF Client
  <2>6. cl.lazymode
    BY <1>1 DEF Client
  <2>7. GoOn(cl)
    BY <2>3, <2>4
  <2> HIDE DEF cl
  <2> QED
    BY <2>1, <2>2, <2>5, <2>6, <2>7, FirstGoesOn
<1>9. CASE Timeout
  BY <1>3, <1>9 DEF Timeout, InStep
<1>10. CASE TestGoesOn
  <2>1. c.step \in HandshakeSteps /\ UNCHANGED users /\ Send([c EXCEPT !.tries = @ + 1])
    BY <1>10 DEF TestGoesOn, InStep, HandshakeSteps
  <2> QED
    BY <2>1, FirstTriesAgain
<1>11. CASE TestEnds
  <2>1. c.step \in HandshakeSteps /\ UNCHANGED users
    BY <1>11 DEF TestEnds, InStep, HandshakeSteps
  <2>2. CASE \E found \in Codecs : GoOn([c EXCEPT !.upcodec = found])
    <3> PICK found \in Codecs : GoOn([c EXCEPT !.upcodec = found])
      BY <2>2
    <3> DEFINE cl == [c EXCEPT !.upcodec = found]
    <3>1. /\ cl \in Client /\ cl.step = c.step /\ cl.off = c.off
          /\ cl.sendcnt = c.sendcnt /\ cl.recvcnt = c.recvcnt
      BY <1>1 DEF Client
    <3>2. cl.lazymode
      BY <1>1, <1>2 DEF Client
    <3> HIDE DEF cl
    <3> QED
      BY <2>1, <3>1, <3>2, FirstGoesOn DEF cl
  <2>3. CASE \E found \in BOOLEAN : GoOn([c EXCEPT !.downenc = found])
    <3> PICK found \in BOOLEAN : GoOn([c EXCEPT !.downenc = found])
      BY <2>3
    <3> DEFINE cl == [c EXCEPT !.downenc = found]
    <3>1. /\ cl \in Client /\ cl.step = c.step /\ cl.off = c.off
          /\ cl.sendcnt = c.sendcnt /\ cl.recvcnt = c.recvcnt
      BY <1>1 DEF Client
    <3>2. cl.lazymode
      BY <1>1, <1>2 DEF Client
    <3> HIDE DEF cl
    <3> QED
      BY <2>1, <3>1, <3>2, FirstGoesOn DEF cl
  <2>4. CASE GoOn(c)
    BY <1>1, <1>2, <2>1, <2>4, FirstGoesOn
  <2>5. ~ Fail
    BY <1>1, FirstFails
  <2> QED
    BY <1>11, <2>2, <2>3, <2>4, <2>5 DEF TestEnds
<1>12. CASE LazyoffAnswered \/ LazyoffAgain
  BY <1>2, <1>12 DEF LazyoffAnswered, LazyoffAgain, InLazyoff
<1> QED
  BY <1>4, <1>5, <1>6, <1>7, <1>8, <1>9, <1>10, <1>11, <1>12 DEF HandshakeNext


\* The counts tell nothing while at most one query lacks an answer.
LEMMA NeverTooFew ==
  ASSUME NEW sent \in Nat, NEW received \in Nat, sent <= received + 1,
         NoneLimit >= 2, FewLimit >= 2
  PROVE  ~ TooFewAnswers(sent + 1, received)
  BY Numbers DEF TooFewAnswers

LEMMA FirstPing ==
  ASSUME FirstStep, Ping, NoneLimit >= 2, FewLimit >= 2
  PROVE  First(c', users', recent')
<1> DEFINE q == Request(c)
           r == Newest(recent \o << q >>)
           n == c.sendcnt + 1
<1>1. /\ c \in Client /\ recent \in Seq(Query) /\ c.recvcnt \in Nat
  BY DEF FirstStep, IInv, Good, Client
<1>2. /\ c.lazymode /\ c.off = 0 /\ recent # << >> /\ Unrefused(users, recent)
      /\ c.step = "tunnel" /\ Counted(c, recent)
      /\ Send(c) /\ UNCHANGED users
      /\ \A k \in 1 .. Len(recent) - 1 : recent[k].kind = "p" => recent[k].got
  BY DEF FirstStep, First, Ping, InStep
<1>3. Len(recent) \in Nat /\ Len(recent) \in 1 .. Len(recent)
  BY <1>1, <1>2, EmptySeq
<1>4. /\ q \in Query /\ q.answers = {} /\ q.user = c.userid /\ q.kind = "p" /\ q.got = FALSE
  <2>1. Letter(c.step) = "p" /\ Busy(c) /\ ~ (c.off > 0 \/ c.step = "lazy")
    BY <1>2 DEF Letter, Busy
  <2> HIDE DEF q
  <2> QED
    BY <1>1, <2>1, RequestIs DEF q
<1>5. users[c.userid].authenticated
  BY <1>2 DEF FirstStep, IInv, Good, Settled, SlotSound
<1>6. /\ r # << >> /\ Last(r) = q /\ Len(r) \in Nat
      /\ Len(r) > 1 /\ r[Len(r) - 1] = Last(recent)
      /\ \A k \in 1 .. Len(r) - 1 : \E m \in 1 .. Len(recent) : r[k] = recent[m]
      /\ \A k \in 1 .. Len(r) - 2 : \E m \in 1 .. Len(recent) - 1 : r[k] = recent[m]
  <2> HIDE DEF q
  <2>1. /\ r # << >> /\ Last(r) = q /\ Len(r) \in Nat
        /\ recent # << >> => Len(r) > 1
        /\ Len(r) > 1 => r[Len(r) - 1] = recent[Len(recent)]
        /\ \A k \in 1 .. Len(r) - 1 : \E m \in 1 .. Len(recent) : r[k] = recent[m]
        /\ \A k \in 1 .. Len(r) - 2 : \E m \in 1 .. Len(recent) - 1 : r[k] = recent[m]
    BY <1>1, <1>4, OneMore
  <2> HIDE DEF r
  <2> QED
    BY <1>2, <2>1 DEF Last
<1> HIDE DEF q, r
<1>7. Ungot(q) = 1 /\ Ungot(Last(recent)) \in {0, 1}
  BY <1>4 DEF Ungot, Open
<1>8. UngotAtEnd(recent) = Ungot(Last(recent))
  <2>1. Len(recent) > 1 => Ungot(recent[Len(recent) - 1]) = 0
    BY <1>2, <1>3 DEF Ungot, Open
  <2> QED
    BY <1>7, <2>1 DEF UngotAtEnd
<1>9. UngotAtEnd(r) = 1 + Ungot(Last(recent))
  BY <1>6, <1>7 DEF UngotAtEnd
<1>10. c.sendcnt \in 0 .. CountLimit /\ c.sendcnt <= c.recvcnt + Ungot(Last(recent))
  BY <1>2, <1>8 DEF Counted
<1>11. CountQuery(c) = IF Counting(c) THEN [c EXCEPT !.sendcnt = n] ELSE c
  <2>1. ~ TooFewAnswers(n, c.recvcnt)
    BY <1>1, <1>7, <1>10, NeverTooFew
  <2> QED
    BY <2>1 DEF CountQuery
<1>12. /\ c'.off = 0 /\ c'.step = "tunnel" /\ c'.recvcnt = c.recvcnt
       /\ c'.sendcnt = IF Counting(c) THEN n ELSE c.sendcnt
       /\ recent' = r
  <2>1. CountQuery(c).off = c.off
    BY <1>1, <1>11 DEF Client
  <2>2. c' = CountQuery(c) /\ recent' = r
    BY <1>2, <2>1 DEF Send, q, r
  <2> QED
    BY <1>1, <1>2, <1>11, <2>2 DEF Client
<1>13. c'.lazymode
  BY <1>1, <1>2, <1>11 DEF Send, Client
<1>14. Counted(c', r)
  <2>1. c'.sendcnt \in 0 .. CountLimit
    BY <1>10, <1>12, Numbers DEF Counting
  <2>2. c'.sendcnt <= c'.recvcnt + UngotAtEnd(r)
    BY <1>1, <1>7, <1>9, <1>10, <1>12, Numbers
  <2>3. \A k \in 1 .. Len(r) - 2 : ~ Open(r[k])
    <3> TAKE k \in 1 .. Len(r) - 2
    <3>1. PICK m \in 1 .. Len(recent) - 1 : r[k] = recent[m]
      BY <1>6
    <3> QED
      BY <1>2, <3>1 DEF Open
  <2> QED
    BY <2>1, <2>2, <2>3 DEF Counted
<1>15. Unrefused(users, r)
  <2>1. \A k \in 1 .. Len(r) : k \in 1 .. Len(r) - 1 \/ r[k] = q
    BY <1>6 DEF Last
  <2>2. ASSUME NEW k \in 1 .. Len(r), r[k].kind \in {"o", "p"}
        PROVE  users[r[k].user].authenticated /\ \A a \in r[k].answers : a.text # "BADIP"
    <3>1. CASE r[k] = q
      BY <1>4, <1>5, <3>1
    <3>2. CASE k \in 1 .. Len(r) - 1
      <4>1. PICK m \in 1 .. Len(recent) : r[k] = recent[m]
        BY <1>6, <3>2
      <4> QED
        BY <1>2, <2>2, <4>1 DEF Unrefused
    <3> QED
      BY <2>1, <3>1, <3>2
  <2> QED
    BY <2>2 DEF Unrefused
<1> QED
  BY <1>2, <1>6, <1>12, <1>13, <1>14, <1>15 DEF First, HandshakeSteps, TestSteps

LEMMA FirstPingAnswered ==
  ASSUME FirstStep, NEW i \in DOMAIN recent, PingAnswered(i)
  PROVE  First(c', users', recent')
<1> DEFINE new == [recent EXCEPT ![i].got = TRUE]
           more == IF c.recvcnt < CountLimit THEN c.recvcnt + 1 ELSE c.recvcnt
<1>1. /\ c \in Client /\ recent \in Seq(Query) /\ c.recvcnt \in Nat
  BY DEF FirstStep, IInv, Good, Client
<1>2. /\ c.lazymode /\ c.off = 0 /\ recent # << >> /\ Unrefused(users, recent)
      /\ c.step = "tunnel" /\ Counted(c, recent)
  BY DEF FirstStep, First, PingAnswered, InStep
<1>3. /\ recent[i].kind = "p" /\ ~ recent[i].got /\ recent' = new /\ UNCHANGED users
      /\ c' = [c EXCEPT !.recvcnt = more]
  BY DEF PingAnswered, InStep
<1>4. i \in 1 .. Len(recent) /\ Len(recent) \in Nat /\ Len(recent) \in 1 .. Len(recent)
  BY <1>1, <1>2, EmptySeq
<1>5. /\ new \in Seq(Query) /\ Len(new) = Len(recent) /\ new[i].got = TRUE
      /\ \A k \in 1 .. Len(recent) :
           /\ new[k].kind = recent[k].kind /\ new[k].user = recent[k].user
           /\ new[k].answers = recent[k].answers
           /\ k # i => new[k] = recent[k]
  BY <1>1, Counts
<1> HIDE DEF new
<1>6. more \in Nat /\ (more = c.recvcnt + 1 \/ (more = c.recvcnt /\ more >= CountLimit))
  BY <1>1, Numbers
<1> HIDE DEF more
<1>7. /\ c'.off = 0 /\ c'.step = "tunnel" /\ c'.recvcnt = more /\ c'.sendcnt = c.sendcnt
  BY <1>1, <1>2, <1>3, <1>6 DEF Client
<1>8. c'.lazymode
  BY <1>1, <1>2, <1>3 DEF Client
<1>9. new # << >>
  BY <1>4, <1>5, EmptySeq
<1>10. Unrefused(users, new)
  BY <1>2, <1>5 DEF Unrefused
<1>11. /\ Ungot(new[i]) = 0 /\ Ungot(recent[i]) = 1
       /\ \A k \in 1 .. Len(recent) : k # i => Ungot(new[k]) = Ungot(recent[k])
       /\ \A k \in 1 .. Len(recent) : Ungot(new[k]) \in {0, 1} /\ Ungot(recent[k]) \in {0, 1}
  BY <1>3, <1>5 DEF Ungot, Open
<1>12. UngotAtEnd(new) \in Nat /\ UngotAtEnd(recent) <= UngotAtEnd(new) + 1
  <2>1. /\ Ungot(Last(new)) = Ungot(new[Len(recent)])
        /\ Ungot(Last(recent)) = Ungot(recent[Len(recent)])
    BY <1>5 DEF Last
  <2>2. Len(recent) > 1 => Len(recent) - 1 \in 1 .. Len(recent) /\ Len(recent) - 1 # Len(recent)
    BY <1>4
  <2>3. CASE Len(recent) > 1
    <3> DEFINE k == Len(recent) - 1
               m == Len(recent)
    <3>1. k \in 1 .. Len(recent) /\ m \in 1 .. Len(recent) /\ k # m
      BY <1>4, <2>2, <2>3
    <3>2. /\ UngotAtEnd(new) = Ungot(new[m]) + Ungot(new[k])
          /\ UngotAtEnd(recent) = Ungot(recent[m]) + Ungot(recent[k])
      BY <1>5, <2>1, <2>3 DEF UngotAtEnd
    <3> HIDE DEF k, m
    <3>3. /\ Ungot(new[m]) \in {0, 1} /\ Ungot(new[k]) \in {0, 1}
          /\ Ungot(recent[m]) \in {0, 1} /\ Ungot(recent[k]) \in {0, 1}
      BY <1>11, <3>1
    <3>4. Ungot(new[m]) = Ungot(recent[m]) \/ Ungot(new[k]) = Ungot(recent[k])
      BY <1>11, <3>1
    <3> QED
      BY <3>2, <3>3, <3>4
  <2>4. CASE ~ (Len(recent) > 1)
    BY <1>4, <1>5, <1>11, <2>1, <2>4 DEF UngotAtEnd
  <2> QED
    BY <2>3, <2>4
<1>13. Counted(c', new)
  <2>1. c.sendcnt \in 0 .. CountLimit /\ c.sendcnt <= c.recvcnt + UngotAtEnd(recent)
    BY <1>2 DEF Counted
  <2>2. c'.sendcnt <= c'.recvcnt + UngotAtEnd(new)
    <3>1. UngotAtEnd(recent) \in Int
      <4>1. \A q : Ungot(q) \in Int
        BY DEF Ungot
      <4> QED
        BY <4>1 DEF UngotAtEnd
    <3> QED
      BY <1>1, <1>6, <1>7, <1>12, <2>1, <3>1, Numbers
  <2>3. \A k \in 1 .. Len(new) - 2 : ~ Open(new[k])
    BY <1>2, <1>4, <1>5 DEF Counted, Open
  <2> QED
    BY <1>7, <2>1, <2>2, <2>3 DEF Counted
<1> QED
  BY <1>2, <1>3, <1>7, <1>8, <1>9, <1>10, <1>13 DEF First, HandshakeSteps, TestSteps


\* Whoever is logged in stays logged in, and gets the answers that are due.
LEMMA AnswersWell ==
  ASSUME FirstStep, NEW n \in DOMAIN recent,
         \/ HandleVersion(n) \/ Refuse(n) \/ HandleLogin(n) \/ HandleTest(n)
         \/ HandleCodec(n) \/ HandleOption(n) \/ HandleFragsize(n) \/ HandlePing(n)
  PROVE  /\ \E text \in Texts : \E u \in User :
              /\ Reply(n, text, u)
              /\ recent[n].kind \in {"o", "p"} => text # "BADIP"
         /\ UNCHANGED c
         /\ \A v \in User : users[v].active /\ users[v].authenticated => users'[v].authenticated
<1>1. /\ recent[n].user \in User /\ QuerySound(recent[n], users)
      /\ users \in [User -> Slot] /\ 0 \in User
  BY Received DEF FirstStep
<1>2. n \in 1 .. Len(recent)
  BY DEF FirstStep, IInv, Good
<1>3. recent[n].kind \in {"o", "p"} =>
        users[recent[n].user].active /\ users[recent[n].user].authenticated
  BY <1>1, <1>2 DEF QuerySound, Naming, FirstStep, First, Unrefused
<1>4. {"VACK", "VFUL", "BADIP", "Ok"} \subseteq Texts
  BY DEF Texts
<1>5. CASE HandleVersion(n)
  <2>1. recent[n].kind = "v" /\ UNCHANGED c
    BY <1>5 DEF HandleVersion, Arrives
  <2>2. CASE \E u \in User : /\ ~ users[u].active /\ Reply(n, "VACK", u)
                            /\ Set(u, [NoUser EXCEPT !.active = TRUE])
    <3>1. PICK u \in User : /\ ~ users[u].active /\ Reply(n, "VACK", u)
                           /\ Set(u, [NoUser EXCEPT !.active = TRUE])
      BY <2>2
    <3>2. \A v \in User : v # u => users'[v] = users[v]
      BY <1>1, <3>1 DEF Set
    <3> QED
      BY <1>4, <2>1, <3>1, <3>2
  <2>3. CASE Reply(n, "VFUL", 0) /\ UNCHANGED users
    BY <1>1, <1>4, <2>1, <2>3
  <2> QED
    BY <1>5, <2>2, <2>3 DEF HandleVersion, Available
<1>6. CASE Refuse(n)
  <2>1. /\ UNCHANGED << c, users >> /\ Reply(n, "BADIP", 0)
        /\ \/ ~ users[recent[n].user].active
           \/ recent[n].kind # "l" /\ ~ users[recent[n].user].authenticated
    BY <1>6 DEF Refuse, FirstStep
  <2>2. recent[n].kind \notin {"o", "p"}
    BY <1>3, <2>1
  <2> QED
    BY <1>1, <1>4, <2>1, <2>2
<1>7. CASE HandleTest(n) \/ HandlePing(n)
  BY <1>1, <1>4, <1>7 DEF HandleTest, HandlePing, Arrives
<1>8. ASSUME NEW r, Set(recent[n].user, r), r.authenticated
      PROVE  \A v \in User : users[v].active /\ users[v].authenticated => users'[v].authenticated
  <2>1. /\ users'[recent[n].user] = r
        /\ \A v \in User : v # recent[n].user => users'[v] = users[v]
    BY <1>1, <1>8 DEF Set
  <2> QED
    BY <1>8, <2>1
<1>9. users[recent[n].user] \in Slot
  BY <1>1
<1>10. CASE HandleLogin(n)
  <2>1. /\ Set(recent[n].user, [users[recent[n].user] EXCEPT !.authenticated = TRUE])
        /\ Reply(n, "Ok", 0) /\ UNCHANGED c
    BY <1>10 DEF HandleLogin, Arrives
  <2>2. [users[recent[n].user] EXCEPT !.authenticated = TRUE].authenticated
    BY <1>9 DEF Slot
  <2> QED
    BY <1>1, <1>4, <1>8, <2>1, <2>2
<1>11. CASE HandleCodec(n)
  <2> DEFINE r == [users[recent[n].user] EXCEPT !.encoder = recent[n].arg]
  <2>1. /\ Set(recent[n].user, r) /\ recent[n].kind = "s"
        /\ Reply(n, recent[n].arg, 0) /\ UNCHANGED c /\ users[recent[n].user].authenticated
    BY <1>11 DEF HandleCodec, Arrives
  <2>2. r.authenticated
    BY <1>9, <2>1 DEF Slot
  <2> HIDE DEF r
  <2>3. recent[n].arg \in Texts
    BY <1>1, <2>1 DEF QuerySound, Texts, Args
  <2> QED
    BY <1>1, <1>8, <2>1, <2>2, <2>3
<1>12. CASE HandleOption(n)
  <2> DEFINE r == IF recent[n].arg = "Downenc"
                  THEN [users[recent[n].user] EXCEPT !.downenc = TRUE]
                  ELSE [users[recent[n].user] EXCEPT !.lazy = (recent[n].arg = "Lazy")]
  <2>1. /\ Set(recent[n].user, r) /\ recent[n].kind = "o"
        /\ Reply(n, recent[n].arg, 0) /\ UNCHANGED c /\ users[recent[n].user].authenticated
    BY <1>12 DEF HandleOption, Arrives
  <2>2. r.authenticated
    BY <1>9, <2>1 DEF Slot
  <2> HIDE DEF r
  <2>3. recent[n].arg \in {"Lazy", "Immediate", "Downenc"}
    BY <1>1, <2>1 DEF QuerySound
  <2>4. recent[n].arg \in Texts /\ recent[n].arg # "BADIP"
    BY <2>3 DEF Texts, Args
  <2> QED
    BY <1>1, <1>8, <2>1, <2>2, <2>4
<1>13. CASE HandleFragsize(n)
  <2> DEFINE r == [users[recent[n].user] EXCEPT !.fragsize = TRUE]
  <2>1. /\ Set(recent[n].user, r)
        /\ Reply(n, "Ok", 0) /\ UNCHANGED c /\ users[recent[n].user].authenticated
    BY <1>13 DEF HandleFragsize, Arrives
  <2>2. r.authenticated
    BY <1>9, <2>1 DEF Slot
  <2> HIDE DEF r
  <2> QED
    BY <1>1, <1>4, <1>8, <2>1, <2>2
<1> QED
  BY <1>5, <1>6, <1>7, <1>10, <1>11, <1>12, <1>13

LEMMA FirstIodined ==
  ASSUME FirstStep, IodinedNext
  PROVE  First(c', users', recent')
<1>1. PICK n \in DOMAIN recent :
        \/ HandleVersion(n) \/ Refuse(n) \/ HandleLogin(n) \/ HandleTest(n)
        \/ HandleCodec(n) \/ HandleOption(n) \/ HandleFragsize(n) \/ HandlePing(n)
  BY DEF IodinedNext
<1>2. /\ UNCHANGED c
      /\ \A v \in User : users[v].active /\ users[v].authenticated => users'[v].authenticated
  BY <1>1, AnswersWell
<1>3. PICK text \in Texts, u \in User :
        Reply(n, text, u) /\ (recent[n].kind \in {"o", "p"} => text # "BADIP")
  BY <1>1, AnswersWell
<1>4. recent \in Seq(Query) /\ QueriesSound(c, users, recent)
  BY DEF FirstStep, IInv, Good
<1>5. /\ recent' \in Seq(Query) /\ Len(recent') = Len(recent)
      /\ \A k \in 1 .. Len(recent) :
           /\ recent'[k].kind = recent[k].kind /\ recent'[k].user = recent[k].user
           /\ recent'[k].arg = recent[k].arg /\ recent'[k].got = recent[k].got
           /\ k # n => recent'[k] = recent[k]
      /\ recent'[n].answers = recent[n].answers \cup {[text |-> text, user |-> u]}
  BY <1>3, <1>4, Replies
<1>6. /\ c.lazymode /\ c.off = 0 /\ recent # << >> /\ Unrefused(users, recent)
      /\ c.step \in HandshakeSteps => InHandshake(c, recent)
      /\ c.step = "tunnel" => Counted(c, recent)
  BY DEF FirstStep, First
<1>7. recent' # << >> /\ Len(recent) \in 1 .. Len(recent) /\ Len(recent) \in Nat
  BY <1>4, <1>5, <1>6, EmptySeq
<1>8. Unrefused(users', recent')
  <2> SUFFICES ASSUME NEW k \in 1 .. Len(recent), recent[k].kind \in {"o", "p"}
               PROVE  /\ users'[recent[k].user].authenticated
                      /\ \A a \in recent'[k].answers : a.text # "BADIP"
    BY <1>5 DEF Unrefused
  <2>1. recent[k] \in Query /\ recent[k].user \in User
    <3>1. recent[k] \in Query
      BY <1>4, ElementOfSeq
    <3> QED
      BY <3>1 DEF Query
  <2>2. users[recent[k].user].active
    BY <1>4 DEF QueriesSound, QuerySound, Naming
  <2>3. /\ users[recent[k].user].authenticated
        /\ \A a \in recent[k].answers : a.text # "BADIP"
    BY <1>6 DEF Unrefused
  <2>4. \A a \in recent'[k].answers :
          a \in recent[k].answers \/ (k = n /\ a = [text |-> text, user |-> u])
    BY <1>5
  <2> QED
    BY <1>2, <1>3, <2>1, <2>2, <2>3, <2>4
<1>9. c'.step \in HandshakeSteps => InHandshake(c', recent')
  BY <1>2, <1>5, <1>6, <1>7 DEF InHandshake, Last
<1>10. \A k \in 1 .. Len(recent) :
         Ungot(recent'[k]) = Ungot(recent[k]) /\ (Open(recent'[k]) <=> Open(recent[k]))
  BY <1>5 DEF Ungot, Open
<1>11. UngotAtEnd(recent') = UngotAtEnd(recent)
  <2>1. Len(recent) > 1 => Len(recent) - 1 \in 1 .. Len(recent)
    BY <1>7
  <2> QED
    BY <1>5, <1>7, <1>10, <2>1 DEF UngotAtEnd, Last
<1>12. c'.step = "tunnel" => Counted(c', recent')
  BY <1>2, <1>5, <1>6, <1>7, <1>10, <1>11 DEF Counted
<1> QED
  BY <1>2, <1>6, <1>7, <1>8, <1>9, <1>12 DEF First

-----------------------------------------------------------------------------
LEMMA InitFirst == Init => FirstInv
  BY DEF Init, FirstInv

LEMMA FirstConnects ==
  ASSUME IInv, IInv', connection = 0, recent = << >>, c.step = "over", c.off = 0,
         c.sendcnt = -1, c.recvcnt = 0, lazy_mode, Connect
  PROVE  First(c', users', recent')
<1> DEFINE one == 1
           cl  == [c EXCEPT !.step = "version", !.tries = one, !.dataenc = "Base32",
                            !.upcodec = "Base32", !.lazymode = lazy_mode, !.patient = TRUE]
<1>1. c \in Client /\ Send(cl) /\ UNCHANGED users
  BY DEF IInv, Good, Connect
<1>2. one \in Nat
  OBVIOUS
<1> HIDE DEF one
<1>3. /\ cl \in Client /\ cl.step \in HandshakeSteps /\ cl.off = 0
      /\ cl.sendcnt = -1 /\ cl.recvcnt = 0
  BY <1>1, <1>2, CodecAssumption, SwitchAssumption DEF Client, HandshakeSteps
<1>4. cl.lazymode
  BY <1>1 DEF Client
<1> HIDE DEF cl
<1>5. recent \in Seq(Query) /\ Len(recent) = 0
  BY EmptySeq DEF IInv, Good
<1>6. Unrefused(users, recent) /\ \A n \in 1 .. Len(recent) : recent[n].kind # "p"
  BY <1>5 DEF Unrefused
<1> QED
  BY <1>1, <1>3, <1>4, <1>5, <1>6, HandshakeSends

LEMMA StepFirst ==
  ASSUME NoneLimit >= 2, FewLimit >= 2, IInv, IInv', FirstInv, [Next]_vars
  PROVE  FirstInv'
<1>1. c \in Client /\ connection \in Nat
  BY DEF IInv, Good, FirstInv
<1>2. CASE UNCHANGED vars
  <2>1. UNCHANGED << c, users, recent, connection, line >>
    BY <1>2 DEF vars
  <2> QED
    BY <2>1 DEF FirstInv, Loses
<1>3. CASE Connect
  <2>1. connection' = connection + 1 /\ Loses' = Loses
    BY <1>3 DEF Connect, Loses
  <2>2. connection' = 1 /\ lazy_mode => First(c', users', recent')
    BY <1>1, <1>3, <2>1, FirstConnects DEF FirstInv
  <2> QED
    BY <1>1, <2>1, <2>2 DEF FirstInv
<1>4. CASE Stop
  <2>1. c'.step = "over" /\ connection' = connection /\ c.step # "over"
    BY <1>1, <1>4 DEF Stop, Client
  <2>2. ~ Busy(c')
    BY <2>1 DEF Busy, HandshakeSteps, TestSteps
  <2> QED
    BY <1>1, <2>1, <2>2 DEF FirstInv
<1>5. CASE HandshakeNext \/ IodinedNext \/ Ping \/ \E n \in DOMAIN recent : PingAnswered(n)
  <2>1. UNCHANGED << connection, line >> /\ Loses' = Loses
    <3>1. HandshakeNext => UNCHANGED << connection, line >>
      BY DEF HandshakeNext, VersionAnswered, LoginAnswered, CodecAnswered,
         DownencOrFragsizeAnswered, LazyAnswered, Timeout, TestGoesOn, TestEnds,
         LazyoffAnswered, LazyoffAgain, InStep, InLazyoff
    <3>2. IodinedNext => UNCHANGED << connection, line >>
      BY DEF IodinedNext, HandleVersion, Refuse, HandleLogin, HandleTest, HandleCodec,
         HandleOption, HandleFragsize, HandlePing, Arrives
    <3>3. \A n \in DOMAIN recent : PingAnswered(n) => UNCHANGED << connection, line >>
      BY DEF PingAnswered, InStep
    <3>4. Ping => UNCHANGED << connection, line >>
      BY DEF Ping, InStep
    <3> QED
      BY <1>5, <3>1, <3>2, <3>3, <3>4 DEF Loses
  <2>2. connection # 0
    <3>1. ASSUME connection = 0 PROVE FALSE
      <4>1. recent = << >> /\ c.step = "over" /\ c.off = 0
        BY <3>1 DEF FirstInv
      <4>2. ~ HandshakeNext
        BY <4>1 DEF HandshakeNext, VersionAnswered, LoginAnswered, CodecAnswered,
           DownencOrFragsizeAnswered, LazyAnswered, Timeout, TestGoesOn, TestEnds,
           LazyoffAnswered, LazyoffAgain, InStep, InLazyoff, HandshakeSteps, TestSteps
      <4>3. DOMAIN recent = {}
        BY <4>1
      <4> QED
        BY <1>5, <4>1, <4>2, <4>3 DEF IodinedNext, Ping, InStep
    <3> QED
      BY <3>1
  <2>3. ASSUME connection = 1, ~ Loses, lazy_mode, Busy(c') PROVE First(c', users', recent')
    <3>1. Busy(c)
      <4>1. ASSUME ~ Busy(c) PROVE ~ Busy(c')
        <5>1. c.step \in {"over", "failed"}
          BY <1>1, <4>1 DEF Busy, Client
        <5>2. c.off = 0
          BY <1>1, <5>1 DEF IInv, Good, OffSound
        <5>3. ~ HandshakeNext
          BY <5>1, <5>2 DEF HandshakeNext, VersionAnswered, LoginAnswered, CodecAnswered,
             DownencOrFragsizeAnswered, LazyAnswered, Timeout, TestGoesOn, TestEnds,
             LazyoffAnswered, LazyoffAgain, InStep, InLazyoff, HandshakeSteps, TestSteps
        <5>4. IodinedNext => UNCHANGED c
          BY DEF IodinedNext, HandleVersion, Refuse, HandleLogin, HandleTest, HandleCodec,
             HandleOption, HandleFragsize, HandlePing, Arrives
        <5>5. IodinedNext
          BY <1>5, <5>1, <5>3 DEF Ping, PingAnswered, InStep
        <5> QED
          BY <4>1, <5>4, <5>5
      <4> QED
        BY <2>3, <4>1
    <3>2. FirstStep
      BY <2>3, <3>1 DEF FirstStep, FirstInv
    <3> QED
      BY <1>5, <2>3, <3>2, FirstHandshake, FirstIodined, FirstPing, FirstPingAnswered
  <2> QED
    BY <1>1, <2>1, <2>2, <2>3 DEF FirstInv
<1> QED
  BY <1>2, <1>3, <1>4, <1>5 DEF Next

\* A client on a line that answers everything is in lazy mode if the user
\* wants it, in the first connection of the process: there the counts of
\* send_query never tell otherwise.  (Since they outlive a connection they may
\* in a later one, as run handshake_again shows.)
THEOREM FirstIsLazy ==
  ASSUME NoneLimit >= 2, FewLimit >= 2
  PROVE  Spec => [](connection <= 1 => AnsweredMeansLazy)
<1>1. IInv /\ FirstInv => (connection <= 1 => AnsweredMeansLazy)
  <2> SUFFICES ASSUME FirstInv, connection <= 1, InTunnel, ~ Loses, lazy_mode
               PROVE  c.lazymode
    BY DEF AnsweredMeansLazy
  <2>1. connection = 1 /\ Busy(c)
    BY DEF FirstInv, InTunnel, Busy
  <2> QED
    BY <2>1 DEF FirstInv, First
<1>2. IInv /\ IInv' /\ FirstInv /\ [Next]_vars => FirstInv'
  BY StepFirst
<1> QED
  BY <1>1, <1>2, Inductive, InitFirst, PTL DEF Spec
-----------------------------------------------------------------------------
(***************************************************************************)
(* The tests of the relay that come before: what the client settles on is  *)
(* what the relay lets through.  The invariant says, for each search, what *)
(* the tests so far have shown.                                            *)
(***************************************************************************)

\* The types, written out
LEMMA TypesAre ==
  /\ Len(Types) = 7 /\ DOMAIN Types = 1 .. 7 /\ NoneWorks = 8
  /\ \A n \in 1 .. 7 : Types[n] \in Type
  /\ Type \subseteq {"NULL", "PRIVATE"} \cup HostnameTypes \cup {"TXT"}
<1>1. Len(Types) = 7 /\ DOMAIN Types = 1 .. 7
  BY DEF Types
<1>2. \A n \in 1 .. 7 :
        Types[n] \in {"NULL", "PRIVATE"} \cup HostnameTypes \cup {"TXT"}
  BY DEF Types, HostnameTypes
<1> QED
  BY <1>1, <1>2 DEF Type, NoneWorks

Phases == {"qtype", "edns0", "upenc", "downenc", "over", "failed"}

AutoTyped ==
  /\ phase \in Phases /\ relay \in Relay
  /\ timeout \in 1 .. Timeouts /\ qtypenum \in 1 .. 7 /\ highestworking \in 1 .. 8
  /\ pattern \in 1 .. 7 /\ connections \in Nat \ {0}
  /\ phase \notin {"qtype", "failed"} => do_qtype \in Type

\* What was tried in this round failed, and what worked in an earlier one works
Rounds ==
  phase = "qtype" =>
    /\ highestworking # 8 => Works(Types[highestworking])
    /\ ~ relay.loses =>
         \A n \in 1 .. qtypenum - 1 :
           ~ (Testable(Types[n]) /\ relay.wait[Types[n]] <= timeout)

TypeFound ==
  phase # "qtype" /\ AskedType = "UNSET" =>
    /\ phase # "failed" => Works(do_qtype)
    /\ ~ relay.loses =>
         \A n \in 1 .. 7 :
           (phase # "failed" => n < highestworking) =>
             ~ (Works(Types[n]) /\ Testable(Types[n]))

\* As long as it is looked for, the upstream codec is Base32, and the strings
\* of Base128 came through so far.
UpstreamSound ==
  /\ phase \in {"qtype", "edns0", "upenc", "failed"} => upcodec = "Base32"
  /\ phase \in {"qtype", "edns0"} => pattern = 1
  /\ phase = "upenc" /\ pattern \in 2 .. 5 =>
       /\ ~ relay.swaps
       /\ \A n \in 1 .. pattern - 1 : Patterns[n] \in relay.up
  /\ UpcodecWorks

\* What is tried downstream, and the best codec that worked
Passes(tried) == tried \in relay.down /\ ServerHas(tried, do_qtype)

DownstreamSound ==
  connections = 1 =>
    /\ phase # "over" => downenc = " "
    /\ phase \in {"qtype", "edns0", "upenc"} => codec = "S" /\ best = " "
    /\ phase = "downenc" =>
         /\ do_qtype \notin {"NULL", "PRIVATE"}
         /\ \/ codec \in {"S", "U"} /\ best = " "
            \/ codec = "V" /\ best \in {"S", "U"} /\ Passes(best)
            \/ codec = "R" /\ best = "V" /\ Passes(best)

AutoInv ==
  /\ AutoTyped /\ Rounds /\ TypeFound /\ UpstreamSound /\ DownstreamSound
  /\ DowncodecWorks

\* Where every count begins
LEMMA OneIs ==
  /\ 1 \in 1 .. Timeouts /\ 1 \in 1 .. 7 /\ 1 \in Nat \ {0}
  /\ \A n \in 1 .. 1 - 1 : FALSE
  /\ 8 \in 1 .. 8
BY DEF Timeouts

LEMMA Begins ==
  ASSUME phase' = FirstPhase, relay' \in Relay, do_qtype' = AskedType,
         timeout' = 1, qtypenum' = 1, highestworking' = NoneWorks,
         pattern' = 1, upcodec' = "Base32",
         codec' = "S", best' = " ", connections' \in Nat \ {0},
         connections' = 1 => downenc' = " "
  PROVE  AutoInv'
<1>1. phase' \in {"qtype", "edns0"} /\ (phase' = "qtype" <=> AskedType = "UNSET")
  BY DEF FirstPhase
<1>2. AutoTyped'
  <2>1. highestworking' = 8
    BY TypesAre, Zenon
  <2>2. phase' # "qtype" => do_qtype' \in Type
    BY <1>1, TypeAssumption
  <2>3. timeout' \in 1 .. Timeouts /\ qtypenum' \in 1 .. 7 /\ pattern' \in 1 .. 7
    BY OneIs, Zenon
  <2> QED
    <3>1. phase' \in Phases /\ relay' \in Relay /\ connections' \in Nat \ {0}
      BY <1>1 DEF Phases
    <3>2. highestworking' \in 1 .. 8
      BY <2>1, OneIs, Zenon
    <3> QED
      BY <2>2, <2>3, <3>1, <3>2, Zenon DEF AutoTyped
<1>3. Rounds' /\ TypeFound'
  <2>1. highestworking' = 8
    BY TypesAre, Zenon
  <2>2. \A n \in 1 .. qtypenum' - 1 : FALSE
    BY OneIs, Zenon
  <2>4. Rounds'
    BY <2>1, <2>2 DEF Rounds
  <2>3. TypeFound'
    BY <1>1 DEF TypeFound
  <2> QED
    BY <2>3, <2>4
<1>4. UpstreamSound'
  BY <1>1 DEF UpstreamSound, UpcodecWorks
<1>5. DownstreamSound' /\ DowncodecWorks'
  BY <1>1 DEF DownstreamSound, DowncodecWorks
<1> QED
  BY <1>2, <1>3, <1>4, <1>5 DEF AutoInv

LEMMA QtypeTestKeeps ==
  ASSUME AutoInv, QtypeTest
  PROVE  AutoInv'
<1>1. /\ AutoTyped /\ Rounds /\ UpstreamSound /\ DownstreamSound /\ phase = "qtype"
      /\ UNCHANGED << relay, upVars, downVars, connections >>
  BY DEF AutoInv, QtypeTest
<1>2. /\ relay \in Relay /\ timeout \in 1 .. 3 /\ qtypenum \in 1 .. 7
      /\ highestworking \in 1 .. 8
      /\ \A n \in 1 .. 7 : relay.wait[Types[n]] \in 1 .. 4
  <2>1. relay \in Relay /\ relay.wait \in [Type -> 1 .. 4]
    BY <1>1 DEF AutoTyped, Relay, Never, Timeouts
  <2> QED
    BY <1>1, <2>1, TypesAre DEF AutoTyped, Timeouts
\* The end of a round
<1>3. ASSUME NEW h \in 1 .. 8, EndRound(h),
             h # 8 => Works(Types[h]),
             ~ relay.loses => \A n \in 1 .. h - 1 : n <= 7 =>
               ~ (Testable(Types[n]) /\ relay.wait[Types[n]] <= timeout)
      PROVE  AutoTyped' /\ Rounds' /\ TypeFound' /\ phase' \in {"qtype", "edns0", "failed"}
  <2>1. CASE h = 1 \/ timeout = Timeouts
    <3>1. /\ phase' = IF h = 8 THEN "failed" ELSE "edns0"
          /\ do_qtype' = IF h = 8 THEN "UNSET" ELSE Types[h]
          /\ UNCHANGED << timeout, qtypenum >> /\ highestworking' = h
      BY <1>3, <2>1, TypesAre DEF EndRound
    <3>2. AutoTyped'
      BY <1>1, <3>1, TypesAre DEF AutoTyped, Phases, upVars
    <3>3. phase' # "failed" => Works(do_qtype)'
      BY <1>1, <1>3, <3>1 DEF Works
    <3>4. ~ relay'.loses =>
            \A n \in 1 .. 7 : (phase' # "failed" => n < highestworking') =>
              ~ (Works(Types[n])' /\ Testable(Types[n]))
      <4> SUFFICES ASSUME ~ relay.loses, NEW n \in 1 .. 7, phase' # "failed" => n < h,
                          Works(Types[n]), Testable(Types[n])
                   PROVE  FALSE
        BY <1>1, <3>1 DEF Works
      <4>1. n \in 1 .. h - 1
        BY <3>1
      <4>2. timeout = 3
        BY <2>1, <4>1 DEF Timeouts
      <4> QED
        BY <1>3, <4>1, <4>2 DEF Works, Timeouts
    <3>5. TypeFound'
      BY <3>3, <3>4 DEF TypeFound, Testable
    <3> QED
      BY <3>1, <3>2, <3>5 DEF Rounds
  <2>2. CASE ~ (h = 1 \/ timeout = Timeouts)
    <3>1. /\ UNCHANGED << phase, do_qtype >> /\ highestworking' = h
          /\ timeout' = timeout + 1 /\ qtypenum' = 1
      BY <1>3, <2>2 DEF EndRound
    <3>2. AutoTyped'
      BY <1>1, <1>2, <2>2, <3>1 DEF AutoTyped, Timeouts, upVars
    <3>3. highestworking' # 8 => Works(Types[highestworking])'
      BY <1>1, <1>3, <3>1 DEF Works
    <3> QED
      BY <1>1, <3>1, <3>2, <3>3 DEF Rounds, TypeFound
  <2> QED
    BY <2>1, <2>2
<1>4. AutoTyped' /\ Rounds' /\ TypeFound' /\ phase' \in {"qtype", "edns0", "failed"}
  <2>1. CASE /\ Testable(Types[qtypenum])
             /\ relay.wait[Types[qtypenum]] <= timeout
             /\ EndRound(qtypenum)
    <3>1. Works(Types[qtypenum])
      BY <1>2, <2>1 DEF Works, Timeouts
    <3>2. ~ relay.loses => \A n \in 1 .. qtypenum - 1 : n <= 7 =>
             ~ (Testable(Types[n]) /\ relay.wait[Types[n]] <= timeout)
      BY <1>1 DEF Rounds
    <3> QED
      BY <1>2, <1>3, <2>1, <3>1, <3>2
  <2>2. CASE /\ \/ ~ (/\ Testable(Types[qtypenum])
                      /\ relay.wait[Types[qtypenum]] <= timeout)
                \/ relay.loses
             /\ IF StillInteresting(qtypenum + 1)
                THEN qtypenum' = qtypenum + 1
                     /\ UNCHANGED << phase, do_qtype, timeout, highestworking >>
                ELSE EndRound(highestworking)
    <3>1. ~ relay.loses => \A n \in 1 .. qtypenum :
             ~ (Testable(Types[n]) /\ relay.wait[Types[n]] <= timeout)
      <4>1. \A n \in 1 .. qtypenum : n \in 1 .. qtypenum - 1 \/ n = qtypenum
        BY <1>2
      <4> QED
        BY <1>1, <2>2, <4>1 DEF Rounds
    <3>2. CASE StillInteresting(qtypenum + 1)
      <4>1. qtypenum' = qtypenum + 1 /\ UNCHANGED << phase, do_qtype, timeout, highestworking >>
        BY <2>2, <3>2
      <4>2. qtypenum + 1 \in 1 .. 7 /\ qtypenum' - 1 = qtypenum
        BY <1>2, <3>2, <4>1 DEF StillInteresting
      <4>3. AutoTyped'
        BY <1>1, <4>1, <4>2 DEF AutoTyped, upVars
      <4>4. highestworking' # 8 => Works(Types[highestworking])'
        BY <1>1, <4>1 DEF Works, Rounds
      <4>5. Rounds'
        BY <1>1, <3>1, <4>1, <4>2, <4>4 DEF Rounds, Testable
      <4> QED
        BY <1>1, <4>1, <4>3, <4>5 DEF TypeFound
    <3>3. CASE ~ StillInteresting(qtypenum + 1)
      <4>1. \A n \in 1 .. highestworking - 1 : n <= 7 => n \in 1 .. qtypenum
        BY <1>2, <3>3 DEF StillInteresting
      <4>2. highestworking # 8 => Works(Types[highestworking])
        BY <1>1 DEF Rounds
      <4> QED
        BY <1>2, <1>3, <2>2, <3>1, <3>3, <4>1, <4>2
    <3> QED
      BY <3>2, <3>3
  <2> QED
    BY <2>1, <2>2 DEF QtypeTest, Outcome
<1>5. UpstreamSound'
  BY <1>1, <1>4 DEF UpstreamSound, UpcodecWorks, upVars
<1>6. DownstreamSound' /\ DowncodecWorks'
  BY <1>1, <1>4 DEF DownstreamSound, DowncodecWorks, downVars
<1> QED
  BY <1>4, <1>5, <1>6 DEF AutoInv

\* The type is found and stays.
LEMMA TypeStays ==
  ASSUME AutoInv, phase \notin {"qtype", "failed"}, phase' \notin {"qtype", "failed"},
         UNCHANGED << relay, qtypeVars >>
  PROVE  Rounds' /\ TypeFound'
<1>1. AskedType = "UNSET" => Works(do_qtype)'
  BY DEF AutoInv, TypeFound, Works, qtypeVars
<1>2. AskedType = "UNSET" /\ ~ relay'.loses =>
        \A n \in 1 .. 7 :
          n < highestworking' =>
            ~ (Works(Types[n])' /\ Testable(Types[n]))
  BY DEF AutoInv, TypeFound, Works, qtypeVars
<1> QED
  BY <1>1, <1>2 DEF Rounds, TypeFound, Testable

LEMMA Edns0CheckKeeps ==
  ASSUME AutoInv, Edns0Check
  PROVE  AutoInv'
<1>1. /\ phase = "edns0" /\ phase' = "upenc"
      /\ UNCHANGED << relay, qtypeVars, upVars, downVars, connections >>
  BY DEF Edns0Check
<1>2. Rounds' /\ TypeFound'
  BY <1>1, TypeStays
<1>3. AutoTyped'
  BY <1>1 DEF AutoInv, AutoTyped, Phases, qtypeVars, upVars
<1>4. UpstreamSound'
  BY <1>1 DEF AutoInv, UpstreamSound, UpcodecWorks, upVars
<1>5. DownstreamSound' /\ DowncodecWorks'
  BY <1>1 DEF AutoInv, DownstreamSound, DowncodecWorks, downVars
<1> QED
  BY <1>2, <1>3, <1>4, <1>5 DEF AutoInv

LEMMA UpencTestKeeps ==
  ASSUME AutoInv, UpencTest
  PROVE  AutoInv'
<1>1. /\ AutoTyped /\ UpstreamSound /\ DownstreamSound /\ phase = "upenc"
      /\ UNCHANGED << relay, qtypeVars, downVars, connections >>
      /\ pattern \in 1 .. 7 /\ upcodec = "Base32"
  BY DEF AutoInv, AutoTyped, UpstreamSound, UpencTest
<1>2. ASSUME NEW found, EndUpenc(found),
             found # "Base32" => ~ relay.swaps /\ Needs(found) \subseteq relay.up
      PROVE  AutoInv'
  <2>1. /\ upcodec' = found /\ UNCHANGED pattern
        /\ phase' \in {"over", "downenc"}
        /\ phase' = "over" => downenc # " " \/ do_qtype \in {"NULL", "PRIVATE"}
        /\ phase' = "downenc" => do_qtype \notin {"NULL", "PRIVATE"}
    BY <1>2 DEF EndUpenc
  <2>2. Rounds' /\ TypeFound'
    BY <1>1, <2>1, TypeStays
  <2>3. AutoTyped'
    BY <1>1, <2>1 DEF AutoTyped, Phases, qtypeVars
  <2>4. UpstreamSound'
    BY <1>1, <1>2, <2>1 DEF UpstreamSound, UpcodecWorks, Needs
  <2>5. DownstreamSound' /\ DowncodecWorks'
    BY <1>1, <2>1 DEF DownstreamSound, DowncodecWorks, downVars, qtypeVars
  <2> QED
    BY <2>2, <2>3, <2>4, <2>5 DEF AutoInv
<1>3. ASSUME NEW n \in 1 .. 7, TryPattern(n),
             n \in 2 .. 5 =>
               ~ relay.swaps /\ \A m \in 1 .. n - 1 : Patterns[m] \in relay.up
      PROVE  AutoInv'
  <2>1. pattern' = n /\ UNCHANGED << phase, upcodec >>
    BY <1>3 DEF TryPattern
  <2>2. Rounds' /\ TypeFound'
    BY <1>1, <2>1, TypeStays
  <2>3. AutoTyped'
    BY <1>1, <2>1 DEF AutoTyped, qtypeVars
  <2>4. UpstreamSound'
    BY <1>1, <1>3, <2>1 DEF UpstreamSound, UpcodecWorks
  <2>5. DownstreamSound' /\ DowncodecWorks'
    BY <1>1, <2>1 DEF DownstreamSound, DowncodecWorks, downVars
  <2> QED
    BY <2>2, <2>3, <2>4, <2>5 DEF AutoInv
<1>4. CASE relay.swaps /\ EndUpenc("Base32")
  BY <1>2, <1>4
<1>5. CASE Patterns[pattern] \in relay.up /\ ~ relay.swaps /\ PatternWorks
  <2>1. \A m \in 1 .. pattern : pattern <= 5 => Patterns[m] \in relay.up
    <3>1. \A m \in 1 .. pattern : m \in 1 .. pattern - 1 \/ m = pattern
      BY <1>1
    <3> QED
      BY <1>1, <1>5, <3>1 DEF UpstreamSound
  <2>2. CASE pattern = 5
    <3>1. Patterns[3] = "128c" /\ Patterns[4] = "128d" /\ Patterns[5] = "128e"
      BY DEF Patterns
    <3>2. Needs("Base128") \subseteq relay.up
      BY <2>1, <2>2, <3>1 DEF Needs
    <3>3. EndUpenc("Base128")
      BY <1>5, <2>2 DEF PatternWorks, LastOf128
    <3> QED
      BY <1>2, <1>5, <3>2, <3>3
  <2>3. CASE pattern < 5
    <3>1. TryPattern(pattern + 1) /\ pattern + 1 \in 1 .. 7 /\ pattern + 1 - 1 = pattern
      BY <1>1, <1>5, <2>3 DEF PatternWorks, LastOf128
    <3> DEFINE n == pattern + 1
    <3>2. \A m \in 1 .. n - 1 : Patterns[m] \in relay.up
      BY <1>1, <2>1, <2>3
    <3> HIDE DEF n
    <3>3. n \in 1 .. 7 /\ TryPattern(n)
      BY <3>1 DEF n
    <3> QED
      BY <1>3, <1>5, <3>2, <3>3
  <2>4. CASE pattern = 6
    <3>1. Patterns[pattern] = "64"
      BY <2>4 DEF Patterns
    <3>2. Needs("Base64") \subseteq relay.up /\ EndUpenc("Base64")
      BY <1>5, <2>4, <3>1 DEF Needs, PatternWorks, LastOf128
    <3> QED
      BY <1>2, <1>5, <3>2
  <2>5. CASE pattern = 7
    <3>1. Patterns[pattern] = "64u"
      BY <2>5 DEF Patterns
    <3>2. Needs("Base64u") \subseteq relay.up /\ EndUpenc("Base64u")
      BY <1>5, <2>5, <3>1 DEF Needs, PatternWorks, LastOf128
    <3> QED
      BY <1>2, <1>5, <3>2
  <2> QED
    BY <1>1, <2>2, <2>3, <2>4, <2>5
<1>6. CASE PatternFails
  <2>1. \/ TryPattern(6) \/ TryPattern(7) \/ EndUpenc("Base32")
    BY <1>6 DEF PatternFails
  <2> QED
    BY <1>2, <1>3, <2>1
<1> QED
  BY <1>4, <1>5, <1>6 DEF UpencTest, Outcome

LEMMA DownencTestKeeps ==
  ASSUME AutoInv, DownencTest
  PROVE  AutoInv'
<1>1. /\ AutoTyped /\ UpstreamSound /\ DownstreamSound /\ phase = "downenc"
      /\ UNCHANGED << relay, qtypeVars, upVars, connections >>
      /\ do_qtype \in Type /\ do_qtype' = do_qtype
  BY DEF AutoInv, AutoTyped, DownencTest, qtypeVars
<1>2. \/ phase' = "over" /\ UNCHANGED << codec, best >>
      \/ UNCHANGED << phase, downenc >>
  BY DEF DownencTest, Outcome, CodecWorks, CodecFails,
         EndDownenc, TryCodec
<1>3. Rounds' /\ TypeFound'
  BY <1>1, <1>2, TypeStays
<1>4. AutoTyped'
  BY <1>1, <1>2 DEF AutoTyped, Phases, qtypeVars, upVars
<1>5. UpstreamSound'
  BY <1>1, <1>2 DEF UpstreamSound, UpcodecWorks, upVars
<1>6. ASSUME connections = 1 PROVE DownstreamSound' /\ DowncodecWorks'
  <2>1. /\ downenc = " " /\ do_qtype \notin {"NULL", "PRIVATE"}
        /\ \/ codec \in {"S", "U"} /\ best = " "
           \/ codec = "V" /\ best \in {"S", "U"} /\ Passes(best)
           \/ codec = "R" /\ best = "V" /\ Passes(best)
    BY <1>1, <1>6 DEF DownstreamSound
  <2>2. \A k \in {"S", "U", "V"} : ServerHas(k, do_qtype)
    BY <1>1, <2>1, TypesAre DEF ServerHas
  <2>3. \A k : (Passes(k))' <=> Passes(k)
    BY <1>1 DEF Passes, ServerHas
  <2>4. ASSUME NEW k, NEW b, TryCodec(k, b),
               \/ k \in {"S", "U"} /\ b = " "
               \/ k = "V" /\ b \in {"S", "U"} /\ Passes(b)
               \/ k = "R" /\ b = "V" /\ Passes(b)
        PROVE  DownstreamSound' /\ DowncodecWorks'
    BY <1>1, <2>1, <2>3, <2>4 DEF TryCodec, DownstreamSound, DowncodecWorks
  <2>5. ASSUME NEW k, EndDownenc(k),
               k # " " => Passes(k),
               ~ relay.loses /\ k \in {"S", "U"} => "V" \notin relay.down
        PROVE  DownstreamSound' /\ DowncodecWorks'
    <3>1. downenc' = k /\ phase' = "over"
      BY <2>5 DEF EndDownenc
    <3> QED
      BY <1>1, <2>5, <3>1 DEF DownstreamSound, DowncodecWorks, Passes, ServerHas
  <2>6. CASE ServerHas(codec, do_qtype) /\ codec \in relay.down /\ CodecWorks
    <3>1. CASE codec \in {"S", "U"}
      BY <2>4, <2>6, <3>1 DEF CodecWorks, Passes
    <3>2. CASE codec = "V" /\ TriesRaw
      <4>1. TryCodec("R", "V")
        BY <2>6, <3>2 DEF CodecWorks
      <4> QED
        BY <2>4, <2>6, <3>2, <4>1 DEF Passes
    <3>3. CASE codec \notin {"S", "U"} /\ ~ (codec = "V" /\ TriesRaw)
      <4>1. EndDownenc(codec)
        BY <2>6, <3>3 DEF CodecWorks
      <4> QED
        BY <2>5, <2>6, <3>3, <4>1 DEF Passes
    <3> QED
      BY <3>1, <3>2, <3>3
  <2>7. CASE /\ ~ (ServerHas(codec, do_qtype) /\ codec \in relay.down) \/ relay.loses
             /\ CodecFails
    <3>1. CASE codec = "S"
      BY <2>4, <2>7, <3>1 DEF CodecFails
    <3>2. CASE codec # "S"
      <4>1. EndDownenc(best)
        BY <2>7, <3>2 DEF CodecFails
      <4>2. best # " " => Passes(best)
        BY <2>1
      <4>3. ~ relay.loses /\ best \in {"S", "U"} => "V" \notin relay.down
        BY <2>1, <2>2, <2>7
      <4> QED
        BY <2>5, <4>1, <4>2, <4>3
    <3> QED
      BY <3>1, <3>2
  <2> QED
    BY <2>6, <2>7 DEF DownencTest, Outcome
<1>7. connections # 1 => DownstreamSound' /\ DowncodecWorks'
  BY <1>1 DEF DownstreamSound, DowncodecWorks
<1> QED
  BY <1>3, <1>4, <1>5, <1>6, <1>7 DEF AutoInv

LEMMA ConnectAgainKeeps ==
  ASSUME AutoInv, ConnectAgain
  PROVE  AutoInv'
<1>1. connections' \in Nat \ {0} /\ connections' # 1
  <2>1. connections \in Nat \ {0} /\ connections' = connections + 1
    BY DEF AutoInv, AutoTyped, ConnectAgain
  <2> QED
    BY <2>1
<1>2. relay' \in Relay
  BY RelayAssumption DEF ConnectAgain
<1> QED
  BY <1>1, <1>2, Begins DEF ConnectAgain, ResetUp

LEMMA AutoInductive == SearchSpec => []AutoInv
<1>1. SearchInit => AutoInv
  <2> SUFFICES ASSUME SearchInit PROVE AutoInv
    OBVIOUS
  <2>1. phase \in {"qtype", "edns0"} /\ (phase = "qtype" <=> AskedType = "UNSET")
    BY DEF SearchInit, FirstPhase
  <2>2. AutoTyped
    <3>1. highestworking = 8 /\ relay \in Relay
      BY TypesAre, RelayAssumption DEF SearchInit
    <3>2. phase # "qtype" => do_qtype \in Type
      BY <2>1, TypeAssumption DEF SearchInit
    <3>3. /\ timeout \in 1 .. Timeouts /\ qtypenum \in 1 .. 7 /\ pattern \in 1 .. 7
          /\ connections \in Nat \ {0}
      BY OneIs DEF SearchInit
    <3> QED
      BY <2>1, <3>1, <3>2, <3>3 DEF AutoTyped, Phases
  <2>3. Rounds
    <3>1. highestworking = 8
      BY TypesAre DEF SearchInit
    <3>3. \A n \in 1 .. qtypenum - 1 : FALSE
      BY OneIs DEF SearchInit
    <3> QED
      BY <3>1, <3>3 DEF Rounds
  <2>4. TypeFound
    BY <2>1 DEF TypeFound
  <2>5. UpstreamSound
    BY <2>1 DEF SearchInit, UpstreamSound, UpcodecWorks
  <2>6. DownstreamSound /\ DowncodecWorks
    BY <2>1 DEF SearchInit, DownstreamSound, DowncodecWorks
  <2> QED
    BY <2>2, <2>3, <2>4, <2>5, <2>6 DEF AutoInv
<1>2. AutoInv /\ [SearchNext]_(searchVars) => AutoInv'
  <2> SUFFICES ASSUME AutoInv, [SearchNext]_(searchVars) PROVE AutoInv'
    OBVIOUS
  <2>1. CASE ConnectAgain
    BY <2>1, ConnectAgainKeeps
  <2>2. CASE QtypeTest \/ Edns0Check \/ UpencTest \/ DownencTest
    BY <2>2, QtypeTestKeeps, Edns0CheckKeeps, UpencTestKeeps, DownencTestKeeps
  <2>3. CASE UNCHANGED searchVars
    <3>1. /\ phase' = phase /\ relay' = relay /\ do_qtype' = do_qtype /\ timeout' = timeout
          /\ qtypenum' = qtypenum /\ highestworking' = highestworking
          /\ pattern' = pattern /\ upcodec' = upcodec /\ codec' = codec /\ best' = best
          /\ downenc' = downenc /\ connections' = connections
      BY <2>3 DEF searchVars, qtypeVars, upVars, downVars
    <3>2. AutoTyped'
      BY <3>1 DEF AutoInv, AutoTyped
    <3>3. \A t : Works(t)' <=> Works(t)
      BY <3>1 DEF Works
    <3>4. Rounds' /\ TypeFound'
      BY <3>1, <3>3 DEF AutoInv, Rounds, TypeFound
    <3>5. UpstreamSound'
      BY <3>1 DEF AutoInv, UpstreamSound, UpcodecWorks
    <3>6. DownstreamSound' /\ DowncodecWorks'
      BY <3>1 DEF AutoInv, DownstreamSound, DowncodecWorks, Passes
    <3> QED
      BY <3>2, <3>4, <3>5, <3>6 DEF AutoInv
  <2> QED
    BY <2>1, <2>2, <2>3 DEF SearchNext
<1> QED
  BY <1>1, <1>2, PTL DEF SearchSpec

\* The type found is one that works, and on a relay that loses nothing the
\* best of those (handshake_qtype_autodetect), whatever the relay is like.
THEOREM TypeIsBest == SearchSpec => []BestTypeIsFound
<1>1. AutoInv => BestTypeIsFound
  BY TypesAre DEF AutoInv, TypeFound, BestTypeIsFound, Searched
<1> QED
  BY <1>1, AutoInductive, PTL

\* The codecs settled for pass the relay, whichever characters it changes
\* (handshake_upenc_autodetect, handshake_downenc_autodetect).
THEOREM CodecsDoWork == SearchSpec => []CodecsWork
<1>1. AutoInv => CodecsWork
  BY DEF AutoInv, UpstreamSound, CodecsWork
<1> QED
  BY <1>1, AutoInductive, PTL

-----------------------------------------------------------------------------
(***************************************************************************)
(* The probes for the size of a fragment.  Wherever the relay draws the    *)
(* line, the proposed size stays in the middle between the largest that    *)
(* worked and the smallest that did not.                                   *)
(***************************************************************************)

\* The ranges that are halved without a remainder, and so keep the proposed
\* size in the middle between what works and what does not
Wide == {768, 384, 192, 96, 48, 24, 12, 6, 3}

ProbeTyped ==
  /\ carries \in Nat
  /\ stage \in {"probing", "set", "tunnel", "failed"}
  /\ proposed \in Int /\ range \in Int /\ max \in Int /\ least \in Int
  /\ fragsize \in Nat
  /\ missed \in BOOLEAN

\* While it probes: where the next size lies between the two
Middle ==
  stage = "probing" =>
    /\ 0 <= max /\ least <= 1536
    /\ \/ range \in Wide /\ proposed = max + range /\ least = proposed + range
       \/ range = 1 /\ least = max + 3 /\ proposed \in {max + 1, max + 2}

\* Afterwards: how close they are
Gap ==
  Found =>
    /\ 2 < max /\ max < least /\ least <= max + 12
    /\ max < EnoughBytes => least <= max + 2

\* What works is carried, and what was given up is not, unless it was missed
Sound ==
  /\ stage # "failed" => max = 0 \/ max <= carries
  /\ ~ missed => least = 2 * FirstSize \/ carries < least

ProbeInv == ProbeTyped /\ Middle /\ Gap /\ Sound /\ FragmentsFit

USE DEF FirstSize, SmallRange, EnoughBytes, DefaultSize, Header

\* After a size that works, and after one that does not, the next size is in
\* the middle again, or the two are close.
LEMMA NextSizeKeepsMiddle ==
  ASSUME ProbeInv, stage = "probing",
         NEW m \in {max, proposed}, NextSize(m),
         m = proposed => least' = least,
         m = max => least' = proposed
  PROVE  /\ Middle' /\ Gap'
         /\ proposed' \in Int /\ range' \in Int /\ max' \in Int /\ least' \in Int
         /\ max' = m
         /\ stage' \in {"probing", "set", "tunnel", "failed"}
<1>1. /\ proposed \in Int /\ range \in Int /\ max \in Int /\ least \in Int
      /\ 0 <= max /\ least <= 1536 /\ max < proposed /\ proposed < least
  BY DEF ProbeInv, ProbeTyped, Middle, Wide
<1>2. /\ max' = m /\ range' = range \div 2
      /\ proposed' = IF m = proposed THEN proposed + range' ELSE proposed - range'
      /\ stage' = IF range' > 0 /\ (range' >= 8 \/ m < 300) THEN "probing"
                  ELSE IF m > 2 THEN "set" ELSE "failed"
  BY DEF NextSize, Half, Continues, Usable
<1>3. CASE range \in Wide /\ proposed = max + range /\ least = proposed + range
  <2>1. \/ range' \in Wide /\ range = 2 * range'
        \/ range = 3 /\ range' = 1
    BY <1>2, <1>3 DEF Wide
  <2>2. range' = 6 => least' <= m + 12
    BY <1>1, <1>2, <1>3, <2>1 DEF Wide
  <2>3. CASE range' \in Wide /\ range = 2 * range'
    <3>1. proposed' = m + range' /\ least' = proposed' + range'
      BY <1>1, <1>2, <1>3, <2>3 DEF Wide
    <3>2. stage' # "probing" => range' \in {6, 3} /\ m >= 300
      BY <1>1, <1>2, <2>3 DEF Wide
    <3> QED
      BY <1>1, <1>2, <1>3, <2>3, <3>1, <3>2 DEF Middle, Gap, Found, Wide
  <2>4. CASE range = 3 /\ range' = 1
    <3>1. least' = m + 3 /\ proposed' \in {m + 1, m + 2}
      BY <1>1, <1>2, <1>3, <2>4
    <3> QED
      BY <1>1, <1>2, <1>3, <2>4, <3>1 DEF Middle, Gap, Found, Wide
  <2> QED
    BY <2>1, <2>3, <2>4
<1>4. CASE range = 1 /\ least = max + 3 /\ proposed \in {max + 1, max + 2}
  <2>1. range' = 0
    BY <1>2, <1>4
  <2>2. least' <= m + 2 /\ m < least'
    BY <1>1, <1>2, <1>4
  <2> QED
    BY <1>1, <1>2, <1>4, <2>1, <2>2 DEF Middle, Gap, Found
<1> QED
  BY <1>3, <1>4 DEF ProbeInv, Middle

LEMMA InitProbeInv ==
  ASSUME ProbeInit
  PROVE  ProbeInv
<1>1. ProbeTyped
  <2>1. missed \in BOOLEAN /\ carries \in Nat
    BY ProbeAssumption DEF ProbeInit
  <2> QED
    BY <2>1 DEF ProbeInit, ProbeTyped
<1>2. Middle
  BY DEF ProbeInit, Middle, Wide
<1>3. Gap /\ Sound /\ FragmentsFit
  BY DEF ProbeInit, Gap, Found, Sound, FragmentsFit
<1> QED
  BY <1>1, <1>2, <1>3 DEF ProbeInv

LEMMA StepProbeInv ==
  ASSUME ProbeInv, [ProbeNext]_(probeVars)
  PROVE  ProbeInv'
<1>t. /\ proposed \in Int /\ range \in Int /\ max \in Int /\ least \in Int
      /\ carries \in Nat /\ fragsize \in Nat /\ missed \in BOOLEAN
      /\ stage = "probing" => 0 <= max /\ max < proposed
  BY DEF ProbeInv, ProbeTyped, Middle, Wide
<1>1. CASE ProbeRight
  <2>1. Middle' /\ Gap' /\ ProbeTyped' /\ max' = proposed
    BY <1>1, <1>t, NextSizeKeepsMiddle DEF ProbeRight, ProbeTyped
  <2>2. Sound'
    BY <1>1, <1>t, <2>1 DEF ProbeRight, IsRight, Sound, ProbeInv
  <2> QED
    BY <1>1, <2>1, <2>2 DEF ProbeInv, ProbeRight, FragmentsFit
<1>2. CASE ProbeWrong
  <2>1. Middle' /\ Gap' /\ ProbeTyped' /\ max' = max
    BY <1>2, <1>t, NextSizeKeepsMiddle DEF ProbeWrong, ProbeTyped
  <2>2. Sound'
    BY <1>2, <1>t, <2>1 DEF ProbeWrong, Sound, ProbeInv
  <2> QED
    BY <1>2, <2>1, <2>2 DEF ProbeInv, ProbeWrong, FragmentsFit
<1>3. CASE ProbeHopeless
  BY <1>3, <1>t
  DEF ProbeHopeless, ProbeInv, ProbeTyped, Middle, Gap, Found, Sound,
      FragmentsFit
<1>4. CASE ProbeLost
  <2>1. CASE asked < ProbeTries /\ UNCHANGED << stage, proposed, range, max, least, missed >>
    BY <1>4, <2>1
    DEF ProbeLost, ProbeInv, ProbeTyped, Middle, Gap, Found, Sound,
        FragmentsFit
  <2>2. CASE /\ NextSize(max) /\ least' = proposed
             /\ missed' = (missed \/ proposed <= carries)
    <3>0. stage = "probing" /\ carries' = carries /\ fragsize' = fragsize
      BY <1>4 DEF ProbeLost
    <3>1. Middle' /\ Gap' /\ ProbeTyped' /\ max' = max
      <4>1. missed' \in BOOLEAN
        BY <2>2
      <4> QED
        BY <1>t, <2>2, <3>0, <4>1, NextSizeKeepsMiddle DEF ProbeTyped
    <3>2. Sound'
      <4>1. ~ missed' => ~ (proposed <= carries)
        BY <2>2
      <4>2. ~ missed' => carries' < least'
        BY <1>t, <2>2, <3>0, <4>1
      <4> QED
        BY <3>0, <3>1, <4>2 DEF Sound, ProbeInv
    <3>3. FragmentsFit'
      BY <3>0 DEF ProbeInv, FragmentsFit
    <3> QED
      BY <3>1, <3>2, <3>3 DEF ProbeInv
  <2> QED
    BY <1>4, <2>1, <2>2 DEF ProbeLost
<1>5. CASE SetFragsize
  <2>1. 2 < max /\ max <= carries
    BY <1>5, <1>t DEF SetFragsize, ProbeInv, Gap, Found, Sound
  <2>2. ProbeTyped' /\ FragmentsFit'
    BY <1>5, <1>t, <2>1
    DEF SetFragsize, RequestedSize, ProbeInv, ProbeTyped, FragmentsFit,
        probe
  <2> QED
    BY <1>5, <2>2 DEF SetFragsize, probe, ProbeInv, Middle, Gap, Found, Sound
<1>6. CASE SetDone
  BY <1>6
  DEF SetDone, probe, ProbeInv, ProbeTyped, Middle, Gap, Found, Sound,
      FragmentsFit
<1>7. CASE UNCHANGED probeVars
  BY <1>7
  DEF probeVars, probe, ProbeInv, ProbeTyped, Middle, Gap, Found, Sound,
      FragmentsFit
<1> QED
  BY <1>1, <1>2, <1>3, <1>4, <1>5, <1>6, <1>7 DEF ProbeNext, Probing

LEMMA ProbeInductive == ProbeSpec => []ProbeInv
<1>1. ProbeInit => ProbeInv
  BY InitProbeInv
<1>2. ProbeInv /\ [ProbeNext]_(probeVars) => ProbeInv'
  BY StepProbeInv
<1> QED
  BY <1>1, <1>2, PTL DEF ProbeSpec

\* No probe is wasted, and none is too large for its field.
THEOREM ProbesTell == ProbeSpec => []EveryProbeTells
<1>1. ProbeInv => EveryProbeTells
  BY DEF ProbeInv, ProbeTyped, Middle, EveryProbeTells, Wide
<1> QED
  BY <1>1, ProbeInductive, PTL

\* The result is as close to what the relay carries as the ranges allow, for
\* relays of any capacity.
THEOREM ResultClose == ProbeSpec => []ResultIsClose
<1>1. ProbeInv => ResultIsClose
  BY DEF ProbeInv, ProbeTyped, Gap, Sound, ResultIsClose, Found
<1> QED
  BY <1>1, ProbeInductive, PTL

\* The fragments of iodined fit the relay.
THEOREM FragmentsDoFit == ProbeSpec => []FragmentsFit
<1>1. ProbeInv => FragmentsFit
  BY DEF ProbeInv
<1> QED
  BY <1>1, ProbeInductive, PTL
=============================================================================
