--------------------------- MODULE FwQueryProofs ----------------------------
(***************************************************************************)
(* Proofs about FwQuery, for every size of the ring and every set of ids.  *)
(***************************************************************************)
EXTENDS FwQuery, SequenceTheorems, TLAPS

\* The slot of query n, counted back from the slot written next: it holds
\* without division, which keeps the proof in linear arithmetic.
SlotOf(n) ==
  LET back == fwq_ix - (Len(forwarded) + 1 - n)
  IN  IF back >= 0 THEN back ELSE back + Size

\* As long as the ring has not wrapped, the slots from fwq_ix on are empty.
Unused ==
  Len(forwarded) < Size =>
    /\ fwq_ix = Len(forwarded)
    /\ \A i \in Slots : i >= fwq_ix => fwq[i] = EmptyEntry

\* The last Size queries are in their slots.
Kept ==
  \A n \in DOMAIN forwarded : Remembered(n) => fwq[SlotOf(n)] = forwarded[n]

\* Every slot is empty or holds one of the last Size queries.
Holds(i, n) == Remembered(n) /\ SlotOf(n) = i /\ fwq[i] = forwarded[n]

Genuine ==
  \A i \in Slots :
    fwq[i] = EmptyEntry \/ \E n \in DOMAIN forwarded : Holds(i, n)

\* A slot is empty only as long as the ring has not come to it.
Full ==
  \A i \in Slots : fwq[i].addr = NoAddr => Len(forwarded) < Size /\ i >= fwq_ix

IInv == TypeOK /\ Unused /\ Kept /\ Genuine /\ Full

-----------------------------------------------------------------------------
\* Initially nothing was forwarded and every slot is empty.
LEMMA InitInductive == Init => IInv
<1> SUFFICES ASSUME Init PROVE IInv
  OBVIOUS
<1> USE SizeAssumption, IdAssumption
<1>1. TypeOK
  BY DEF Init, fw_query_init, TypeOK, Entry, EmptyEntry, Nobody, Slots
<1>2. Unused
  BY DEF Init, fw_query_init, Unused, Slots
<1>3. Kept /\ Genuine
  BY DEF Init, fw_query_init, Kept, Genuine, Slots
<1>4. Full
  BY DEF Init, fw_query_init, Full, Slots
<1> QED
  BY <1>1, <1>2, <1>3, <1>4 DEF IInv

\* A remembered query is in a slot of its own, which fw_query_get finds if no
\* earlier slot has the id.
LEMMA InItsSlot ==
  ASSUME IInv, NEW n \in DOMAIN forwarded, Remembered(n)
  PROVE  SlotOf(n) \in Slots /\ fwq[SlotOf(n)] = forwarded[n]
<1>1. fwq[SlotOf(n)] = forwarded[n]
  BY DEF IInv, Kept
<1>2. SlotOf(n) \in Slots
  BY SizeAssumption DEF IInv, TypeOK, Remembered, SlotOf, Slots
<1> QED
  BY <1>1, <1>2

\* Putting a query into the ring keeps all of it: the slot that is lost is
\* that of the query Size places back, if there is one.
LEMMA ForwardInductive ==
  ASSUME IInv, NEW id \in Id, NEW from \in Asker, forward_query(id, from)
  PROVE  IInv'
<1> USE SizeAssumption
<1> DEFINE q == [id |-> id, addr |-> from]
<1>1. /\ q \in [id : Id, addr : Asker]
      /\ q \in Entry
      /\ q.addr # NoAddr
  BY AddrAssumption DEF Entry
<1>2. /\ fwq' = [fwq EXCEPT ![fwq_ix] = q]
      /\ fwq_ix' = IF fwq_ix + 1 >= Size THEN 0 ELSE fwq_ix + 1
      /\ forwarded' = Append(forwarded, q)
      /\ reply' = reply
  BY DEF forward_query, fw_query_put
<1>3. /\ fwq \in [Slots -> Entry]
      /\ fwq_ix \in Slots
      /\ forwarded \in Seq([id : Id, addr : Asker])
      /\ reply \in [query : Nat, to : Asker \cup {NoAddr}]
  BY DEF IInv, TypeOK
<1> HIDE DEF q
<1>4. TypeOK'
  <2>1. fwq' \in [Slots -> Entry]
    BY <1>1, <1>2, <1>3
  <2>2. fwq_ix' \in Slots
    BY <1>2, <1>3 DEF Slots
  <2>3. forwarded' \in Seq([id : Id, addr : Asker])
    BY <1>1, <1>2, <1>3
  <2> QED
    BY <1>2, <1>3, <2>1, <2>2, <2>3 DEF TypeOK
<1>5. /\ Len(forwarded) \in Nat
      /\ Len(forwarded') = Len(forwarded) + 1
      /\ DOMAIN forwarded = 1 .. Len(forwarded)
      /\ DOMAIN forwarded' = 1 .. Len(forwarded')
      /\ forwarded'[Len(forwarded) + 1] = q
      /\ \A n \in 1 .. Len(forwarded) : forwarded'[n] = forwarded[n]
  BY <1>1, <1>2, <1>3
<1>6. /\ fwq'[fwq_ix] = q
      /\ \A i \in Slots : i # fwq_ix => fwq'[i] = fwq[i]
  BY <1>2, <1>3
<1>7. Unused'
  <2> SUFFICES ASSUME Len(forwarded') < Size
               PROVE  /\ fwq_ix' = Len(forwarded')
                      /\ \A i \in Slots : i >= fwq_ix' => fwq'[i] = EmptyEntry
    BY DEF Unused
  <2>1. /\ fwq_ix = Len(forwarded)
        /\ \A i \in Slots : i >= fwq_ix => fwq[i] = EmptyEntry
    BY <1>5 DEF IInv, Unused
  <2>2. fwq_ix' = fwq_ix + 1
    BY <1>2, <1>5, <2>1
  <2>3. \A i \in Slots : i >= fwq_ix' => i >= fwq_ix /\ i # fwq_ix
    BY <1>3, <2>2 DEF Slots
  <2> QED
    BY <1>5, <1>6, <2>1, <2>2, <2>3
<1> PICK last \in Nat : last = Len(forwarded) + 1
  BY <1>5
<1>8. SlotOf(last)' = fwq_ix
  <2>1. SlotOf(last)' = IF fwq_ix' - 1 >= 0 THEN fwq_ix' - 1
                        ELSE fwq_ix' - 1 + Size
    <3>1. Len(forwarded') + 1 - last = 1
      BY <1>5
    <3> QED
      BY <3>1 DEF SlotOf
  <2> QED
    BY <1>2, <1>3, <2>1 DEF Slots
<1>9. ASSUME NEW n \in DOMAIN forwarded, Remembered(n)
      PROVE  /\ Remembered(n)' <=> SlotOf(n) # fwq_ix
             /\ Remembered(n)' => SlotOf(n)' = SlotOf(n)
  <2> DEFINE d == Len(forwarded) + 1 - n
  <2>1. d \in 1 .. Size
    BY <1>5, <1>9 DEF Remembered
  <2>2. /\ SlotOf(n) = IF fwq_ix - d >= 0 THEN fwq_ix - d
                        ELSE fwq_ix - d + Size
        /\ SlotOf(n)' = IF fwq_ix' - (d + 1) >= 0 THEN fwq_ix' - (d + 1)
                         ELSE fwq_ix' - (d + 1) + Size
    BY <1>3, <1>4, <1>5, <1>9 DEF SlotOf, TypeOK, Slots
  <2>3. Remembered(n)' <=> d < Size
    BY <1>5, <1>9 DEF Remembered
  <2>4. fwq_ix \in 0 .. Size - 1
    BY <1>3 DEF Slots
  <2> HIDE DEF d
  <2>5. ASSUME d < Size PROVE SlotOf(n)' = SlotOf(n)
    <3>1. CASE fwq_ix + 1 < Size /\ fwq_ix' = fwq_ix + 1
      <4>1. fwq_ix' - (d + 1) = fwq_ix - d
        BY <2>1, <2>4, <2>5, <3>1
      <4> QED
        BY <2>2, <4>1
    <3>2. CASE fwq_ix + 1 = Size /\ fwq_ix' = 0
      <4>1. fwq_ix' - (d + 1) + Size = fwq_ix - d
        BY <2>1, <2>4, <2>5, <3>2
      <4>2. fwq_ix - d >= 0 /\ ~ fwq_ix' - (d + 1) >= 0
        BY <2>1, <2>4, <2>5, <3>2
      <4> QED
        BY <2>2, <4>1, <4>2
    <3> QED
      BY <1>2, <2>4, <3>1, <3>2
  <2>6. d < Size <=> SlotOf(n) # fwq_ix
    BY <2>1, <2>2, <2>4
  <2> QED
    BY <2>3, <2>5, <2>6
<1>10. Kept'
  <2> SUFFICES ASSUME NEW n \in DOMAIN forwarded', Remembered(n)'
               PROVE  (fwq[SlotOf(n)])' = forwarded'[n]
    BY DEF Kept
  <2>1. CASE n = last
    BY <1>5, <1>6, <1>8, <2>1
  <2>2. CASE n # last
    <3>1. n \in DOMAIN forwarded /\ Remembered(n)
      BY <1>5, <2>2 DEF Remembered
    <3>2. SlotOf(n)' = SlotOf(n) /\ SlotOf(n) # fwq_ix
      BY <1>9, <3>1
    <3>3. SlotOf(n) \in Slots
      BY <3>1, InItsSlot
    <3>4. fwq[SlotOf(n)] = forwarded[n]
      BY <3>1, InItsSlot
    <3> QED
      BY <1>5, <1>6, <3>1, <3>2, <3>3, <3>4
  <2> QED
    BY <2>1, <2>2
<1>11. Genuine'
  <2> SUFFICES ASSUME NEW i \in Slots
               PROVE  \/ fwq'[i] = EmptyEntry
                      \/ \E n \in DOMAIN forwarded' : Holds(i, n)'
    BY DEF Genuine
  <2>1. CASE i = fwq_ix
    <3>1. last \in DOMAIN forwarded' /\ Remembered(last)'
      BY <1>5 DEF Remembered
    <3>2. Holds(i, last)'
      BY <1>5, <1>6, <1>8, <2>1, <3>1 DEF Holds
    <3> QED
      BY <3>1, <3>2
  <2>2. CASE i # fwq_ix /\ fwq[i] = EmptyEntry
    BY <1>6, <2>2
  <2>3. CASE i # fwq_ix /\ fwq[i] # EmptyEntry
    <3>1. PICK n \in DOMAIN forwarded : Holds(i, n)
      BY <2>3 DEF IInv, Genuine
    <3>2. SlotOf(n)' = i /\ Remembered(n)'
      BY <1>9, <2>3, <3>1 DEF Holds
    <3>3. fwq'[i] = forwarded'[n]
      BY <1>5, <1>6, <2>3, <3>1 DEF Holds
    <3> QED
      BY <1>5, <3>2, <3>3 DEF Holds
  <2> QED
    BY <2>1, <2>2, <2>3
<1>12. Full'
  <2> SUFFICES ASSUME NEW i \in Slots, fwq'[i].addr = NoAddr
               PROVE  Len(forwarded') < Size /\ i >= fwq_ix'
    BY DEF Full
  <2>1. i # fwq_ix
    BY <1>1, <1>6
  <2>2. Len(forwarded) < Size /\ i >= fwq_ix
    BY <1>6, <2>1 DEF IInv, Full
  <2> QED
    BY <1>2, <1>3, <1>5, <2>1, <2>2 DEF IInv, Unused, Slots
<1> QED
  BY <1>4, <1>7, <1>10, <1>11, <1>12 DEF IInv

\* An answer of the local server changes the ghost reply only.
LEMMA BindInductive ==
  ASSUME IInv, NEW n \in DOMAIN forwarded, tunnel_bind(n)
  PROVE  IInv'
<1>1. UNCHANGED << fwq, fwq_ix, forwarded >>
  BY DEF tunnel_bind
<1>2. reply' \in [query : Nat, to : Asker \cup {NoAddr}]
  <2>1. n \in Nat
    BY DEF IInv, TypeOK
  <2>2. \A i \in Slots : fwq[i].addr \in Asker \cup {NoAddr}
    BY DEF IInv, TypeOK, Entry
  <2> QED
    BY <2>1, <2>2 DEF tunnel_bind
<1>3. TypeOK'
  BY <1>1, <1>2 DEF IInv, TypeOK
<1> QED
  BY <1>1, <1>3 DEF IInv, Unused, Kept, Genuine, Full, Holds, Remembered,
      SlotOf

LEMMA StepInductive == IInv /\ [Next]_vars => IInv'
<1> SUFFICES ASSUME IInv, [Next]_vars PROVE IInv'
  OBVIOUS
<1>1. CASE \E id \in Id, from \in Asker : forward_query(id, from)
  BY <1>1, ForwardInductive
<1>2. CASE \E n \in DOMAIN forwarded : tunnel_bind(n)
  BY <1>2, BindInductive
<1>3. CASE UNCHANGED vars
  BY <1>3
  DEF vars, IInv, TypeOK, Unused, Kept, Genuine, Full, Holds, Remembered,
      SlotOf
<1> QED
  BY <1>1, <1>2, <1>3 DEF Next

LEMMA Inductive == Spec => []IInv
BY InitInductive, StepInductive, PTL DEF Spec

\* The ring and its index keep their types (fw_query_put).
THEOREM TypeCorrect == Spec => []TypeOK
<1>1. IInv => TypeOK
  BY DEF IInv
<1> QED
  BY <1>1, Inductive, PTL

-----------------------------------------------------------------------------
\* A step that changes reply is an answer, to one of the queries forwarded.
LEMMA AnsweredBy ==
  ASSUME [Next]_vars, NEW n \in DOMAIN forwarded, Answered(n)
  PROVE  \/ Lost(forwarded[n].id) /\ reply'.to = NoAddr
         \/ \E i \in Slots : /\ fw_query_get(forwarded[n].id, i)
                            /\ reply'.to = fwq[i].addr
<1>1. PICK m \in DOMAIN forwarded : tunnel_bind(m)
  BY DEF Next, vars, Answered, forward_query
<1>2. m = n
  BY <1>1 DEF tunnel_bind, Answered
<1> QED
  BY <1>1, <1>2 DEF tunnel_bind

\* An empty slot with the id of a remembered query, which can be 0 only, comes
\* after the slot of that query: fw_query_get does not get to it.
LEMMA EmptySlotsComeLater ==
  ASSUME IInv, NEW n \in DOMAIN forwarded, Remembered(n),
         NEW i \in Slots, fw_query_get(forwarded[n].id, i)
  PROVE  fwq[i] # EmptyEntry
<1> SUFFICES ASSUME fwq[i] = EmptyEntry PROVE FALSE
  OBVIOUS
<1>1. Len(forwarded) < Size /\ i >= fwq_ix
  BY DEF IInv, Full, EmptyEntry
<1>2. fwq_ix = Len(forwarded)
  BY <1>1 DEF IInv, Unused
<1>3. SlotOf(n) \in 0 .. i - 1
  BY <1>1, <1>2 DEF IInv, TypeOK, Slots, SlotOf
<1>4. fwq[SlotOf(n)].id = forwarded[n].id
  BY InItsSlot
<1> QED
  BY <1>3, <1>4 DEF fw_query_get

\* Whatever fw_query_get finds for a remembered query is one, with its id.
LEMMA FindsRemembered ==
  ASSUME IInv, NEW n \in DOMAIN forwarded, Remembered(n),
         NEW i \in Slots, fw_query_get(forwarded[n].id, i)
  PROVE  \E m \in DOMAIN forwarded :
           /\ Remembered(m)
           /\ forwarded[m].id = forwarded[n].id
           /\ fwq[i] = forwarded[m]
<1>1. PICK m \in DOMAIN forwarded : Holds(i, m)
  BY EmptySlotsComeLater DEF IInv, Genuine
<1>2. fwq[i].id = forwarded[n].id
  BY DEF fw_query_get
<1> QED
  BY <1>1, <1>2 DEF Holds

\* Nor is a remembered query ever lost.
LEMMA RememberedIsFound ==
  ASSUME IInv, NEW n \in DOMAIN forwarded, Remembered(n)
  PROVE  ~ Lost(forwarded[n].id)
BY InItsSlot DEF Lost

\* The answer to one of the last Size queries reaches its asker, unless
\* another of them has the same id (fw_query_put, fw_query_get), for every
\* size of the ring.
THEOREM AnswersReachTheirAskers == Spec => AnswerReachesAsker
<1>1. ASSUME IInv, [Next]_vars, NEW n \in DOMAIN forwarded,
             Answered(n), Remembered(n), Alone(n)
      PROVE  reply'.to = forwarded[n].addr
  <2>1. PICK i \in Slots : /\ fw_query_get(forwarded[n].id, i)
                           /\ reply'.to = fwq[i].addr
    BY <1>1, AnsweredBy, RememberedIsFound
  <2>2. fwq[i] = forwarded[n]
    BY <1>1, <2>1, FindsRemembered DEF Alone
  <2> QED
    BY <2>1, <2>2
<1>2. IInv /\ [Next]_vars =>
        [\A n \in DOMAIN forwarded :
           Answered(n) /\ Remembered(n) /\ Alone(n) =>
             reply'.to = forwarded[n].addr]_vars
  BY <1>1
<1> QED
  BY <1>2, Inductive, PTL DEF Spec, AnswerReachesAsker

\* An answer goes to someone who asked under its id or is dropped, the latter
\* only if Size queries came after the one it answers; never to a slot that
\* was not written (fw_query_get, tunnel_bind).
THEOREM AnswersGoToAskers == Spec => AnswerGoesToAnAsker
<1> DEFINE ToAsker(n) ==
             \E m \in DOMAIN forwarded :
               forwarded[m] = [id |-> forwarded[n].id, addr |-> reply'.to]
           Dropped(n) == reply'.to = NoAddr /\ ~ Remembered(n)
<1>1. ASSUME IInv, [Next]_vars, NEW n \in DOMAIN forwarded, Answered(n)
      PROVE  ToAsker(n) \/ Dropped(n)
  <2>1. \A m \in DOMAIN forwarded : forwarded[m] \in [id : Id, addr : Asker]
    <3>1. forwarded \in Seq([id : Id, addr : Asker])
      BY <1>1 DEF IInv, TypeOK
    <3>2. ASSUME NEW S, NEW s \in Seq(S)
          PROVE  \A m \in DOMAIN s : s[m] \in S
      OBVIOUS
    <3> QED
      BY <3>1, <3>2
  <2>2. CASE Lost(forwarded[n].id) /\ reply'.to = NoAddr
    BY <1>1, <2>2, RememberedIsFound
  <2>3. ASSUME NEW i \in Slots, fw_query_get(forwarded[n].id, i),
               reply'.to = fwq[i].addr
        PROVE  ToAsker(n) \/ Dropped(n)
    <3>1. CASE fwq[i] = EmptyEntry
      <4>1. ~ Remembered(n)
        BY <1>1, <2>3, <3>1, EmptySlotsComeLater
      <4> QED
        BY <2>3, <3>1, <4>1 DEF EmptyEntry
    <3>2. ASSUME NEW m \in DOMAIN forwarded, Holds(i, m)
          PROVE  ToAsker(n)
      <4>1. fwq[i] = forwarded[m] /\ fwq[i].id = forwarded[n].id
        BY <2>3, <3>2 DEF Holds, fw_query_get
      <4>2. forwarded[m] = [id |-> forwarded[m].id, addr |-> forwarded[m].addr]
        BY <2>1
      <4> QED
        BY <2>3, <4>1, <4>2
    <3> QED
      BY <1>1, <3>1, <3>2 DEF IInv, Genuine
  <2> QED
    BY <1>1, <2>2, <2>3, AnsweredBy
<1>2. IInv /\ [Next]_vars =>
        [\A n \in DOMAIN forwarded :
           Answered(n) =>
             \/ \E m \in DOMAIN forwarded :
                  forwarded[m] = [id |-> forwarded[n].id, addr |-> reply'.to]
             \/ reply'.to = NoAddr /\ ~ Remembered(n)]_vars
  BY <1>1
<1> QED
  BY <1>2, Inductive, PTL DEF Spec, AnswerGoesToAnAsker
=============================================================================
