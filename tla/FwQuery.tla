------------------------------ MODULE FwQuery -------------------------------
(***************************************************************************)
(* iodined with a local DNS server beside it (option -b): a query outside  *)
(* the tunnel's domain goes on to that server under its own id, and a ring *)
(* of the last FW_QUERY_CACHE_SIZE askers, searched by id from its first   *)
(* slot, tells where the answer belongs.                                   *)
(***************************************************************************)
EXTENDS Integers, Sequences

CONSTANTS Size,          \* FW_QUERY_CACHE_SIZE
          Id,            \* ids of queries; 0 is an id like any other
          Asker,         \* where queries come from
          NoAddr,        \* the address in a slot never written: all zero
          MaxForwarded   \* bound of the model: queries forwarded in a run

ASSUME SizeAssumption == Size \in Nat \ {0}
ASSUME IdAssumption == 0 \in Id
ASSUME AddrAssumption == NoAddr \notin Asker

(***************************************************************************)
(* forwarded and reply are ghosts: every query forwarded so far, and the   *)
(* last answer of the local server with the place it was passed on to.     *)
(***************************************************************************)
VARIABLES fwq, fwq_ix, forwarded, reply

vars == << fwq, fwq_ix, forwarded, reply >>

Slots == 0 .. Size - 1
Entry == [id : Id, addr : Asker \cup {NoAddr}]
EmptyEntry == [id |-> 0, addr |-> NoAddr]
Nobody == [query |-> 0, to |-> NoAddr]

fw_query_init ==
  /\ fwq = [i \in Slots |-> EmptyEntry]
  /\ fwq_ix = 0

Init ==
  /\ fw_query_init
  /\ forwarded = << >>
  /\ reply = Nobody

\* Wrong: the ring wraps one slot early.
fw_query_put_Early(q) ==
  /\ fwq' = [fwq EXCEPT ![fwq_ix] = q]
  /\ fwq_ix' = IF fwq_ix + 2 >= Size THEN 0 ELSE fwq_ix + 1

\* Wrong: the index is advanced before the slot is written, not after.
fw_query_put_Before(q) ==
  /\ fwq_ix' = IF fwq_ix + 1 >= Size THEN 0 ELSE fwq_ix + 1
  /\ fwq' = [fwq EXCEPT ![fwq_ix'] = q]

fw_query_put(q) ==
  /\ fwq' = [fwq EXCEPT ![fwq_ix] = q]
  /\ fwq_ix' = IF fwq_ix + 1 >= Size THEN 0 ELSE fwq_ix + 1

\* fw_query_get stops at the first slot with that id, if there is one
fw_query_get(id, i) ==
  /\ fwq[i].id = id
  /\ \A j \in 0 .. i - 1 : fwq[j].id # id

Lost(id) == \A i \in Slots : fwq[i].id # id

\* A query from outside the tunnel's domain.  One that dns_encode refuses is
\* dropped before it is stored, which is no step here.
forward_query(id, from) ==
  /\ Len(forwarded) < MaxForwarded
  /\ fw_query_put([id |-> id, addr |-> from])
  /\ forwarded' = Append(forwarded, [id |-> id, addr |-> from])
  /\ UNCHANGED reply

\* The local server answers query n, at any time, perhaps twice.  The answer
\* goes to the address found under its id, or nowhere.
tunnel_bind(n) ==
  /\ \/ /\ Lost(forwarded[n].id)
        /\ reply' = [query |-> n, to |-> NoAddr]
     \/ \E i \in Slots :
          /\ fw_query_get(forwarded[n].id, i)
          /\ reply' = [query |-> n, to |-> fwq[i].addr]
  /\ UNCHANGED << fwq, fwq_ix, forwarded >>

Next ==
  \/ \E id \in Id, from \in Asker : forward_query(id, from)
  \/ \E n \in DOMAIN forwarded : tunnel_bind(n)

Spec == Init /\ [][Next]_vars
-----------------------------------------------------------------------------
(***************************************************************************)
(* Properties.                                                             *)
(***************************************************************************)

\* The ring holds entries, and its index is one of its slots.
TypeOK ==
  /\ fwq \in [Slots -> Entry]
  /\ fwq_ix \in Slots
  /\ forwarded \in Seq([id : Id, addr : Asker])
  /\ reply \in [query : Nat, to : Asker \cup {NoAddr}]

\* The ring remembers the last Size queries
Remembered(n) == n \in DOMAIN forwarded /\ n + Size > Len(forwarded)

Alone(n) ==
  \A m \in DOMAIN forwarded :
    Remembered(m) /\ forwarded[m].id = forwarded[n].id => m = n

Answered(n) == reply' # reply /\ reply'.query = n

\* The answer to one of the last Size queries reaches its asker, unless
\* another of them has the same id: neither the wrap of the ring nor what it
\* held before gets in the way (fw_query_put, fw_query_get).
AnswerReachesAsker ==
  [][\A n \in DOMAIN forwarded :
       Answered(n) /\ Remembered(n) /\ Alone(n) =>
         reply'.to = forwarded[n].addr]_vars

\* An answer goes to someone who asked under this id or is dropped, and it
\* is dropped only if Size queries came after the one it answers.  In
\* particular id 0, which is also the id of every slot never written, does
\* not lead to such a slot.
AnswerGoesToAnAsker ==
  [][\A n \in DOMAIN forwarded :
       Answered(n) =>
         \/ \E m \in DOMAIN forwarded :
              forwarded[m] = [id |-> forwarded[n].id, addr |-> reply'.to]
         \/ reply'.to = NoAddr /\ ~ Remembered(n)]_vars
=============================================================================
