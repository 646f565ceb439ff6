------------------------------ MODULE LossyLine -----------------------------
(***************************************************************************)
(* What the tunnel promises of one direction, as an IP link would: packets *)
(* are sent one after another; some arrive, whole and in the order they    *)
(* were sent, each once or, if it is one of those in again, several times  *)
(* in a row.                                                               *)
(***************************************************************************)
EXTENDS Naturals, Sequences

VARIABLES sent,   \* how many packets have been sent; they are numbered
          got,    \* the numbers of those that arrived, in their order
          again   \* the numbers of those that may come again, fixed

Init == sent = 0 /\ got = << >>

Last == IF got = << >> THEN 0 ELSE got[Len(got)]

Send == sent' = sent + 1 /\ UNCHANGED << got, again >>

Arrive(n) ==
  /\ n > Last \/ (n = Last /\ n \in again)
  /\ got' = Append(got, n)
  /\ UNCHANGED << sent, again >>

Next == Send \/ \E n \in 1 .. sent : Arrive(n)

Spec == Init /\ [][Next]_<< sent, got, again >>
=============================================================================
