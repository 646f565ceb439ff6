----------------------------- MODULE PacketFifo -----------------------------
(***************************************************************************)
(* What iodined promises of the packets addressed to one user: they stand  *)
(* in one line of bounded length; a packet joins at the end or, when the   *)
(* line is full, not at all; packets leave from the front only.  Nothing   *)
(* overtakes, nothing is put in twice and nothing disappears from the      *)
(* middle.                                                                 *)
(***************************************************************************)
EXTENDS Naturals, Sequences

CONSTANTS Packet,    \* the packets
          Capacity   \* how many may stand in line

VARIABLE line

LineOK == line \in Seq(Packet) /\ Len(line) <= Capacity

Init == line = << >>

\* A packet joins the line; a full line turns it away, which is a stutter.
Offer(p) ==
  /\ Len(line) < Capacity
  /\ line' = Append(line, p)

\* Packets leave from the front: acknowledged, given up or sent in one go.
Retire(k) == line' = SubSeq(line, k + 1, Len(line))

Next ==
  \/ \E p \in Packet : Offer(p)
  \/ \E k \in 1 .. Len(line) : Retire(k)

Spec == Init /\ [][Next]_line
=============================================================================
