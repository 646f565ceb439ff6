----------------------------- MODULE MCOutpacket -----------------------------
(***************************************************************************)
(* Outpacket for TLC: either a packet that fits one chunk of every size    *)
(* and one that needs two or three, or one of more bytes than there are    *)
(* fragment numbers, one byte to a fragment, so that the counter runs out. *)
(***************************************************************************)
EXTENDS Outpacket

CONSTANTS p1, p2, p3

MCPacketLen ==
  [p \in Packet |-> CASE p = p1 -> 1 [] p = p2 -> 3 [] p = p3 -> 18]

VARIABLE packets   \* those of this run

MCBound ==
  /\ {out.pkt} \cup {out.ring[i] : i \in Slots} \subseteq packets \cup {NoPacket}
  /\ p3 \in packets => fragsize = 1

MCInit ==
  /\ Init
  /\ packets \in {{p1, p2}, {p3}}
  /\ MCBound

MCNext == Next /\ UNCHANGED packets /\ MCBound'

MCSpec == MCInit /\ [][MCNext]_<< vars, packets >> /\ QueriesKeepComing
=============================================================================
