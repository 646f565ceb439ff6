------------------------------ MODULE MCTunnel ------------------------------
(***************************************************************************)
(* Tunnel for TLC: packets of one or two fragments.                        *)
(***************************************************************************)
EXTENDS Tunnel

MCPacket == {<< 1, 1 >>, << 1, 2 >>, << 2, 2 >>}

MCPacketLen == [p \in MCPacket |-> p[2]]

\* Two packets in one direction
OneWay ==
  {[lazy |-> TRUE, up |-> << << 1, 1 >>, << 2, 2 >> >>, down |-> << >>, queries |-> 5],
   [lazy |-> TRUE, up |-> << >>, down |-> << << 1, 1 >>, << 2, 2 >> >>, queries |-> 5]}

\* One packet in each direction, in lazy and in legacy mode
BothWays ==
  {[lazy |-> l, up |-> << << 1, 2 >> >>, down |-> << << 1, 2 >> >>,
    queries |-> IF l THEN 4 ELSE 3] : l \in BOOLEAN}

MCScenarios == OneWay \cup BothWays
=============================================================================
