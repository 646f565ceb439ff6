---------------------------- MODULE MCAutodetect ----------------------------
(* Relays that differ in the types they carry, and relays that differ in   *)
(* the codecs, with one fast type each.                                    *)
EXTENDS Autodetect

AllPatterns == {Patterns[n] : n \in DOMAIN Patterns}

\* Only the types in fast come through in time
Carrying(fast) == [t \in Type |-> IF t \in fast THEN 1 ELSE Never]

TypeRelays ==
  {[wait |-> w, edns0 |-> TRUE, swaps |-> FALSE, up |-> AllPatterns,
    down |-> {"S", "U", "V", "R"}, loses |-> l] :
     w \in [Type -> {1, 3, Never}], l \in BOOLEAN}

CodecRelays ==
  {[wait |-> Carrying(f), edns0 |-> e, swaps |-> s, up |-> u, down |-> d, loses |-> l] :
     f \in {{"TXT"}, {"A"}}, e \in BOOLEAN, s \in BOOLEAN,
     u \in {AllPatterns \ x : x \in SUBSET {"128a", "128d", "128e", "64", "64u"}},
     d \in SUBSET {"S", "U", "V", "R"}, l \in BOOLEAN}

MCRelays == TypeRelays \cup CodecRelays

\* One way that carries TXT and everything in it, and one that takes CNAME
\* and nothing beyond Base32
TwoWays ==
  {[wait |-> Carrying({"TXT"}), edns0 |-> TRUE, swaps |-> FALSE, up |-> AllPatterns,
    down |-> {"S", "V", "R"}, loses |-> l] : l \in BOOLEAN} \cup
  {[wait |-> Carrying({"TXT", "CNAME"}), edns0 |-> FALSE, swaps |-> TRUE, up |-> {},
    down |-> {}, loses |-> FALSE]}
=============================================================================
