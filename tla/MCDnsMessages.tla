--------------------------- MODULE MCDnsMessages ----------------------------
(***************************************************************************)
(* DnsMessages for TLC: the shortest and the longest top domain there may  *)
(* be, and sizes around what a name holds.                                 *)
(***************************************************************************)
EXTENDS DnsMessages

Word(len) == [i \in 1 .. len |-> Letter(30)]

Short == Word(1) \o << Dot >> \o Word(1)
Usual == Word(3) \o << Dot >> \o Word(9) \o << Dot >> \o Word(3)
Long  == Word(63) \o << Dot >> \o Word(62) \o << Dot >> \o Word(1)

MCTopdomains == {Short, Usual, Long}

\* A packet of the tunnel's mtu that zlib could not compress
Packet == 1147

Sending(topdomain, maxlen, header, encoder, size) ==
  [topdomain |-> topdomain, maxlen |-> maxlen, header |-> header,
   encoder |-> encoder, size |-> size]

\* A ping and a login, packets, and packets through names kept short
MCSendings ==
  {Sending(t, 255, 1, "base32", size) : t \in MCTopdomains, size \in {4, 19}} \cup
  {Sending(t, 255, 5, e, size) : t \in MCTopdomains, e \in Encoders, size \in {1, 150, Packet}} \cup
  {Sending(Short, maxlen, 5, e, 16) : maxlen \in 13 .. 40, e \in Encoders} \cup
  {Sending(Long, 139, 5, e, 5) : e \in Encoders}

MCAnswers ==
  [type : Types, downenc : Downencs, size : 2 .. 9 \cup {153, 154, 184, 185, 215, 306, 307}] \cup
  [type : {"MX", "TXT"}, downenc : {"T", "R"}, size : {2047}]
=============================================================================
