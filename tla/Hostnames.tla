----------------------------- MODULE Hostnames ------------------------------
(***************************************************************************)
(* Data in host names: encoding.c, and putname and readname of read.c.     *)
(*                                                                         *)
(* A text is a sequence of characters: encoded data (BaseCodec), dots, and *)
(* letters that are no data.                                               *)
(***************************************************************************)
EXTENDS BaseCodec, FiniteSets
LOCAL INSTANCE SequencesExt

Dot       == << >>
Letter(x) == << 0, x >>
Labelling(len) == << len >>   \* the length byte before a label

Least(m, n) == IF m <= n THEN m ELSE n

\* A dot behind every 57 characters, the last ones included
inline_dotify(text) ==
  [i \in 1 .. Len(text) + Len(text) \div 57 |->
     IF i % 58 = 0 THEN Dot ELSE text[i - i \div 58]]

inline_undotify(text) == SelectSeq(text, LAMBDA c : c # Dot)

\* "move b back one step to see if the dot is there"
WithDot(text) ==
  IF text # << >> /\ text[Len(text)] = Dot THEN text ELSE Append(text, Dot)

\* Wrong: no space is left for the dots.
SpaceForChars_Undotted(space) == space

\* "space for dots"
SpaceForChars(space) == space - space \div 57

\* The host name behind the header and the bytes of data in it
build_hostname(data, topdomain, encoder, maxlen) ==
  LET space == SpaceForChars(maxlen - Len(topdomain) - 8)
      encoded == encode(encoder, space, data)
  IN  [text |-> WithDot(inline_dotify(encoded[1])) \o topdomain,
       sent |-> encoded[2]]

\* None of the encoders places or eats dots.
unpack_data(text, encoder) == decode(encoder, inline_undotify(text))

-----------------------------------------------------------------------------
\* The k-th smallest of a set of numbers
Nth(S, k) == CHOOSE x \in S : Cardinality({y \in S : y <= x}) = k

\* strtok: what lies between dots, where anything does
Labels(text) ==
  LET ends == {0, Len(text) + 1} \cup {i \in DOMAIN text : text[i] = Dot}
  IN  SelectSeq([k \in 1 .. Cardinality(ends) - 1 |->
                   SubSeq(text, Nth(ends, k) + 1, Nth(ends, k + 1) - 1)],
                LAMBDA label : label # << >>)

\* A name in a message: each label behind its length, and the root; nothing
\* if a label is too long.
putname(text) ==
  LET labels == Labels(text)
  IN  IF \E k \in DOMAIN labels : Len(labels[k]) > 63 THEN << >>
      ELSE FlattenSeq([k \in DOMAIN labels |->
                         << Labelling(Len(labels[k])) >> \o labels[k]])
           \o << Labelling(0) >>

\* A dot for every length byte but the first and the last
readname(name) ==
  LET dots == {i \in DOMAIN name : Len(name[i]) = 1}
  IN  IF name = << >> THEN << >>
      ELSE [i \in 1 .. Len(name) - 2 |->
              IF i + 1 \in dots THEN Dot ELSE name[i + 1]]
=============================================================================
