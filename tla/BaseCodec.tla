----------------------------- MODULE BaseCodec ------------------------------
(***************************************************************************)
(* The encoders of iodine: base32.c, base64.c, base128.c.                  *)
(*                                                                         *)
(* Data is the sequence of its bits, eight to a byte.  A character is the  *)
(* group of bits it stands for: the alphabets are lists without            *)
(* repetition, and reverse_init inverts them.  base64u.c is made from      *)
(* base64.c with another alphabet.                                         *)
(***************************************************************************)
EXTENDS Integers, Sequences

\* What the bits behind the end of the data are taken for
Pad == 0

Bytes(data) == Len(data) \div 8

\* The size of n bytes in characters of so many bits, rounded up
Chars(bits, n) == (8 * n + bits - 1) \div bits

\* The characters written into room: "previous char is useless" if the last
\* one that fits does not complete a byte.
EncodedLen(bits, room, n) ==
  IF Chars(bits, n) <= room THEN Chars(bits, n)
  ELSE IF (room * bits) \div 8 = ((room - 1) * bits) \div 8 THEN room - 1
  ELSE room

\* The bytes that so many characters stand for
DecodedLen(bits, len) == (len * bits) \div 8

\* *buflen after encode: the bytes that can be decoded from what was written
Consumed(bits, room, n) ==
  IF Chars(bits, n) <= room THEN n
  ELSE DecodedLen(bits, EncodedLen(bits, room, n))

\* What encode writes into buf
Encode(bits, room, data) ==
  LET size == Len(data)
      Bit(p) == IF p <= size THEN data[p] ELSE Pad
  IN  [k \in 1 .. EncodedLen(bits, room, size \div 8) |->
         [j \in 1 .. bits |-> Bit((k - 1) * bits + j)]]

\* "Illegal encoded chars are assumed to decode to zero."
BitOf(bits, char, j) == IF Len(char) = bits THEN char[j] ELSE Pad

\* What decode writes into buf
Decode(bits, text) ==
  [p \in 1 .. 8 * DecodedLen(bits, Len(text)) |->
     BitOf(bits, text[((p - 1) \div bits) + 1], ((p - 1) % bits) + 1)]

-----------------------------------------------------------------------------
(***************************************************************************)
(* struct encoder.  A pair of encode: the text, and *buflen afterwards.    *)
(***************************************************************************)
With(bits, room, data) ==
  << Encode(bits, room, data), Consumed(bits, room, Bytes(data)) >>

base32_encode(room, data)  == With(5, room, data)
base64_encode(room, data)  == With(6, room, data)
base128_encode(room, data) == With(7, room, data)

base32_decode(text)  == Decode(5, text)
base64_decode(text)  == Decode(6, text)
base128_decode(text) == Decode(7, text)

Encoders == {"base32", "base64", "base64u", "base128"}

encode(encoder, room, data) ==
  CASE encoder = "base32"               -> base32_encode(room, data)
    [] encoder \in {"base64", "base64u"} -> base64_encode(room, data)
    [] encoder = "base128"              -> base128_encode(room, data)

decode(encoder, text) ==
  CASE encoder = "base32"               -> base32_decode(text)
    [] encoder \in {"base64", "base64u"} -> base64_decode(text)
    [] encoder = "base128"              -> base128_decode(text)
=============================================================================
