----------------------------- MODULE DnsAnswers -----------------------------
(***************************************************************************)
(* Data in answers: write_dns of iodined.c and dns_encode for the answer,  *)
(* dns_decode and read_dns_withq of the client for its way back.           *)
(*                                                                         *)
(* An answer is the sequence of its records, a record its preference (of   *)
(* MX and SRV) and its rdata: a name, strings of TXT, or bytes.            *)
(***************************************************************************)
EXTENDS Hostnames
LOCAL INSTANCE SequencesExt

Nul == Letter(0)

NameTypes == {"CNAME", "A"}
ListTypes == {"MX", "SRV"}
DataTypes == {"NULL", "PRIVATE"}
Types     == NameTypes \cup ListTypes \cup DataTypes \cup {"TXT"}

Downencs == {"T", "S", "U", "V", "R"}

\* The encoder for a name, and the first letter that tells it
NameEncoder(downenc) ==
  CASE downenc = "S" -> "base64" [] downenc = "U" -> "base64u"
    [] downenc = "V" -> "base128" [] OTHER -> "base32"

NameLetter(encoder) ==
  CASE encoder = "base32" -> Letter(1) [] encoder = "base64" -> Letter(2)
    [] encoder = "base64u" -> Letter(3) [] encoder = "base128" -> Letter(4)

TxtLetter(encoder)  == << 1, NameLetter(encoder)[2] >>
RawLetter           == << 1, 0 >>

\* Raw bytes, as characters of eight bits
AsBytes(data) == Encode(8, Bytes(data), data)
OfBytes(text) == Decode(8, text)

-----------------------------------------------------------------------------
\* The letters that rotate to make a top domain
TopLetters == << Letter(5), Letter(6) >>

write_dns_nameenc(data, downenc) ==
  LET encoder == NameEncoder(downenc)
      encoded == encode(encoder, SpaceForChars(255 - 4 - 2), data)
  IN  [text |-> WithDot(inline_dotify(<< NameLetter(encoder) >> \o encoded[1]))
                \o TopLetters,
       sent |-> encoded[2]]

\* The bytes a name takes of n that are left
NameHolds(downenc, n) ==
  write_dns_nameenc([p \in 1 .. 8 * n |-> Pad], downenc).sent

DropBytes(data, n) == SubSeq(data, 8 * n + 1, Len(data))

\* The data in the names of a list: as much as each takes, until all is in
\* one.  Each but the last takes what the first takes.
NameData(data, downenc) ==
  LET n == NameHolds(downenc, Bytes(data))
  IN  [k \in 1 .. (Bytes(data) + n - 1) \div n |-> DropBytes(data, (k - 1) * n)]

puttxtbin(text) ==
  [k \in 1 .. (Len(text) + 251) \div 252 |->
     SubSeq(text, 252 * (k - 1) + 1, Least(252 * k, Len(text)))]

TxtText(data, downenc) ==
  IF downenc = "R" THEN << RawLetter >> \o AsBytes(data)
  ELSE << TxtLetter(NameEncoder(downenc)) >>
       \o encode(NameEncoder(downenc), Chars(5, Bytes(data)), data)[1]

Preference(k) == 10 * k

write_dns(type, data, downenc) ==
  LET NameOf(part) == putname(write_dns_nameenc(part, downenc).text)
      parts == NameData(data, downenc)
  IN  CASE type \in NameTypes ->
             << [pref |-> 0, rdata |-> NameOf(data)] >>
        [] type \in ListTypes ->
             [k \in DOMAIN parts |->
                [pref |-> Preference(k), rdata |-> NameOf(parts[k])]]
        [] type = "TXT" ->
             << [pref |-> 0, rdata |-> puttxtbin(TxtText(data, downenc))] >>
        [] OTHER ->
             << [pref |-> 0, rdata |-> AsBytes(data)] >>

-----------------------------------------------------------------------------
\* Up to the first NUL
ToNul(text) ==
  LET nuls == {i \in DOMAIN text : text[i] = Nul}
  IN  IF nuls = {} THEN text ELSE SubSeq(text, 1, Nth(nuls, 1) - 1)

\* dns_namedec of a text from a name (h to k) or from TXT (t to v, r)
dns_namedec(text) ==
  LET known(letter(_)) == {e \in Encoders : letter(e) = text[1]}
  IN  CASE text = << >> -> << >>
        [] text # << >> /\ known(NameLetter) # {} ->
             IF Len(text) < 5 THEN << >>
             ELSE unpack_data(ToNul(SubSeq(text, 2, Len(text) - 3)),
                              CHOOSE e \in known(NameLetter) : TRUE)
        [] text # << >> /\ known(TxtLetter) # {} ->
             decode(CHOOSE e \in known(TxtLetter) : TRUE, Tail(text))
        [] text # << >> /\ text[1] = RawLetter -> OfBytes(Tail(text))
        [] OTHER -> << >>

\* Wrong: goes on behind a gap.
NamesInOrder_Gaps(answer) ==
  LET found == {i \in DOMAIN answer : answer[i].pref % 10 = 0}
      prefs == {answer[i].pref : i \in found}
  IN  [k \in 1 .. Cardinality(prefs) |->
         readname(answer[CHOOSE i \in found :
                           answer[i].pref = Nth(prefs, k)].rdata)]

\* dns_decode of MX and SRV: the names of preference 10, 20 and so on up to
\* the first that is missing
NamesInOrder(answer) ==
  LET At(k) == {i \in DOMAIN answer : answer[i].pref = 10 * k}
      count == CHOOSE n \in 0 .. Len(answer) :
                 At(n + 1) = {} /\ \A k \in 1 .. n : At(k) # {}
  IN  [k \in 1 .. Least(count, 249) |->
         readname(answer[CHOOSE i \in At(k) : TRUE].rdata)]

\* What dns_decode makes of the names, each with its NUL
NamesText(names) == FlattenSeq([k \in DOMAIN names |-> Append(names[k], Nul)])

\* The parts that read_dns_withq takes of that text: each as long as the
\* first, or what is left
PartsOf(text) ==
  LET first == Len(ToNul(text))
  IN  [k \in 1 .. (Len(text) + first) \div (first + 1) |->
         LET from == (k - 1) * (first + 1)
         IN  SubSeq(text, from + 1, from + Least(first, Len(text) - from))]

\* The data of the parts, up to one without any
ReadParts(text) ==
  LET parts == PartsOf(text)
      data == [k \in DOMAIN parts |-> dns_namedec(parts[k])]
      empty == {k \in DOMAIN data : data[k] = << >>}
  IN  FlattenSeq(IF empty = {} THEN data ELSE SubSeq(data, 1, Nth(empty, 1) - 1))

\* Fewer than two bytes are not taken from a record of type NULL.
read_dns_withq(type, answer) ==
  CASE answer = << >> -> << >>
    [] answer # << >> /\ type \in NameTypes ->
         dns_namedec(readname(answer[1].rdata))
    [] answer # << >> /\ type \in ListTypes ->
         ReadParts(NamesText(NamesInOrder(answer)))
    [] answer # << >> /\ type = "TXT" ->
         dns_namedec(FlattenSeq(answer[1].rdata))
    [] OTHER ->
         IF Len(answer[1].rdata) < 2 THEN << >> ELSE OfBytes(answer[1].rdata)
=============================================================================
