---------------------------- MODULE DnsMessages -----------------------------
(***************************************************************************)
(* What becomes of data and names between the programs of both sides, in   *)
(* three conversations:                                                    *)
(*                                                                         *)
(*   "ask"     a name server looks for iodined and asks it                 *)
(*   "up"      the client sends a request, or a packet in chunks           *)
(*   "down"    iodined answers                                             *)
(*                                                                         *)
(* Relays carry only names that are legal (RFC 1035), and may lose records *)
(* of an answer or change their order.  That queries are lost, repeated    *)
(* and overtake one another is the subject of Tunnel.                      *)
(***************************************************************************)
EXTENDS DnsAnswers
LOCAL INSTANCE SequencesExt

(***************************************************************************)
(* Bounds: the questions of the strangers, the packets and requests of the *)
(* client with the settings they are sent under, and the answers.          *)
(***************************************************************************)
CONSTANTS Topdomains, Sendings, Answers

\* header is 5 for a chunk, 1 for a request, which is not cut into chunks.
ASSUME MessagesAssumption ==
  /\ \A t \in Topdomains : Len(t) \in 3 .. 128
  /\ Sendings \subseteq [topdomain : Topdomains, maxlen : 0 .. 255, header : {1, 5},
                         encoder : Encoders, size : Nat \ {0}]
  /\ \A s \in Sendings : s.maxlen - Len(s.topdomain) >= 10
  /\ Answers \subseteq [type : Types, downenc : Downencs, size : Nat \ {0}]

VARIABLES
  task,       \* the conversation, and what it is about
  name,       \* the name in the query under way, none if there is none
  qtype,      \* its type
  out,        \* the client's outpkt: what is left of it, sentlen and fragment
  inp,        \* iodined's inpacket: the data and the fragment
  records,    \* the answer under way
  lost,       \* ghost: the records a relay has lost
  reply       \* what came of it

vars == << task, name, qtype, out, inp, records, lost, reply >>

Data(n) == [p \in 1 .. 8 * n |-> p]

None == [kind |-> "none"]

Init ==
  /\ task \in [of : {"ask"}, topdomain : Topdomains] \cup
              {[of |-> "up"] @@ s : s \in Sendings} \cup
              {[of |-> "down"] @@ a : a \in Answers}
  /\ name = << >> /\ qtype = "NULL"
  /\ out = [data |-> IF task.of = "up" THEN Data(task.size) ELSE << >>,
            sentlen |-> 0, fragment |-> 0]
  /\ inp = [data |-> << >>, fragment |-> -1]
  /\ records = << >> /\ lost = {}
  /\ reply = None

-----------------------------------------------------------------------------
(***************************************************************************)
(* A name server asks.                                                     *)
(***************************************************************************)
ns  == << Letter(10), Letter(11), Dot >>
www == << Letter(12), Letter(12), Letter(12), Dot >>

\* Wrong: the first length byte is counted twice.
TopdomainAt_OneMore(text, topdomain) == Len(text) - Len(topdomain) + 1

\* "instead of dots at the end we have length-bytes in front"
TopdomainAt(text, topdomain) == Len(text) - Len(topdomain)

\* The name of the server in the answer: the label ns, and a pointer
dns_encode_ns_response(text, topdomain) ==
  LET question == putname(text)
      target == SubSeq(question, TopdomainAt(text, topdomain) + 1, Len(question))
  IN  [kind |-> "referral", server |-> ns \o readname(target)]

InsideTopdomain(text, topdomain) ==
  /\ IsSuffix(topdomain, text)
  /\ \/ text = topdomain
     \/ text[Len(text) - Len(topdomain)] = Dot

\* handle_a_request, handle_ns_request, handle_null_request, forward_query
tunnel_dns(text, type, topdomain) ==
  LET before == SubSeq(text, 1, Len(text) - Len(topdomain))
  IN  CASE ~ InsideTopdomain(text, topdomain) -> [kind |-> "forwarded"]
        [] OTHER ->
             IF type = "A" /\ before \in {ns, www}
             THEN [kind |-> "address", fake |-> before = www]
             ELSE IF type = "NS" THEN dns_encode_ns_response(text, topdomain)
             ELSE IF Len(before) < 2 THEN None ELSE [kind |-> "request"]

\* The top domain, what is below it, and what only looks like it
Questions(topdomain) ==
  {topdomain} \cup
  {before \o topdomain : before \in {ns, www, www \o ns, << Letter(10) >>, Tail(ns)}} \cup
  {ns \o www}

Ask ==
  /\ task.of = "ask" /\ reply = None
  /\ \E text \in Questions(task.topdomain), type \in {"NS", "A", "NULL"} :
       /\ name' = text
       /\ qtype' = type
       /\ reply' = tunnel_dns(text, type, task.topdomain)
  /\ UNCHANGED << task, out, inp, records, lost >>

\* Who is told of a name server asks it for its address.
FollowReferral ==
  /\ reply.kind = "referral"
  /\ name' = reply.server
  /\ qtype' = "A"
  /\ reply' = tunnel_dns(name', "A", task.topdomain)
  /\ UNCHANGED << task, out, inp, records, lost >>

-----------------------------------------------------------------------------
(***************************************************************************)
(* The client sends.                                                       *)
(***************************************************************************)
\* RFC 1035: 63 bytes to a label, 255 to a name
IsLegal(text) == putname(text) # << >> /\ Len(putname(text)) <= 255

\* Wrong: half of it.
ProbeLen_Short == 128

ProbeLen == 256   \* probedata of send_fragsize_probe

HeaderOf(len) == [i \in 1 .. len |-> Letter(20)]

\* send_packet, or send_chunk of what is left
send_chunk(data) ==
  build_hostname(data, task.topdomain, task.encoder, task.maxlen)

Send ==
  /\ task.of = "up" /\ name = << >>
  /\ out.data # << >>
  /\ task.header = 1 => out.sentlen = 0
  /\ out' = [out EXCEPT !.sentlen = send_chunk(out.data).sent]
  /\ LET text == HeaderOf(task.header) \o send_chunk(out.data).text
     IN  name' = IF IsLegal(text) THEN text ELSE << >>
  /\ UNCHANGED << task, qtype, inp, records, lost, reply >>

\* Wrong: the last character before the dot is left out.
PayloadOf_Short(text) ==
  SubSeq(text, task.header + 1, Len(text) - Len(task.topdomain) - 2)

\* What handle_null_request takes for the data of a query
PayloadOf(text) ==
  SubSeq(text, task.header + 1, Len(text) - Len(task.topdomain))

\* iodined takes the fragment, and the client hears of it: Tunnel has what
\* may go wrong between the two.  A header has four bits for its number.
Receive ==
  LET fragment == out.fragment % 16
      text == readname(putname(name))
  IN  /\ task.of = "up" /\ name # << >>
      /\ name' = << >>
      /\ IF fragment > inp.fragment
         THEN /\ inp' = [data |-> inp.data \o unpack_data(PayloadOf(text), task.encoder),
                         fragment |-> fragment]
              /\ out' = [data |-> DropBytes(out.data, out.sentlen), sentlen |-> out.sentlen,
                         fragment |-> out.fragment + 1]
         ELSE UNCHANGED << inp, out >>
      /\ UNCHANGED << task, qtype, records, lost, reply >>

-----------------------------------------------------------------------------
(***************************************************************************)
(* iodined answers.                                                        *)
(***************************************************************************)
Orders(s) == {s, Reverse(s), Tail(s) \o << Head(s) >>}

\* An answer with a name that is not legal does not come through.
IsCarried(answer) ==
  task.type \in NameTypes \cup ListTypes =>
    \A i \in DOMAIN answer : answer[i].rdata # << >> /\ Len(answer[i].rdata) <= 255

Answer ==
  LET answer == write_dns(task.type, Data(task.size), task.downenc)
  IN  /\ task.of = "down" /\ records = << >> /\ reply = None
      /\ \/ records' \in Orders(answer) /\ lost' = {}
         \/ /\ Len(answer) > 1
            /\ \E k \in DOMAIN answer :
                 records' \in Orders(RemoveAt(answer, k)) /\ lost' = {k}
      /\ UNCHANGED << task, name, qtype, out, inp, reply >>

Read ==
  /\ task.of = "down" /\ records # << >> /\ reply = None
  /\ reply' = [kind |-> "data",
               data |-> IF IsCarried(records) THEN read_dns_withq(task.type, records)
                        ELSE << >>]
  /\ UNCHANGED << task, name, qtype, out, inp, records, lost >>

Next == Ask \/ FollowReferral \/ Send \/ Receive \/ Answer \/ Read

Spec == Init /\ [][Next]_vars
-----------------------------------------------------------------------------
\* Whoever asks for the name server of the tunnel's domain, by whatever name
\* below it, is told one that iodined answers for with its address.
ReferralIsAnswered ==
  [][reply.kind = "referral" => reply'.kind = "address" /\ ~ reply'.fake]_vars

\* What iodined has taken out of the names and what the client has still to
\* send are the packet: no byte is lost or sent twice where it is cut.
SentIsReceived == task.of = "up" => inp.data \o out.data = Data(task.size)

\* Whatever the client sends arrives: every name is legal, holds some of it,
\* and has a number that iodined takes for that of a new fragment, and a
\* request is in one name.
EveryNameGetsOn ==
  [][task.of = "up" =>
       IF name = << >>
       THEN name' # << >> /\ out'.sentlen > 0
       ELSE /\ inp' # inp
            /\ task.header = 1 => inp'.data = Data(task.size)]_vars

\* "Note: must either be same, or larger, than send_chunk()": a relay that
\* carries the probes for the fragment size carries the chunks.
ProbeIsNoShorter ==
  task.of = "up" /\ task.header = 5 =>
    Len(name) <= 5 + Len(send_chunk(Data(ProbeLen)).text)

\* The bytes of an answer that arrive before the first that is lost
Arrived ==
  LET one == NameHolds(task.downenc, task.size)
  IN  CASE task.type \in NameTypes -> one
        [] task.type \in ListTypes /\ lost # {} -> one * (Nth(lost, 1) - 1)
        [] OTHER -> task.size

\* In whatever order records arrive, the client reads what iodined has
\* written, up to the first record that is lost, and it fits its buffer.
AnswerReadsAsWritten ==
  reply.kind = "data" /\ task.size >= 2 =>
    /\ reply.data = SubSeq(Data(task.size), 1, 8 * Arrived)
    /\ task.type \in ListTypes => Len(NamesText(NamesInOrder(records))) < 4096
    /\ task.type = "TXT" => Len(FlattenSeq(records[1].rdata)) <= 4096
=============================================================================
