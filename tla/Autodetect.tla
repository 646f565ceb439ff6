----------------------------- MODULE Autodetect -----------------------------
(***************************************************************************)
(* How the client finds out what the relays on its way let through: the    *)
(* type of its queries, EDNS0, and the codecs of either direction.         *)
(*                                                                         *)
(* A test is one of the 'Y' or 'Z' queries with its repetitions.  Iodined  *)
(* answers these without keeping anything, so that only their outcome is   *)
(* modelled.                                                               *)
(***************************************************************************)
EXTENDS Integers, Sequences

CONSTANTS Relays,        \* what the relays on a way may be like
          LaterRelays,   \* the same, of the connections after the first
          AskedType,     \* the option for the type, or "UNSET"
          ConnectionBound \* bound of the model: connections of the process

\* In the order of the bandwidth one expects of them
Types == << "NULL", "PRIVATE", "TXT", "SRV", "MX", "CNAME", "A" >>
NoneWorks == Len(Types) + 1
Timeouts == 3
Never == Timeouts + 1

Type == {Types[n] : n \in DOMAIN Types}
HostnameTypes == {"SRV", "MX", "CNAME", "A"}

\* The strings of the upstream tests, in their order
Patterns == << "128a", "128b", "128c", "128d", "128e", "64", "64u" >>

(***************************************************************************)
(* wait[t]  seconds an answer of type t takes                              *)
(* edns0    queries with EDNS0 come through                                *)
(* swaps    letters change their case                                      *)
(* up, down the patterns, and the codecs, that come through unchanged      *)
(* loses    any test may fail                                              *)
(***************************************************************************)
Relay == [wait : [Type -> 1 .. Never], edns0 : BOOLEAN, swaps : BOOLEAN,
          up : SUBSET {Patterns[n] : n \in DOMAIN Patterns},
          down : SUBSET {"S", "U", "V", "R"}, loses : BOOLEAN]

ASSUME RelayAssumption == Relays \subseteq Relay /\ LaterRelays \subseteq Relay
ASSUME TypeAssumption == AskedType \in Type \cup {"UNSET"}

(***************************************************************************)
(* do_qtype, dnsc_use_edns0, downenc are the client's; timeout, qtypenum   *)
(* and highestworking belong to the search for a type, pattern and upcodec *)
(* to that for the upstream codec, codec and best to the other one.        *)
(***************************************************************************)
VARIABLES phase, relay, do_qtype, timeout, qtypenum, highestworking,
          dnsc_use_edns0, pattern, upcodec, codec, best, downenc, connections

qtypeVars == << do_qtype, timeout, qtypenum, highestworking >>
upVars    == << pattern, upcodec >>
downVars  == << codec, best, downenc >>
searchVars == << phase, relay, qtypeVars, dnsc_use_edns0, upVars, downVars, connections >>

FirstPhase == IF AskedType = "UNSET" THEN "qtype" ELSE "edns0"

\* The first connection of the process begins
SearchInit ==
  /\ connections = 1 /\ relay \in Relays /\ phase = FirstPhase
  /\ do_qtype = AskedType /\ timeout = 1 /\ qtypenum = 1 /\ highestworking = NoneWorks
  /\ dnsc_use_edns0 = FALSE
  /\ pattern = 1 /\ upcodec = "Base32"
  /\ codec = "S" /\ best = " " /\ downenc = " "

\* Wrong: dataenc is left as it was.
ResetUp_Kept == pattern' = 1 /\ UNCHANGED upcodec

ResetUp == pattern' = 1 /\ upcodec' = "Base32"

\* client_init, and the options the app sets; then client_handshake.  Another
\* connection may go another way.
ConnectAgain ==
  /\ phase \in {"over", "failed"}
  /\ connections < ConnectionBound
  /\ connections' = connections + 1
  /\ relay' \in LaterRelays
  /\ do_qtype' = AskedType /\ timeout' = 1 /\ qtypenum' = 1
  /\ highestworking' = NoneWorks
  /\ dnsc_use_edns0' = FALSE
  /\ ResetUp
  /\ codec' = "S" /\ best' = " " /\ UNCHANGED downenc
  /\ phase' = FirstPhase
-----------------------------------------------------------------------------
\* The codecs iodined answers a 'Y' query with
ServerHas(c, type) ==
  IF c = "R" THEN type \in {"NULL", "TXT"} ELSE type \in HostnameTypes \cup {"TXT"}

QtypeTestCodec(type) == IF type \in {"NULL", "PRIVATE"} THEN "R" ELSE "T"
Edns0TestCodec(type) == IF type = "NULL" THEN "R" ELSE "T"

Testable(type) == ServerHas(QtypeTestCodec(type), type)

\* A test that would work may still fail if the relay loses messages
Outcome(works, ok, bad) ==
  \/ works /\ ok
  \/ (~ works \/ relay.loses) /\ bad

\* A round of tests with one timeout is over, and type h the best so far
EndRound(h) ==
  /\ highestworking' = h
  /\ IF h = 1 \/ timeout = Timeouts
     THEN /\ phase' = IF h = NoneWorks THEN "failed" ELSE "edns0"
          /\ do_qtype' = IF h = NoneWorks THEN "UNSET" ELSE Types[h]
          /\ UNCHANGED << timeout, qtypenum >>
     ELSE timeout' = timeout + 1 /\ qtypenum' = 1 /\ UNCHANGED << phase, do_qtype >>

\* Wrong: the last type of a round is left out.
StillInteresting_Short(n) == n + 1 < highestworking

StillInteresting(n) == n < highestworking

QtypeTest ==
  /\ phase = "qtype"
  /\ Outcome(Testable(Types[qtypenum]) /\ relay.wait[Types[qtypenum]] <= timeout,
             EndRound(qtypenum),
             IF StillInteresting(qtypenum + 1)
             THEN qtypenum' = qtypenum + 1
                  /\ UNCHANGED << phase, do_qtype, timeout, highestworking >>
             ELSE EndRound(highestworking))
  /\ UNCHANGED << relay, dnsc_use_edns0, upVars, downVars, connections >>

Edns0Check ==
  /\ phase = "edns0"
  /\ Outcome(ServerHas(Edns0TestCodec(do_qtype), do_qtype) /\ relay.edns0,
             dnsc_use_edns0' = TRUE, dnsc_use_edns0' = FALSE)
  /\ phase' = "upenc"
  /\ UNCHANGED << relay, qtypeVars, upVars, downVars, connections >>

\* The upstream codec is found; the downstream one is looked for unless it is
\* given, or the type leaves no choice
EndUpenc(c) ==
  /\ upcodec' = c
  /\ phase' = IF downenc # " " \/ do_qtype \in {"NULL", "PRIVATE"} THEN "over"
              ELSE "downenc"
  /\ UNCHANGED pattern

TryPattern(n) == pattern' = n /\ UNCHANGED << phase, upcodec >>

LastOf128 == 5

PatternWorks ==
  IF pattern = LastOf128 THEN EndUpenc("Base128")
  ELSE IF pattern < LastOf128 THEN TryPattern(pattern + 1)
  ELSE EndUpenc(IF Patterns[pattern] = "64" THEN "Base64" ELSE "Base64u")

PatternFails ==
  IF pattern <= 5 THEN TryPattern(6)
  ELSE IF pattern = 6 THEN TryPattern(7)
  ELSE EndUpenc("Base32")

UpencTest ==
  /\ phase = "upenc"
  /\ \/ relay.swaps /\ EndUpenc("Base32")
     \/ Outcome(Patterns[pattern] \in relay.up /\ ~ relay.swaps,
                PatternWorks, PatternFails)
  /\ UNCHANGED << relay, qtypeVars, dnsc_use_edns0, downVars, connections >>

EndDownenc(c) == downenc' = c /\ phase' = "over" /\ UNCHANGED << codec, best >>

\* Codec c is tried next, b being the best that worked
TryCodec(c, b) == codec' = c /\ best' = b /\ UNCHANGED << phase, downenc >>

TriesRaw == do_qtype = "TXT"

\* Wrong: a codec that failed is taken.
CodecFails_Taken ==
  IF codec = "S" THEN TryCodec("U", " ") ELSE EndDownenc(codec)

CodecFails ==
  IF codec = "S" THEN TryCodec("U", " ") ELSE EndDownenc(best)

CodecWorks ==
  CASE codec \in {"S", "U"}        -> TryCodec("V", codec)
    [] codec = "V" /\ TriesRaw     -> TryCodec("R", "V")
    [] OTHER                       -> EndDownenc(codec)

DownencTest ==
  /\ phase = "downenc"
  /\ Outcome(ServerHas(codec, do_qtype) /\ codec \in relay.down, CodecWorks, CodecFails)
  /\ UNCHANGED << relay, qtypeVars, dnsc_use_edns0, upVars, connections >>

SearchNext == ConnectAgain \/ QtypeTest \/ Edns0Check \/ UpencTest \/ DownencTest

SearchSpec == SearchInit /\ [][SearchNext]_searchVars
-----------------------------------------------------------------------------
(***************************************************************************)
(* Properties.                                                             *)
(***************************************************************************)

Works(type) == relay.wait[type] <= Timeouts

Searched == phase \notin {"qtype", "over"} /\ AskedType = "UNSET"

\* The type found works.  On a relay that loses nothing no better one does,
\* of those that can be tested: the rounds with longer timeouts find slow
\* types without losing fast ones.
BestTypeIsFound ==
  Searched =>
    /\ phase # "failed" => Works(do_qtype)
    /\ ~ relay.loses =>
         \A n \in DOMAIN Types :
           (phase # "failed" => n < highestworking) =>
             ~ (Works(Types[n]) /\ Testable(Types[n]))

Needs(c) ==
  CASE c = "Base128" -> {"128c", "128d", "128e"}
    [] c = "Base64"  -> {"64"}
    [] c = "Base64u" -> {"64u"}
    [] OTHER         -> {}

\* The upstream codec is to use only characters that come through.
UpcodecWorks ==
  upcodec # "Base32" => ~ relay.swaps /\ Needs(upcodec) \subseteq relay.up

\* The downstream codec found is to come through and iodined to have it for this
\* type; and if the relay loses nothing it is not S or U where V comes through.
\* (In the first connection of the process only: client_init leaves downenc as
\* it is, so that the next one does not look for a codec, whatever its relays.)
DowncodecWorks ==
  phase = "over" /\ downenc # " " /\ connections = 1
  /\ do_qtype \notin {"NULL", "PRIVATE"} =>
    /\ downenc \in relay.down /\ ServerHas(downenc, do_qtype)
    /\ ~ relay.loses /\ downenc \in {"S", "U"} => "V" \notin relay.down

\* The codecs settled for pass the relay, both ways: upstream all characters the
\* codec needs; downstream, in the first connection, the codec as a whole, which
\* iodined has for the type, and codecs S and U are not settled for where V would
\* do and nothing is lost.  The tests stop at the first failure and try no
\* combination (handshake_upenc_autodetect, handshake_downenc_autodetect).
CodecsWork == UpcodecWorks /\ DowncodecWorks
=============================================================================
