--------------------------- MODULE FragsizeProbe ----------------------------
(***************************************************************************)
(* handshake_autoprobe_fragsize and handshake_set_fragsize: the client     *)
(* finds out by bisection how large an answer may be, asking for answers   *)
(* of the sizes it tries, and has iodined cut its fragments accordingly.   *)
(***************************************************************************)
EXTENDS Integers

CONSTANTS Sizes,      \* the largest answers relays may carry
          ProbeTries  \* queries for one size: 3

ASSUME ProbeAssumption == Sizes \subseteq Nat /\ ProbeTries \in Nat \ {0}

FirstSize == 768          \* proposed_fragsize and range at the start
SmallRange == 8           \* a range not worth more probes ...
EnoughBytes == 300        \* ... if this much is known to work
DefaultSize == 100        \* "very safe", says iodined
Header == 2               \* of a downstream packet

(***************************************************************************)
(* carries  the relay carries answers up to this size                      *)
(* stage    the client's place; asked counts the queries for one size (i)  *)
(* fragsize users[].fragsize of iodined                                    *)
(* least    ghost: the smallest size given up; 2 * FirstSize: none         *)
(* missed   ghost: a size was given up although the relay carries it       *)
(***************************************************************************)
VARIABLES carries, stage, proposed, range, max, asked, fragsize, least, missed

probe == << proposed, range, max, asked, least, missed >>
probeVars == << carries, stage, fragsize, probe >>

ProbeInit ==
  /\ carries \in Sizes
  /\ stage = "probing"
  /\ proposed = FirstSize /\ range = FirstSize /\ max = 0 /\ asked = 1
  /\ fragsize = DefaultSize
  /\ least = 2 * FirstSize /\ missed = FALSE
-----------------------------------------------------------------------------
\* Wrong: rounded up.
Half_Up(r) == (r + 1) \div 2

Half(r) == r \div 2

\* Wrong: the probing stops on a small range alone.
Continues_Unless(r, m) == r >= SmallRange

Continues(r, m) == r > 0 /\ (r >= SmallRange \/ m < EnoughBytes)

\* Sizes up to 2 have no room for data
Usable(m) == m > Header

\* One size is done with, and m is the largest that works
NextSize(m) ==
  LET r == Half(range)
  IN  /\ max' = m
      /\ range' = r
      /\ proposed' = IF m = proposed THEN proposed + r ELSE proposed - r
      /\ asked' = 1
      /\ stage' = IF Continues(r, m) THEN "probing"
                  ELSE IF Usable(m) THEN "set" ELSE "failed"

\* fragsize_check: the answer has all its bytes, none of them changed
IsRight(size) == size <= carries

ProbeRight ==
  /\ stage = "probing"
  /\ IsRight(proposed)
  /\ NextSize(proposed)
  /\ UNCHANGED << carries, fragsize, least, missed >>

\* The answer is shorter, or corrupted, and the size is out
ProbeWrong ==
  /\ stage = "probing"
  /\ proposed > carries
  /\ NextSize(max)
  /\ least' = proposed
  /\ UNCHANGED << carries, fragsize, missed >>

\* The third byte is not 107: something is wrong with the codec
ProbeHopeless ==
  /\ stage = "probing"
  /\ proposed > carries
  /\ max' = -1
  /\ stage' = "failed"
  /\ UNCHANGED << carries, proposed, range, asked, fragsize, least, missed >>

\* No answer, an error, a refusal, or an acknowledgement of another size
ProbeLost ==
  /\ stage = "probing"
  /\ \/ /\ asked < ProbeTries
        /\ asked' = asked + 1
        /\ UNCHANGED << stage, proposed, range, max, least, missed >>
     \/ /\ asked = ProbeTries
        /\ NextSize(max)
        /\ least' = proposed
        /\ missed' = (missed \/ proposed <= carries)
  /\ UNCHANGED << carries, fragsize >>

Probing == ProbeRight \/ ProbeWrong \/ ProbeHopeless \/ ProbeLost

\* Wrong: the header is forgotten.
RequestedSize_Whole == max

\* The size in the 'N' request
RequestedSize == max - Header

\* The request arrives at iodined, which refuses sizes below 2
SetFragsize ==
  /\ stage \in {"set", "tunnel"}
  /\ fragsize' = IF RequestedSize < 2 THEN fragsize ELSE RequestedSize
  /\ UNCHANGED << carries, stage, probe >>

\* handshake_set_fragsize has an answer, whatever it says, or tried in vain
SetDone ==
  /\ stage = "set"
  /\ stage' = "tunnel"
  /\ UNCHANGED << carries, fragsize, probe >>

ProbeNext == Probing \/ SetFragsize \/ SetDone

ProbeSpec == ProbeInit /\ [][ProbeNext]_probeVars
-----------------------------------------------------------------------------
(***************************************************************************)
(* Properties.                                                             *)
(***************************************************************************)

\* Every size asked for fits the 11 bits of a probe, and was not asked for
\* before: it lies above all that worked and below all that did not.
EveryProbeTells ==
  stage = "probing" => max < proposed /\ proposed < least /\ proposed < 2048

Found == stage \in {"set", "tunnel"}

\* If no size was given up wrongly, then what the client settles for is what
\* the relay carries, or one byte less; from 300 bytes on, where it stops
\* early, less than 12 bytes; and never more.
ResultIsClose ==
  Found =>
    /\ max <= carries
    /\ ~ missed /\ carries < EnoughBytes => carries <= max + 1
    /\ ~ missed /\ carries < 2 * FirstSize => carries < max + 12

\* iodined cuts fragments that the relay carries with their header, unless it
\* was not told a size it accepts.
FragmentsFit == fragsize # DefaultSize => fragsize + Header <= carries
=============================================================================
