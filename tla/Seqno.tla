------------------------------- MODULE Seqno -------------------------------
(***************************************************************************)
(* Packet sequence numbers and fragment numbers as they travel in the      *)
(* two-byte and four-character headers of the tunnel: a packet has a       *)
(* three-bit sequence number, a fragment of it a four-bit number.          *)
(***************************************************************************)
EXTENDS Integers

SeqCount  == 8    \* "& 7": the sequence number has three bits
FragCount == 16   \* "& 15": the fragment number has four bits
RecentSpan == 4   \* the loop of recent_seqno runs four times

Seqnos    == 0 .. SeqCount - 1
FragNos   == 0 .. FragCount - 1

\* (seqno + 1) & 7
NextSeqno(s) == (s + 1) % SeqCount

\* The value of a counter as the four-bit field of a header shows it.
FragField(f) == f % FragCount

(***************************************************************************)
(* recent_seqno: 1 iff gotseqno is the current number or one of the three  *)
(* before it, counting down from 0 to 7.                                   *)
(***************************************************************************)
recent_seqno(ourseqno, gotseqno) ==
  \E back \in 0 .. RecentSpan - 1 :
    gotseqno = (ourseqno - back) % SeqCount
=============================================================================
