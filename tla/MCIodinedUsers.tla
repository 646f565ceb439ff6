--------------------------- MODULE MCIodinedUsers ---------------------------
(***************************************************************************)
(* IodinedUsers for TLC: two users and the server in a network of eight    *)
(* addresses, which the server may have in any place; it serves from the   *)
(* place between the users.                                                *)
(***************************************************************************)
EXTENDS IodinedUsers

CONSTANTS p1, p2

MCPacketLen == [p \in Packet |-> IF p = p1 THEN 1 ELSE 2]

\* All packets go to the first user, so that they queue there.
MCDestination == [p \in Packet |-> 1]

\* The first and the third client use DNS, the second one tries raw mode.  Two
\* queries come from two sessions, or one from three.
MCBound ==
  /\ Len(sessions) + Len(askers) <= 4
  /\ Len(sessions) = 3 => \A u \in User : users[u].seed = 3 => users[u].idle = 0
  /\ sessions # << >> => my = 2
  /\ \A n \in DOMAIN sessions :
       sessions[n].phase \in IF n = 2 THEN {"login", "trying", "raw", "fallback"}
                             ELSE {"login", "dns"}

\* Clients take the answer to their login at once; UserTable has them wait.
MCNext ==
  /\ Next
  /\ (\E n \in DOMAIN sessions :
        sessions[n].phase = "login" /\ << "login", n >> \in replies) => sessions' # sessions

MCSpec == Init /\ [][MCNext /\ MCBound']_vars

\* What further steps can depend on: of a query that is held its name and ids,
\* and nothing of the ghosts of UserTable (the comparison is there to have TLC
\* evaluate them all the same)
Name(q) == << q.num, q.kind, q.id, q.id2 >>

Core(box) == [box EXCEPT !.q = Name(box.q), !.soonq = Name(box.soonq)]

MCView == << initVars, users, sessions, replies, [u \in User |-> Core(boxes[u])],
             Name(left), coming, meant, askers, << quiet, met, boxes >> = << >> >>
=============================================================================
