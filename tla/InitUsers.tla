----------------------------- MODULE InitUsers ------------------------------
(***************************************************************************)
(* init_users of iodined: how the users get their addresses in the tunnel  *)
(* network, around the address of the server.  Addresses are counted from  *)
(* that of the network; they stay in the last octet, so that the sums of   *)
(* the code do not carry.                                                  *)
(***************************************************************************)
EXTENDS Integers

CONSTANTS USERS,      \* size of the table at most
          NetSizes    \* sizes of networks: 2^(32 - netbits)

\* main refuses more than 30 bits, and user ids have to fit their headers
ASSUME NetAssumption ==
  /\ NetSizes \subseteq {n \in Nat : n >= 4}
  /\ USERS \in 1 .. 253

(***************************************************************************)
(* size and my, the size of the network and the server's place in it, are  *)
(* the arguments; turn (the i of the code), skip and tun_ip are what the   *)
(* loop changes.                                                           *)
(***************************************************************************)
VARIABLES size, my, turn, skip, tun_ip

initVars == << size, my, turn, skip, tun_ip >>

\* All of the network but its own, its broadcast and the server's address
UsersIn(net) == IF net - 3 <= USERS THEN net - 3 ELSE USERS

User == 0 .. UsersIn(size) - 1

LoopInit ==
  /\ size \in NetSizes
  /\ my \in 0 .. size - 1
  /\ turn = 0 /\ skip = 0
  /\ tun_ip = [u \in User |-> 0]

\* Wrong: the server's address is stepped over, but not the ones after it.
SkipAt_Forgotten(u) == IF u + 1 = my THEN 1 ELSE 0

\* skip after user u got an address: one more if it would be the server's
SkipAt(u) == IF u + skip + 1 = my /\ skip = 0 THEN skip + 1 ELSE skip

\* One turn of the loop
Assign ==
  /\ turn < UsersIn(size)
  /\ skip' = SkipAt(turn)
  /\ tun_ip' = [tun_ip EXCEPT ![turn] = turn + SkipAt(turn) + 1]
  /\ turn' = turn + 1
  /\ UNCHANGED << size, my >>
-----------------------------------------------------------------------------
\* Wherever the server sits in its network, no user is given its address, nor
\* the first or the last of the network, and no two users share one: then
\* find_user_by_ip, which takes the first it finds, finds the right one.
EveryUserHasItsAddress ==
  \A u \in User : u < turn =>
    /\ tun_ip[u] \in 1 .. size - 2
    /\ tun_ip[u] # my
    /\ \A v \in User : v < turn /\ tun_ip[v] = tun_ip[u] => v = u
=============================================================================
