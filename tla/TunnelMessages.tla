--------------------------- MODULE TunnelMessages ---------------------------
(***************************************************************************)
(* What the client and iodined say to each other once the handshake is     *)
(* over: ping and data queries, and their answers (sections "Data" and     *)
(* "Ping" of doc/proto_00000502.txt), as the code writes and reads them.   *)
(*                                                                         *)
(* A packet is compressed before it is cut, and whoever puts it together   *)
(* finds out by uncompress() whether the bytes are those of one packet.    *)
(* So a byte is a cell <<packet, position>>.                               *)
(*                                                                         *)
(* Every query of the client has another name: the CMC of send_ping and    *)
(* send_chunk changes with each, and does not come round within the        *)
(* queries of a run (36 data CMCs, 65536 ping CMCs).  So "num", the number *)
(* of the query, stands for the name, for the CMC and for chunkid.  "id"   *)
(* tells the copies of one query apart that a relay sends: 0 is the first. *)
(***************************************************************************)
EXTENDS OutpacketOps

CONSTANTS MaxQueries, \* bound: the queries the client sends in a run
          MaxDups     \* bound: the copies relays make of queries

ASSUME QueryBoundAssumption ==
  /\ MaxQueries \in Nat
  /\ MaxDups \in Nat

NoId == -1            \* query.id = 0: no query

Ids   == 0 .. MaxDups
Nums  == 1 .. MaxQueries
Kinds == {"ping", "data"}

Cells == UNION {{<< p, i >> : i \in 1 .. PacketLen[p]} : p \in Packet}

CellsOf(p, from, len) == [i \in 1 .. len |-> << p, from + i >>]

\* uncompress() returns Z_OK: the bytes are those of the packet p
IsPacket(buf, p) == buf = CellsOf(p, 0, PacketLen[p])

Header(c) == [seqno |-> c.seqno, fragment |-> FragField(c.fragment)]

\* The header bytes of a query: the downstream fragment it acknowledges
\* and, in a data query, the upstream fragment it carries.
Query(num, kind, ack, up, last, data) ==
  [num |-> num, id |-> 0, id2 |-> NoId, kind |-> kind,
   ack |-> ack, up |-> up, last |-> last, data |-> data]

NoHeader == [seqno |-> 0, fragment |-> 0]

NoQuery == [Query(0, "ping", NoHeader, NoHeader, FALSE, << >>)
              EXCEPT !.id = NoId]

Held(q) == q.id # NoId

\* The two header bytes of an answer and its data.  The one-byte answer to
\* a duplicate is not one the client can decode.
Body(ack, down, last, data) ==
  [legal |-> TRUE, ack |-> ack, down |-> down, last |-> last, data |-> data]

QmemBody == [legal |-> FALSE, ack |-> NoHeader, down |-> NoHeader,
             last |-> FALSE, data |-> << >>]

Answer(num, id, body) == [num |-> num, id |-> id, body |-> body]
=============================================================================
