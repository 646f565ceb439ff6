# A TLA+ model of andiodine

andiodine is an Android app that carries IP packets inside DNS queries. It
wraps iodine: a client (`src/jni/iodine/src/client.c`, driven on Android by
`src/jni/iodine-client.c` and `IodineVpnService.java`) and a server
(`iodined.c`). Between the two there are DNS relays that neither of them
controls. This directory holds TLA+ modules translated from that code, the
configurations under which TLC checks them, and theorems that TLAPS proves.

`D:` below is `src/jni/iodine/src/iodined.c`, `C:` `src/jni/iodine/src/client.c`,
`U:` `src/jni/iodine/src/user.c`, `N:` `src/jni/iodine-client.c`, `J:`
`src/src/main/java/org/xapek/andiodine/IodineVpnService.java`.

## 1. Inventory

| component | state | operations | what makes it correct |
|---|---|---|---|
| **Downstream packet and queue** of a user (D:243-316, 523-615, 697-733) | `outpacket`, `outfragresent`, ring `outpacketq` with `nexttouse`, `filled` | start, enqueue, dequeue, process an ack, cut and send the next chunk, give up, set the fragment size | the packets form a bounded FIFO line; no byte is skipped; an ack never matches the wrong fragment; every packet leaves |
| **Tunnel phase of the server** (D:399-521, 1140-1491, 1633-1858) | `q`, `q_sendrealsoon`, `q_sendrealsoon_new`, `inpacket`, `dnscache`, `qmemping`, `qmemdata` | a ping, a data query, a packet from tun, an iteration of the select loop | upstream packets are put together once, whole and in order; a query the server took is answered; nothing is put off for long |
| **Tunnel phase of the client** (C:253-425, 755-1209) | `outpkt`, `outchunkresent`, `inpkt`, `chunkid`, `send_ping_soon` | a packet from tun, an answer, a timeout | likewise downstream; a packet counts as delivered only if it is |
| **Sequence and fragment numbers** (`common.c`:469-482, headers) | none | `recent_seqno`, the three- and four-bit fields | a late message is told from a new one |
| **DNS relays** (external) | messages under way | lose, delay, reorder, repeat | what the code assumes of them |
| **Android VPN service and native flags** (J:101-405, N:88-196) | `mThread`, `mConfiguration`, `currentActionStatus`, `running`, `request_disconnect` | connect, disconnect, revoke, create, destroy; the run of a connection | one connection at a time; a disconnect ends it; the status broadcast is true |
| User table (U, D:735-1106, 1861-1990) | `users[]`: active, authenticated, host, `last_pkt`, conn, seed | version handshake, login, raw login, expiry, `check_user_and_ip` | two clients never own a slot together; nobody is served without having logged in |
| Handshake (C:1211-2483, D:735-1139) | codec, `downenc`, lazy mode, fragment size on both ends | 'V' 'L' 'S' 'O' 'R' 'N' 'Y' 'Z' 'I' requests and their retries | both ends agree on every parameter |
| Raw UDP mode (D:1861-1990, C) | `conn`, `authenticated_raw` | raw login, data, ping | the switch happens at both ends or at none |
| Several users of one server (U:59-164, D:618-663, 1633-1858) | `tun_ip` of every user, and all of the above for each | give out addresses; find a user by address; pass a packet on from one user to another | addresses are not shared; a slot that passes on keeps nothing of its last owner; a packet goes out on a query at hand, wherever it comes from |
| Forwarded queries (`fw_query.c`, D:1535-1631) | ring `fwq`, `fwq_ix` | put, get | an answer goes to whoever asked |
| Encoders (`base32.c`, `base64.c`, `base128.c`, `encoding.c`) | none | encode, decode, `build_hostname`, dotify | decoding inverts encoding, and both sides count alike where data is cut to fit |
| DNS messages (`dns.c`, `read.c`, D:2043-2198, C:468-669) | none | names; answers of each type; referrals | what is read was written, whatever records are lost or change places; every name is legal |
| Login hash, tun device, system glue | — | hashing, I/O | no state of the protocol |
| Android user interface, configuration database | an SQLite table | views, intents | not modelled; its intents are inputs of the service |

**How they interact.** The client and iodined are single threads around a
`select()`; within one iteration nothing interleaves. They share nothing but
messages: the client asks (a ping, or a data query that carries an upstream
fragment and acknowledges a downstream one), the server answers (an ack and
possibly a downstream fragment), in lazy mode when it has something to say.
Relays ask again with other ids when the answer takes long, which is why the
server keeps a cache of answers, a memory of queries, and a second id next to
each query it holds. The users of a server meet in its table, whose slots pass
from one to the next, and where one sends the other a packet. On Android the
client runs on a thread of the VPN service; the main thread stops it by two flags without any lock.

**What is hard here.** Messages lost, late, repeated and overtaking one another
against three-bit sequence numbers; retries racing late answers; the two places
for queries the server has to juggle; counters wider than the fields that show
them; a ring at its limit; data cut to fit names, records and labels; slots that
change hands while messages to their last owner are under way; and on Android,
fields shared without synchronization, with a stop that arrives while the connection is being made.
`PROJECT.json` lists each hazard at its line with the properties aimed at it.

## 2. Plan

In this order; all but the last are done.

1. `Seqno`, `OutpacketOps`, `Outpacket` with the abstract `PacketFifo`; proofs.
2. `TunnelMessages`, `IodinedUserOps`, `IodineClientOps`, composed by `Tunnel`
   with the relays; abstract `LossyLine`.
3. `VpnService`; proofs.
4. `UserTable`: slots, version handshake, login, raw login, the 60 seconds and
   their boundary, `check_user_and_ip`; proofs.
5. `FwQuery`: the ring, its stale ids and empty slots; proofs.
6. `Handshake`, `Autodetect`, `FragsizeProbe`: the requests with their retries
   over lossy relays and what the two ends agree on, also after
   `handshake_lazyoff`; the tests of the relays; proofs.
7. `BaseCodec`, `Hostnames`, `DnsAnswers`, `DnsMessages`: data in names and in
   answers; proofs about the codecs.
8. `InitUsers`: the addresses of the users; proofs.
9. `IodinedUsers`: all users of one server, by composing `InitUsers`,
   `UserTable` and `IodinedUserOps`, with raw mode as one of their ways; proofs.
10. Proofs about `Tunnel`: what one iteration of iodined promises, whatever
   client and relays do; then what relates both ends, from an invariant for each
   direction that says of every message under way what it may be about.
11. `Tunnel` with a smaller sequence space, to show what the bound on the
    relays' delay is worth: open.

Theorems still worth proving: those about the packets to the client for longer
lines than section 5 has them; that a name built by `build_hostname` is at most
255 bytes long.

## 3. The modules

| module | models |
|---|---|
| `Seqno` | field widths, `NextSeqno`, `recent_seqno` |
| `OutpacketOps` | the functions on `outpacket` and `outpacketq`, from a record to a record; a packet is a model value with a length |
| `Outpacket` | these as a state machine, with every ack a header can carry and every fragment size, in any order. `covered` is a ghost: the bytes put on the wire |
| `PacketFifo` | abstract: a bounded line, in at the end, out at the front |
| `OutpacketProofs` | theorems about `Outpacket`, the refinement of `PacketFifo` among them |
| `TunnelMessages` | queries, answers, bytes |
| `IodinedUserOps` | the handlers of iodined for one user |
| `IodineClientOps` | the handlers of the client |
| `OperatorProofs` | lemmas about the operators of `OutpacketOps` and `IodinedUserOps`, and theorems about `BaseCodec` |
| `Tunnel`, `TunnelProofs` | both select loops and the relays |
| `LossyLine` | abstract: what arrives was sent, whole and in order, once or, if it is one of those in `again`, several times in a row |
| `VpnService`, `VpnServiceProofs` | the Android service and the native flags |
| `UserTable`, `UserTableProofs` | `users[]` with who owns a slot, logins, raw mode and silence; the clients as far as the server can tell |
| `FwQuery`, `FwQueryProofs` | `fwq`, `forward_query`, `tunnel_bind` and a local DNS server |
| `Handshake` | `client_handshake` after the query type is found, the handlers of its requests, `handshake_lazyoff` and the counters of `send_query` |
| `Autodetect` | what `client_handshake` finds out about the relays: type, EDNS0, codecs |
| `FragsizeProbe` | `handshake_autoprobe_fragsize`, `handshake_set_fragsize` |
| `HandshakeProofs` | theorems about `Handshake`, `Autodetect` and `FragsizeProbe`, which it extends together and whose definitions therefore have different names |
| `BaseCodec` | the encoders: groups of 5, 6 and 7 bits, and where a text has to end |
| `Hostnames` | `encoding.c`, and names in messages |
| `DnsAnswers` | `write_dns` and the ways of an answer back to data |
| `DnsMessages` | three conversations over these: a name server asks, the client sends, iodined answers |
| `InitUsers` | `init_users`, one turn of its loop a step |
| `IodinedUsers`, `IodinedUsersProofs` | `tunnel()` of iodined with all its users |
| `MC...` | packets, lengths, relays, names and bounds for TLC |

*How they are composed.* `Tunnel` calls the operators of `IodinedUserOps` (over
`OutpacketOps`) and `IodineClientOps` and keeps the messages between them.
`IodinedUsers` extends `InitUsers` and takes `UserTable` as an INSTANCE for the
table; the same `IodinedUserOps` work on one record for each user.
`DnsMessages` extends `DnsAnswers`, `Hostnames` and `BaseCodec`.

*Data.* A compressed packet is a sequence of cells `<<packet, position>>`, so
that `uncompress()` succeeds exactly on the bytes of one packet in their order.
A query's name (its data, header and CMC) is unique among the queries of a run,
so its number stands for the name, the CMC and `chunkid`; the id under which a
relay sends a copy is a small number of its own. Timers are not measured: any
`select()` may time out. Packets of other users, whose handlers touch nothing
of this one, appear as `IodinedIdle`. In `UserTable` a seed is the number of
its session, so that no two are equal, and a login hash matches exactly if it
was computed from that seed: what the code relies on `rand()` and MD5 for. Time
is the age of `last_pkt` in ticks. In `Handshake` the last `MaxLag` queries of
the client are kept with the answers they have been given: each may arrive
again, in any order, and only the latest can be answered in time, since
`handshake_waitdns` looks at no other. In `Autodetect` a test with its
repetitions is one step, because iodined remembers nothing of it. In
`IodinedUsers` messages are not kept between steps: the clients are arbitrary,
and a query of any session may arrive with any header at any time.

In `BaseCodec` and the modules over it data is the sequence of its bits, which
are numbers of their own, so that each can be told from all others; a character
is the group of bits it stands for, and letters that carry no data are marked
as such. Thus text is compared bit by bit, and no alphabet is needed: only that
each has no letter twice.

*Steps.* In `Outpacket` one function call is a step. In `Tunnel` and
`IodinedUsers` one iteration of a select loop is a step, from `LoopHead` to `LoopEnd`: both programs are
single threads. In `VpnService` every access to a field that two threads share
is a step. In the other modules a message handled by iodined, or an answer
or a timeout handled by the client, is a step.

*Wrong versions.* A definition whose name ends in `_Something` and whose comment
begins with "Wrong:" is the definition after it with a mistake in it. No
specification uses it. `PROJECT.json` names for each property one such mistake
that TLC finds when it is put in the place of the right definition.

## 4. The runs

| run | question | bounds |
|---|---|---|
| `outpacket` | FIFO line, no byte skipped, slots and ring consistent; the fragment counter beyond 15, and that every packet leaves | either packets of 1 and 3 bytes with fragment sizes 1 and 2 (a packet that fits, one that does not, one that changes from one to the other while under way), or one packet of 18 bytes in fragments of 1; ring of 2, so that it wraps and overflows; resend limit 1 |
| `tunnel` | each direction: at most once, in order, no hole behind an ack; a packet does not wait beside a query; acks and the fate of every query when both directions are busy | lazy mode, a packet of 1 and one of 2 fragments in one direction or the other, 5 queries; or a packet of 2 fragments each way, in lazy mode with 4 queries and in legacy mode with 3; one query repeated; relays that delay up to 2 queries |
| `vpn_service` | one thread, the configuration, the status, in every interleaving; a stop past `connect()`'s reset ends the connection | 2 connections, 2 instances of the service, so that a connection can meet the end of an earlier one and the thread of a destroyed service |
| `vpn_disconnect` | violated, see section 6 | 2 connections, 1 instance |
| `fw_query` | an answer goes to whoever asked | a ring of 3, 3 ids with 0 among them, 2 askers, 5 queries: the ring wraps and ids repeat |
| `user_table` | who may use a slot, and that a full server does not stay full | 2 slots, 3 sessions so that slots change hands, 2 hosts, one tick for the minute, so that a message comes in time, just in time or too late; one name of tunnel queries, new to a slot or repeated |
| `handshake` | what both ends agree on, that nothing is given up where everything is answered, and that it ends | 1 connection; a perfect line, and a poor one that loses and repeats the last 2 queries and whose server refuses some because they came another way; 2 tries, counters that reach their limits |
| `handshake_again` | violated, see section 6 | 2 connections with the code's own limits (5, 6, 10, 100) on a perfect line |
| `fragsize_probe` | the bisection | 22 sizes, next to every number that the code compares with, and beyond the range of the probes |
| `autodetect` | what is chosen works and is best, and is found anew by a second connection | every relay by which types it carries at once, slowly or never; every relay by its patterns and codecs, for TXT and A, lossy or not; then one of 3 other ways |
| `dns_messages` | data through names and answers, and referrals | the shortest top domain there may be (3 characters), a usual one and the longest (128); names of 255 bytes and all the shortest ones (13 to 40); packets of 1, 150 and 1147 bytes, pings and logins; every codec; answers of every type with sizes around what a name, a list of two and a list of many hold, up to 2047 bytes; one record lost, the others as sent, reversed or rotated |
| `iodined_users` | addresses; slots that change hands; packets from tun and between users, in DNS and in raw mode | 2 users and the server in a network of 8, where the loop runs for every place of the server and the server then serves from place 2; 3 sessions and 2 queries, of which at most 4 in all (`MCBound`); packets of 1 and 2 fragments, both to one user, so that they queue. That no user gets the broadcast address is not at stake with 2 users in this net, which never come so far: for that there is the theorem `AddressesAreRight` |

The code's resend limits (5 at the server, 3 at the client) are 1 in the runs,
the cache (4) is 1 and the query memories (30 and 15) are 2, or 1 in
`iodined_users`: small enough that every one of them runs out within the bounds. The theorems of section 5 do not
depend on these numbers. Where the code's ring has 4 places the runs have 2 or 1.

*`dns_messages`.* 1147 bytes is the most that zlib makes of a packet of the
tunnel's mtu of 1130 and the 4 bytes of the tun header; in base32 under a top
domain of 128 characters a name holds 73 bytes of it, and the 16 fragments that
a header can number hold 1168. `EveryNameGetsOn` would see a packet that needs
one more. Names come to exactly 255 bytes in the run. Requests are sent before
any limit on names is known; the sizes of answers end at the 11 bits of a
fragment size.

*`iodined_users`.* The first and the third session stay with DNS and the second
tries raw mode; the third, which takes over a slot, is not followed into its
own silence; two queries come from two sessions, or one from three. Clients
take the answer to a login at once (`UserTable` has them wait). `MCView` leaves
out what no further step depends on: the ghost `quiet`, and of a held query
everything but its name and ids. Answers and packets that were sent are not
kept, so what the run adds to `tunnel` is the crossing of users, slots and
modes; several fragments under way in both directions are left to `tunnel`.

*What is assumed of relays.* `MaxLag`: a message is delivered before the client
has sent `MaxLag` further queries, or never. Three-bit numbers with a window of
four make some such bound necessary: after eight packets an old ack looks like
a new one. `MaxQueries` stays below 13, the number of queries without enough
answers after which `send_query` switches lazy mode off, and far below the 36
data queries after which the CMC comes round. `Scenarios` says which
packets are read from either tun device, and which mode the handshake has agreed
on (`LazyAgreed` of `Handshake`).

*The handshake's limits* (5 tries, 6 queries without an answer, 10 with too few,
100 counted) are 2, 2, 3 and 4 in `handshake`, so that each is reached;
`handshake_again` has the real ones.

*What is assumed in `UserTable`.* Nothing of relays: a message may come at any
time after its client could first send it, any number of times, from any host.
A client's phases follow `client_handshake`. Tunnel queries (pings and data)
are told apart as the caches do it, which compare type and name, or of a name
only the part with the CMC: `QueryName` stands for what is compared. `known`
holds the ones a slot may still take for copies, because it holds them (`q`,
`q_sendrealsoon`) or remembers them (`dnscache`, `qmemping`, `qmemdata`); it is
an upper bound, since these caches also forget: a query in it may be handled
either way, one that is not in it is always new. `IodinedUsers`, which has the
caches themselves, stays within it (`RecognizedIsKnown`). The new query sets
`last_pkt`, the copy does not (D:1165-1213, 1295-1341). The ghost `met` has the
names a slot was asked since it was granted, so that `ActiveSlotIsKept` can call
a query new without asking iodined. `Activity` says which messages count as use
of a slot: logins, new tunnel queries and raw messages, and not the other
requests and the copies, which `find_available_user` does not see.

*Deadlock* is checked except where the system really may stop: in `VpnService`,
where the process may die and the number of connections is bounded; in
`FragsizeProbe`, `Autodetect` and `DnsMessages`, which are over when a size, a
type and codecs, or the end of a conversation is reached.

*Fairness.* `Outpacket`: `QueriesKeepComing`, which is weak fairness of `Send`
written out (`Send` is enabled exactly while a packet is being sent), in a form
that TLC checks faster; since a client that lives sends a query every
`selecttimeout` seconds at the latest and the server
answers every query but the one it holds; nothing is assumed of
acknowledgements. `VpnService`: weak fairness of the steps inside a callback,
and of each thread's own steps; every wait of the native client is a `select()`
with a timeout. Not assumed: that the user does anything, that the tunnel dies
of silence. `InterruptIsObeyed` is stated as long as there is a single instance
of the service: a second one may start a connection that resets `request_disconnect` while the
first one's thread is still in native code. `UserTable`: weak fairness of
`Tick`, for time goes on; nothing is assumed of clients, and a slot whose client
goes on is not promised to anyone. `Handshake`: weak
fairness of the client's steps in the handshake, since every wait is a
`select()` with a timeout; `HandshakeEnds` is stated of poor lines, for on a
perfect one the client never times out. A relay that sends late answers in all eternity could
restart that timeout (C:685-711); fairness of the client's steps excludes it,
as relays repeat finitely often.

## 5. The proofs

All theorems hold for every value of the constants that satisfies the
assumptions named in the modules, where they say what kind of value a constant
is; in particular for every number of users, sessions, queries, packets, tries
and retries, and for every resend limit, queue and cache. Some assumptions say
more than that: `LimitAssumption` that the queue has a place;
`NumberAssumption` that a request is tried twice (the code tries 5 times) and
that `MaxLag` is at least 2, as lazy mode has two queries under way;
`CodecAssumption` that no codec is called like iodined's refusal;
`NetAssumption` and `UsersAssumption` that a network has room for the server and
that there are as many places as `init_users` fills; and `ClientAssumption` that
`MaxQueries` is below 13, as explained in section 4. Some theorems have a
hypothesis of their own: `ActiveSlotKept` that `"request" \notin Activity`
(section 6); `FirstIsLazy` that both limits of `send_query` are at least 2
(they are 6 and 10); those about `Tunnel` that relate both ends that
`MaxLag < RecentSpan` upstream, and downstream that fewer than `RecentSpan`
packets come in by the server's tun device. The instances of the runs satisfy
all of them; why the last two are needed is said under `TunnelProofs`.

**`OutpacketProofs`.** The invariants of `Outpacket` are not inductive by
themselves: that no byte is skipped needs that `offset + sentlen` stays within
the packet and that everything below it is in `covered`; that the counters stay
bounded needs that an ack can match a fragment below 16 only; that the queue is
right needs that the slots between `nexttouse` and `nexttouse + filled`, with
the wrap, hold packets. `GoodOut` collects what is true of the record, `IInv`
adds the ghost. One lemma for each function of the code shows that it takes a
good record to a good one (`StartGood`, `SaveGood`, `GetGood`, `AckGood`,
`DropGood`, `CutGood`, `SendGood`); the handlers are compositions of these, and
`StepInductive` has one case for each action.

Its second part proves `Spec => Fifo!Spec`, with the line that is the current
packet followed by the ring in its order. Each function maps to joining the
line, leaving it at the front, or a stutter; a step of
`send_chunk_or_dataless` may take two packets off the front (one given up, the
next sent whole).

**`OperatorProofs`.** What the handlers of iodined make of a user's record, for
use in the next two. `GoodUser` is the type of the record with `GoodOut`;
`Prompt` says that a packet that has not gone out at all does not wait beside a
held query, and that where two queries are held, which are different ones,
there is no packet. The second half is what the first needs to be inductive:
`handle_null_request` sends on the query put off before it takes the new one,
and could leave a fresh packet beside the other. `Carries` says that a record
keeps or answers every copy of a query that the one before it had, and takes
packets only from those waiting before. There is a lemma for each piece of a
handler (`HandlePing`, `HandleData` with its four ways on, `tunnel_tun`, the
20 ms timeout), and one for each handler.

**`TunnelProofs`.** `TunnelInvariant` is `GoodUser` and `Prompt` of the server,
`GoodClient` of the client and the types of what is under way; `IodinedIterates`
says of one iteration of the select loop, with its up to two events, that both
hold again (`NothingWaitsBesideQuery`), that every copy of a query held or taken
is held, answered, or the second copy of a query that gives way to a third
(`QueriesAreNotDropped`: `save_to_qmem` has room for one other id), and that the
query put off is not the one put off before (`PutOffOnlyOnce`). Nothing is
assumed of relays there but that an answer they would no longer deliver
(`MaxLag`) counts as given.

*Packets to the server.* Numbers of three bits say too little for an invariant,
so that the proof gives each end a history, `h`: the packets the client has
sent so far (`sent`), how many of them inpacket of the server has been about
(`at`), and which was written last (`wrote`). It is no variable: the invariant
is `\E h : UpInv(h)`, and each step says which history comes next (`UpMoves`).
`UpInv` says of every query that it carries the bytes of its fragment of its
packet, and that each packet the client has begun since cost it a query of its
own (`Carried`); as a query under way is no more than `MaxLag` behind, its
packet is so little behind the server's that `recent_seqno` tells it from a new
one (`RecentLooksOld`): that is what `MaxLag < RecentSpan` is for. A packet the
server has no part of cost the client two queries and more (`ClientOut`,
`Ready`), so that within `MaxQueries` their numbers do not come round. Of every
answer under way, of those in the cache and of the client's acks it says which
packet of `sent` they acknowledge and that the server has had the fragment
(`UpBody`, `Acks`). One lemma for each handler of either side shows that it
keeps its part; `ClientStepUp` and `IodinedNextUp` put them together. From it
follow `AcknowledgedFragmentsAreHeld`, `AcknowledgedPacketsAreDelivered` and,
as each step of the server writes nothing or the packet after those written,
`UpstreamIsAnIpLink`.

*Packets to the client.* Again with a history: the packets that came into
outpacket or its queue (`line`; those that found the queue full are not in it),
and how many of them outpacket has had (`at`). `DownInv` says of outpacket that
the client has had the fragments before the present one (`OutIs`); of the
client that it has a part of packet `inp.seqno`, all of it, or nothing, and
that what it wrote last lies before (`ClientHas`, `ClientSkipped`); of every
answer, on its way or in the cache, that it is a fragment that was sent, and
not before the one preceding it had arrived (`DownBody`); of every query that
it acknowledges nothing the client is not or was not at (`DownQuery`). All of
this only grows with the steps of either side (`Further` for the server,
`Grows` for the client), so that what was true of a message when it was sent
stays true of it; a fragment that the client appends therefore continues what
it has (`DataFits`), and an ack that iodined counts is of the fragment it sent
last (`AckIsOfThis`). `AcknowledgedMeansDelivered`, for both directions, and
`DownstreamIsAnIpLink` follow.

In this direction the bound on the relays' delay is not enough. iodined gives a
packet up after its resends, and sends one that fits into a fragment only once,
so that any number in a row may be lost with their answers. After four the
client takes the next for an old one (`recent_seqno`, `common.c`:469); after
seven the ack of packet 1 that the client repeats is of packet 9 as well, and
`AckedMeansDelivered` is false: TLC finds such a behaviour for a line of nine
packets, of which the first and the last have two fragments, without resends,
with 12 queries and relays that only lose. The theorems are therefore about
lines of fewer than `RecentSpan` packets, whose numbers all look as old as they
are, of any length and in any number of fragments, with packets in the other
direction as many as there may be.

**`IodinedUsersProofs`.** `LoopInvariant`: `skip` is 1 exactly if the server's
address lies among those passed already, and users have the addresses in order
but for that one; `AddressesAreRight` follows for every size of network and
every place of the server. `TableGood` keeps the seeds of slots apart.
`BoxesGood` says of every user's record that the packets waiting in it were
accepted for the slot's owner, that every query it remembers was one of the
owner's (in DNS mode; section 6 says what raw mode leaves), and that it is
`Prompt`. What makes it inductive: packets not yet accepted are in no record,
numbers of queries not yet asked are remembered nowhere, and what
`handle_version` clears is everything that could name an earlier owner
(`EmptiedGood`). `SlotsAreHandedOverClean` and `NobodyWaitsBesideQuery` follow,
and `RecognizedIsKnown`: what a record in DNS mode can take for a copy is among
what `UserTable`, the instance beside it, says that the slot knows.

**`VpnServiceProofs`.** `IInv` adds to the type invariant that threads are
started in order, that a thread that runs has its service, that
`mThread` is the connection that is active (`FieldIsThread`), and that between
the test in `onReceive` and `mThread = new Thread` the field stays null
(`TestedIsTrue`): the reason why the unsynchronized test suffices. Steps that
do not touch these fields are collected in one lemma (`Harmless`).
`OnlyThePast` and `StatusIsSettled` are proved from it with their own case
analyses.

**`FwQueryProofs`.** The invariant says which query is in which slot, counted
back from `fwq_ix`: the one before it holds the last query, and so on around
the ring, and slots never written are empty. Hence the last `Size` queries are
all there, each once, and the first slot with an id that is alone among them is
the right one.

**`UserTableProofs`.** `GoodSlot` adds to the properties what ties a slot to its
session: a slot in use has the seed of a session granted there, and its flags
say exactly which logins of this session were confirmed. A slot given away gets
a seed that no reply names yet, which is why late messages of its last owner
find nothing of theirs. `ActiveSlotKept` needs that `quiet` is never behind
`idle` (`QuietOK`): what sets `last_pkt` without being the owner's use, such as a
login with a wrong password, keeps the slot all the longer. And it needs that
in DNS mode a slot knows only queries it has met since it was granted
(`MemoryOK`): this is what the clearing of `q`, `dnscache` and the two `qmem` by
the version handshake is for, without which a new owner's queries could be taken
for copies of the last owner's and would not keep the slot.

**`HandshakeProofs`, the two ends.** `AgreesOnLazy` and `AgreesOnCodec` need to
know what the answers still to come can say. `IInv` therefore speaks of each of
the recent queries and of every answer given to it (`QueriesSound`): a query
for a codec was sent after the upstream tests and with the codec these found,
and if it has an answer other than a refusal the slot decodes with it; a query
for lazy mode that has said yes has a slot in lazy mode, unless a later one has
switched it off, which only a client that has left lazy mode sends. Of the latest
query (`LastSound`), the only one that `handshake_waitdns` accepts an answer to,
it says in addition that the client has not changed its mind since, and that a
slot it was given with "VACK" has not been used by anybody. Without losses
(`Perfect`) no codec is refused, and a second try is made only because
`handshake_lazyoff` took the answer's place, once. `IInv` is inductive with one lemma
for each handler of either side.

`FirstIsLazy` is about the counts of `send_query`, which are to tell a bad line
from a good one: in the first connection they are off until the tunnel begins,
and from then on the queries counted exceed the answers counted by at most the
pings among the last two queries that wait (`Counted`); so with limits of 2 and
more they never tell a line that answers everything for a bad one. In later
connections this is false: `handshake_again`.

**`HandshakeProofs`, the tests of the relay.** `AutoInv` has a part for each
search. In a round of the search for a type nothing tried so far worked within
the present timeout, and `highestworking` works (`Rounds`), so that, when the
rounds end, no better type works at all (`TypeFound`); the pattern under test
says which patterns came through (`UpstreamSound`), the codec under test which codec
did (`DownstreamSound`). `TypeIsBest` and `CodecsDoWork` follow for every
relay.

**`HandshakeProofs`, the probes.** The next size lies in the middle between the
largest that works and the smallest given up, the range away from either; only
when 3 is halved to 1 are they 3 apart (`Middle`). Where the loop ends they are
at most 12 apart, and 2 below 300 (`Gap`). What works the relay carries, and
what was given up it does not unless a probe was missed (`Sound`). Closeness
follows from the last two.

**`OperatorProofs`, the encoders.** For every room and every size of data, the
number of bytes that an encoder says it has used is the number that the decoder
makes of its text (`CountsAgree`), although the encoder drops a last character
that completes no byte; and decoding gives those bytes (`DecodeUndoesEncode`).
The arithmetic is done once for each of 5, 6 and 7 bits; the rest finds the
character in which a bit was put (`BitIsFound`).

The type invariants of `VpnService`, `FwQuery` and `UserTable` are proved
(`TypeCorrect`) and not run: the other proofs there rest on them.

**Only model-checked:** liveness (`EveryPacketLeaves`, `InterruptIsObeyed`,
`SilentSlotComesFree`, `HandshakeEnds`), which is beyond TLAPS; and the
properties of `DnsMessages` (`SentIsReceived`, `ProbeIsNoShorter`,
`AnswerReadsAsWritten`, `ReferralIsAnswered`, `EveryNameGetsOn`), which are about
what recursive operators compute for one name or answer after another: they
would have to be proved by induction over the data.

## 6. Where the code does not do what it says

Shown by a run:

- `vpn_disconnect`: a disconnect that arrives after the thread was started and
  before `connect()` resets `request_disconnect` (N:125) and `client_init` sets
  `running` is lost. The intent is documented as "Intent to close the vpn
  connection" (J:59).
- `handshake_again`: `client_init` does not reset `send_query_sendcnt` and
  `send_query_recvcnt` (C:112-140). In a process that connects a second time,
  as the app does, the queries of the handshake are counted, though counting is
  to start with the tunnel (C:1122), and their answers are not: lazy mode is
  given up although every query was answered.

Met while modelling, and the reason why some property is stated as it is:

- The client keeps seqno and fragment after the last fragment "so that we won't
  reassemble from duplicate fragments" (C:1020), yet a packet of one fragment
  that arrives twice, because the server answered a query and its repetition,
  falls into the "weird situation" (C:981) and is written to tun again
  (`again` of `LossyLine` is `OneFragment` in `ImplementsDownLine`).
- `run()` sets `mThread` to null before `mConfiguration` (J:317). A connection
  started in between loses its configuration; `shutdown()` then takes the
  service for idle and says so while that connection is in native code (J:69).
  `NoConfiguration` shows the other outcome: the process dies
  (`OnlyThePastTakesConfiguration` promises no more than its name says).
- `handle_raw_login` switches the server to raw mode before the client has its
  answer (D:1893) and nothing but a new version handshake switches it back. If
  the four answers are lost the client goes on with DNS, and packets for it are
  sent raw (`RawClientMeetsRawServer` has no converse). The protocol's
  description lets both ends switch "After the login message has been
  exchanged" (`doc/proto_00000502.txt`:280).
- "not used in one minute" (U:172) is judged by `last_pkt`, which the served
  requests 'I', 'S', 'O', 'N' and 'R' do not set. Switching the two codecs and
  lazy mode, the probe of the fragment size and its setting may take 90 seconds
  with no other message in between. Nor do repeated tunnel queries set it, which
  are answered from a cache or noted beside the query that is held (D:1165-1213,
  1295-1341): a slot that gets nothing but copies for a minute is given away
  while its owner is being answered. (`ActiveSlotIsKept` holds with an `Activity`
  that leaves out `"request"` and `"copy"`.)
- When the answers to a codec switch are lost the client says "Falling back to
  upstream codec" (C:2080), but iodined has switched, and decodes what comes
  then with the new codec (`doc/proto_00000502.txt`:103). The second
  half of `ConfirmedCodecIsUsed` is therefore stated of perfect lines. The same holds for the downstream codec,
  where the client need not know it, and not for lazy mode, where both outcomes
  are safe (`LazyAgreed`).
- iodined answers the test of the Raw codec for NULL and TXT only (D:1071), the
  client tests PRIVATE with it (C:1865), and so PRIVATE is never found, though
  it is the second in the list (C:1897) and works (`Testable` in
  `BestTypeIsFound`).
- `client_init` does not reset `downenc` either, and C:2451 looks for a codec
  only if none is set: a second connection uses the codec of the first, whatever
  its relays let through (`connections = 1` in `DowncodecWorks`, a part of `CodecsWork`).
- The handlers of raw messages copy a `struct query` of which the caller has set
  the sender only (D:1886, 1911, 1936) over the query the user's slot holds. When
  the client goes back to DNS, a query that was answered long before may be
  taken for a waiting one and be answered again, and a query that was held is
  forgotten (`OverwriteQuery` in `IodinedUsers`; `NothingIsInherited` therefore
  speaks of queries only where the slot is in DNS mode).

## 7. Not modelled

With a place in the plan: sequence numbers of fewer bits, with relays that delay
messages beyond the window.

Of modelled parts: the client's loop in raw mode, where a packet is sent or
written and nothing is remembered; the headers, times to live, addresses and
other constants of DNS messages, and messages that neither program writes; a
wrong password or version, errors of the tun device, and the answers by which a
server tells a client that its messages are too short. What two client loops do
to each other's packets when a second instance of the service overlaps with the
first is not modelled; that it can happen is.

Not at all: the login hash (MD5 over a password and a seed, taken for an
injective function of the seed), the tun device, opening sockets, option
parsing, logging, the Android views and the database. They keep no state of the
protocol, and what they compute or display is not something that different
orders of events could make wrong.
