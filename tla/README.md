# MIP, routing and MIPTP: models, checks and proofs

The repository is a small network stack in C for mininet: every node runs a MIP
daemon (network layer over raw Ethernet sockets), a routing daemon (distance
vector) and a MIPTP daemon (go-back-N transport), and on top of them a file
sender, a file server, a ping client and a ping server.  This directory holds
TLA+ models of its three daemons and of the programs on top of them, the TLC runs
that check them on small instances, and TLAPS proofs, for every value of the
constants, of the safety properties the runs check and of the refinement.

## The system

| Part | State | Operations | Talks to |
|---|---|---|---|
| MIP daemon (`mip_daemon.c`, `mip_daemon_utils.c`) | ARP cache (4 entries, never emptied), `routing_queue`, `arp_queue`, the descriptors of its clients | a client writes; the routing daemon writes a response, a hello or an update; a frame arrives (ARP, ping, MIPTP, routing) | raw sockets to the neighbours; unix sockets to the routing daemon, MIPTP and ping |
| Routing daemon (`routing_daemon.c`, `routing_utils.c`) | linked list of (target, distance, next hop, time of last hello) | hello every fifth second, silent neighbours, handling a hello, an update, a request | its MIP daemon, and through it the routing daemons of the neighbours |
| MIPTP daemon (`miptp_daemon.c`, `miptp_utils.c`) | per application: port, next sequence number, queue of unacknowledged messages, expected number per sender | timeout check, accept, port negotiation, `forward_to_mip`, `read_message` (ack or data) | its MIP daemon and its applications |
| File sender and server | file, bytes left per sender | chunks of 1400 bytes, the size first | MIPTP |
| Ping client and server | the awaited answer | one message, one answer, a time limit | MIP daemon |

Each daemon is one thread around `poll`; a handler runs to its end before the
next event is looked at.  What makes the system hard is between the daemons:
messages are lost (the `h2` topology has 2 % loss), come twice (the ARP queue
and go-back-N send again) and overtake each other; a response of the routing
daemon does not say which packet it is for; timeouts race acknowledgements;
sequence numbers, distances and the ttl live in 14, 8 and 4 bits; routing tables
are distributed and stale; daemons exit on errors and are started again.
`PROJECT.json` lists these hazards at their lines.

What makes each part correct:

* MIPTP: an application is handed the messages of a sender in order, without gap
  or duplicate; a message is only forgotten when its receiver has it; no more than
  a window is under way; everything is acknowledged in the end.
* Routing: no loops; no use of paths known to be broken; convergence to the true
  distances; nothing the routing daemon says makes its MIP daemon exit.
* MIP: a packet is sent where its own destination is routed; it is forwarded as
  often as its ttl allows; what can be delivered is delivered, to the client it
  is for; the cache always has room.  Its clients are told apart from the moment
  they connect, each is attended to, and none is turned away while there is room.
* MIPTP's applications: each is handed what was sent to its port and nothing that
  was sent to another's, whoever had its descriptor before; what it sends goes out
  under its port; and it gets a port or is told that it cannot have one.
* File transfer: a file that is reported complete has all its bytes, is closed
  once, and the count of the bytes left neither underflows nor misses zero.
* Lengths: what goes into a layer comes out at the other end.

## Modules

| Module | Models |
|---|---|
| `Stream` | abstract specification of one flow: a run of consecutive messages, and when the sender may forget one |
| `Miptp` | the MIPTP daemons of all nodes and the network below |
| `MiptpStream` | the refinement mapping from `Miptp` to `Stream` |
| `MCMiptp` | instances for TLC |
| `MiptpProof` | inductive invariants and theorems about `Miptp`, and the refinement of `Stream` |
| `Routing` | the routing daemons of all nodes and the links between them |
| `MCRouting` | instances for TLC: lines of three and four |
| `RoutingProof` | inductive invariants and theorems about `Routing` |
| `MipDaemon` | the MIP daemons of all nodes, with the routing daemon as a source of answers |
| `MCMipDaemon` | instances for TLC: line, routing loop, unknown path |
| `MipDaemonProof` | inductive invariants and theorems about `MipDaemon` |
| `MipClients` | the client slots of one MIP daemon, and its client programs: ping client and server in full, routing and MIPTP daemon as far as they connect, write and end |
| `MCMipClients` | instance for TLC |
| `MipClientsProof` | inductive invariant and theorems about `MipClients` |
| `MiptpHosts` | the connections and ports of one MIPTP daemon and its applications |
| `MCMiptpHosts` | instance for TLC |
| `MiptpHostsProof` | inductive invariant and theorems about `MiptpHosts` |
| `Frames` | lengths of messages through the layers, as operators |
| `FramesProof` | theorems about `Frames` |
| `FileTransfer` | the file senders and the file server, over the streams of MIPTP and the lengths of `Frames` |
| `MCFileTransfer` | instances for TLC |
| `FileTransferProof` | inductive invariant and theorems about `FileTransfer` |
| `SequenceFacts` | facts about queues that the proofs share |

The modules lean on each other at the boundaries of the programs: `Miptp` shows
of a flow what `FileTransfer` takes for granted of its channels (messages in
order; a stream may begin with a later message than the first), `Frames` gives
the length a chunk arrives with, `Routing` gives the answers `MipDaemon` draws
from `Routes`, and `MiptpHosts` and `MipClients` give the descriptors that are
there from the start in `Miptp` and `MipDaemon`.  `Miptp` has packets for ports
that were given only; the other ones are in `MiptpHosts`.

### Miptp

A *host* is `struct host`: an application with a port on a node.  `seq_send`,
`message_queue` and `seq_link` are the fields of that name; the dummy node at
the head of the C list is left out, and `NoLink` stands for `seq_exp` returning
NULL.  `up[n]` is FALSE after the daemon of a node crashed.  `net[h]` is the
network: packets of host h under way.  `sent`, `delivered` and the field `id` of
messages and packets are history and are read by no handler.

| Code | Action or operator |
|---|---|
| `forward_to_mip`, `add_to_queue` | `forward_to_mip`, with `Wire` (14 bits), `NextSeq` (the counter), `InWindow` |
| timeout check in `main`, `resend_window` | `Timeout`, `resend_window` |
| `read_message`, ack branch, `send_next` | `AckMovesWindow`, `AckIgnored`, `AckCrashes`, `send_next` |
| `read_message`, data branch, `send_ack` | `DataIgnored`, `DataDelivered`, `send_ack` |
| MIP network (outside this component) | `Lose`, `Duplicate`, `Arrives` |

### Routing

`routing_list[n][t]` is the list as a function (a target is appended only when it
is not in the list, and the order is not observable).  `cached[n]` is the part of
the MIP daemon's cache that matters: the neighbours it has heard from.  An update
for a node that is not cached makes the MIP daemon, and with it the routing
daemon, exit (`up`).  The field `hops` of entries and pairs is history: how often
a target was passed on.

| Code | Action or operator |
|---|---|
| hello in `main`, `write_hello`, `send_update` | `Hello`, `send_update`, `update_for`, `Announced` |
| `identify_broken_path` | `identify_broken_path` |
| `handle_hello`, `add_to_linked_list` | `handle_hello`, `Entry` |
| `update_routing_list`, `update_broken_paths` | `update_routing_list`, `ApplyPair`, `PairChanges`, `Plus1` (uint8_t), `Broken` |
| `lookup` | `lookup` |
| start of `main` | `Init`, `Restart` |

### MipDaemon

`cache_table`, `routing_queue` and `arp_queue` are the globals of that name.  A
link address is identified with the node that owns it.  `router[n]` is the unix
socket between the MIP daemon and its routing daemon: whether there is one
(`runs`), the requests and the responses under way, in order, and the nodes whose
hellos were passed on.  The
constant `Routes` gives the next hops the routing daemon may answer; a set with
two elements lets it change its mind between two answers.  The nodes in `Warm`
have read the hellos of their neighbours at the start, the links in `Lossy` lose
frames, and the routing daemons of the nodes in `Restarting` may end and be
started again.  What is on the socket then (`RouterEnds`), and every request
written to descriptor 0 until `RouterStarts`, is lost; the packets in the queue are
not, and new ones join them.

| Code | Action or operator |
|---|---|
| client branch of `poll_loop` | `ClientMessage`, `SduType`, `HeaderTtl`, `Enqueue`, `send_req_to_router` |
| `handle_routing_msg`, response | `ResponseUnknown`, `ResponseCached`, `ResponseArp` |
| `handle_routing_msg`, hello and update | `Hello`, `Update` |
| `recv_raw_packet`, `check_cache`, `cache` | `Receives`, `CacheFull` |
| raw branch of `poll_loop`, `send_arp_queue` | `ArpRequest`, `ArpResponse`, `PacketForMe`, `PacketExpired`, `PacketForwarded`, `RoutingFrame` |
| `read_from_socket` of the routing daemon, request | `RouterAnswers` |
| the routing daemon has disconnected; another one identifies itself | `RouterEnds`, `RouterStarts` |

### MipClients

`fds[i]` is the program behind slot i of the array, `backlog` the queue of
`listen`, `revents` the events of the last `poll` that the loop over the array has
still to come to.  Programs go on between two events of a round; this is where a
client can take the slot of another one whose event is still to be served, or
leave before something is written to it.  Such a write fails.  The sockets are
`SOCK_SEQPACKET`, for which Linux sends no SIGPIPE, and the result is not looked at;
where the kernel does send it, nothing handles it.  `WriteTo` has both outcomes: the
message is lost and the daemon goes on, or it is killed.  `passed`, `identified` and
`lost` are history.

| Code | Action or operator |
|---|---|
| `poll`, its time limits, the loop over `fds` | `Poll`, `Polled`, `Stop`, `Before`, `Serves`, `AllServed` |
| `accept`, `handle_new_client` | `handle_new_client`, `Free`; with no slot left `NoSlot` |
| `identify_unix_client` | `identify_unix_client`, `Moved` |
| a client has disconnected | `Disconnect` |
| messages of clients and frames for them | `handle_routing_msg`, `UpperMessage`, `RawPacket`, `WriteTo` |
| `ping_client.c` | `Connect`, `ConnectFails` (`O_NONBLOCK`), `write_identifying_msg`, `Message`, `PingEnds` |
| `ping_server.c` | `Connect`, `write_identifying_msg`, `Pong`, `SeesEnd` |

### MiptpHosts

`hosts` holds slot, port and descriptor of every application so far; `socket` is
the kernel's table from descriptors to applications, with the lowest free number
given to the next connection.  `revents` is as in `MipClients`, and so is
`WriteTo`.  `arrived`, `to_mip`, and the fields `app` and `since` of a host, `misled`
of an application, `nr` and `owners` of a packet are history.

Nothing that is read says what it is, and the model keeps that: the daemon takes
the first byte of what an application writes for a port as long as the slot has
none (`PortRequest`), and an application that waits for its answer takes the first
two bytes of whatever comes (`ReadAnswer`, `Approved`, `my_port`).  Packets come at
any time for any port in `PacketPorts`: one that was given, one that will be given
or denied, one nobody asks for, and 0.  `index_of_port(0)` finds the first slot
without a port, so that a packet for port 0 is handed to an application that may be
waiting for its answer.  That application then has the source port of the packet
for its own, or takes its request for denied and asks again, and its first message
may become the request the daemon reads; the field `misled` remembers it.
The array for `poll` may be full when a connection is accepted (`AcceptNoRoom`),
and a packet may be for a port nobody has (`read_message`): both lead to
`status = "undefined"`, where the model stops.

| Code | Action or operator |
|---|---|
| the branches of the loop of `main` | `MipGone`, `Accept`, `AcceptNoRoom`, `read_message`, `Poll` with `Hup`, `PortRequest`, `forward_to_mip` |
| `index_of_port`, `available_port`, `send_port_response` | the operators of these names |
| `connect_to_miptp`, `write_identifying_msg`, the retries in `file_transfer.c`, the single request of `file_server.c` | `Connect`, `Ask`, `ReadAnswer`, `GiveUp`, `TriesOver` |
| writing and ending of an application | `Write`, `Leave` |
| packets from the MIP daemon | `Arrive` |

### Frames and FileTransfer

The operators of `Frames` follow the size of a message from the application
through `forward_to_mip` (`MiptpBytes`, `PaddingBits`), the MIP header
(`SduLen`, nine bits of words) and `read_message` (`HandedBytes`), and that of an
update through `handle_routing_msg` and `write_to_unix_socket`.

In `FileTransfer` a byte is named by its file and its position, so that a file
that was put together wrongly can be told from the right one.  `links` is the
array of that name; `file_size` counts down modulo `UINT32`.

| Code | Action or operator |
|---|---|
| `main` of `file_transfer.c` | `SendSize`, `SendChunk`, `fread` |
| `check_link`, `create_new_link`, `read_from_socket` | the operators of these names, `Reads`, `FileSizes` |
| `main` of `file_server.c`, known sender | `ReceiveChunk`, `WithChunk`, `strlen`, `BytesLeft` |
| padding removed in `read_message` | `Handed`, from `Frames` |
| a stream that begins late | `MissFirst` |

## Runs

State counts are of complete searches.

| Run | Checks | Shows |
|---|---|---|
| `miptp_flow` (11 500 states) | `TypeOK`, `InFlightInWindow`, `ImplementsStream`, `AllAcknowledged` | one flow over fair loss, order kept: the window is respected, the flow implements `Stream`, and every message is acknowledged, although `send_next` never sends |
| `miptp_anynet` (320 000) | `InOrder`, `NumbersAgree`, `BeginsInFirstWindow` | two senders, one receiver; loss, duplication, reordering: a stream has no gaps, and skips less than a window at its beginning |
| `routing_failures` (192 000) | `TypeOK`, `LoopFree`, `NextHopsCached`, `NoBrokenNextHop` | line of four; the neighbours of B fall silent and come back, the routing daemon of D is started again, D loses what it sends, MIP daemons may exit |
| `routing_live` (3 300) | `AllUp`, `ConvergesOnLine` | under fair loss: true distances in the end, and from then on; only neighbours are ever at distance 1 |
| `mip_live` (102 000) | `RightNextHop`, `QueueAligned`, `AllUp`, `AllDelivered` | traffic both ways, the cache of the node in the middle empty: queue and answers stay aligned, packets go the right way and arrive, through ARP where needed |
| `mip_loop` (449 000) | `TypeOK`, `HopsBounded`, `AnswersFindPackets` | routing loop, unknown paths, ttls of 0, 1 and 16, caches too small, lost frames, a routing daemon that ends, is missing and is started again: every answer still finds a packet in the queue |
| `mip_clients` (286 000) | `TypeOK`, `LatestInSlot`, `MessagesKept`, `Attended`, `LossNeedsTwo` | a routing daemon that may end, a ping client and a ping server for the same slot, three connections at once, frames for clients that have just left |
| `miptp_hosts` (900 000) | `TypeOK`, `HandedItsOwn`, `OwnPort`, `MisledByPortZero`, `Served` | a file server that may end at any time, two senders, ports that are taken or 0, packets for the server's port before and after it is given and for port 0; an array with room for two of the three applications |
| `file_transfer` (14 500) | `TypeOK`, `CompleteFiles`, `NoWriteAfterClose`, `NoUnderflow`, `Completed` | three files from two nodes, messages in any order, padding, a byte of value 0, a stream that begins late |

Three more runs each show a disagreement between what the code does and what a
comment or a help text says of it:

| Run | Property | What happens |
|---|---|---|
| `miptp_first_lost` | `Reliable` | the first packet is lost, the second starts the stream; the first is acknowledged and never delivered |
| `mip_no_path` | `RightNextHop` | a packet without a path shifts the queue against the answers |
| `file_padding` | `FileIntact` | the last chunk has one byte: the file is complete with two zero bytes behind it |

The models also carry these behaviours of the code, which limit what the other
properties can say:

* `miptp_utils.c:143`, `317`: the counters restart one later than the 14 bits on
  the wire (`NextSeq`, `Wire`), and the window test (168) is negative after a
  wrap.  `InOrder`, `NumbersAgree` and `InFlightInWindow` are stated up to the
  wrap (`NoWrap`).
* `miptp_utils.c:146`: one counter for all destinations of an application.
  `ImplementsStream` and `AllAcknowledged` are checked for one destination.
* `miptp_utils.c:298`: a packet that is thrown away is acknowledged all the same.
  Over a network that reorders or duplicates, an old ack of that kind releases a
  message that was never delivered, and `ImplementsStream` is false; the run and
  the theorem are about a network that keeps the order and sends nothing twice.
* `miptp_utils.c:237`: `send_next` never sends; what enters the window waits for
  the timeout.
* `miptp_utils.c:289`: the test for an empty queue looks at the dummy node, so that
  a second ack for the last message, after an early timeout, reads through a null
  pointer (`AckCrashes`).  Everything sent is acknowledged by then, so that
  `AllAcknowledged` holds all the same; nothing more is sent.
* `miptp_utils.c:285`: a packet for a port nobody has uses the element before the
  first of `hosts` (`read_message` of `MiptpHosts`: anything may follow).
* `miptp_utils.c:185`: a packet for port 0 is handed to the first application
  without a port, which may take it for the answer to its request.  "An application
  is handed packets for its own port only" and "a message goes out under the port
  its application was told" are therefore false.  `HandedItsOwn` lets packets for port
  0 be handed over before the port is given, `OwnPort` and `Served` leave out
  applications that were misled, and `MisledByPortZero` says that nothing else
  misleads one.
* `miptp_daemon.c:72`: the number of connections is not checked, slots are never
  given back, and after `MAX_NODES - 2` applications in the life of a daemon the next
  is written behind the array (`AcceptNoRoom`).  No property says that this does not
  happen; the others are about what comes before.
* `miptp_daemon.c:91`: packets and connections come before applications.  Without end
  they would keep all applications waiting: `Served` is about the time after the
  last one.
* `miptp_daemon.c:100`, `mip_daemon.c:532`: the end of a program is looked at before
  what it wrote, which is then not read (`Hup`, `Disconnect`); a file sender sleeps
  for 50 seconds before it ends.
* `mip_daemon.c:453`: a third connection that waits to be identified is stored behind
  the array (`NoSlot`) and never polled; `Attended` excludes it, and `LossNeedsTwo`
  says when it happens.
* `file_server.c:99`: bytes behind one of value 0 are not counted; such a file, an
  empty one, and one cut by the padding are never completed (`Countable`).
* `routing_utils.c:323`: a shorter distance replaces the distance of an entry, not
  its next hop (`ApplyPair`, `handle_hello`): when an update overtakes a hello, a
  neighbour is reached by a detour for good.  `LoopFree` rests on this.
* `routing_utils.c:433`: a silent neighbour is broken, the paths through it are
  not, until the next update; `NoBrokenNextHop` is about the steps after an update.
* `routing_utils.c:330`: 255 + 1 = 0 when a broken target is unknown (`Plus1`).
  After a silence or a restart this gives a broken target the best distance.  One
  node further on it is 1, and the update for this supposed neighbour makes the
  MIP daemon exit (`mip_daemon_utils.c:96`; it takes four nodes in a line): `AllUp`
  is checked without silence and restarts.  When the routing daemon of an inner
  node restarts, two nodes may also take each other for the way, and then answer
  each other's updates for ever (319): in the run only a node at the end of the line
  restarts, and the theorems about `LoopFree` and `AllUp` are stated without restarts.
* `mip_daemon.c:697`: the missing break makes the messages of ping clients MIPTP
  packets (`SduType`); `AllDelivered` is about MIPTP clients, and the frames for ping
  programs in `MipClients` come from a node that runs another implementation of MIP.
* `mip_daemon_utils.c:214`: a packet that waits for the address of a next hop is
  sent when its destination answers, not the next hop (`Waiting`);
  `AllDelivered` is checked where only a neighbour of the destination needs ARP.
* `mip_daemon.c:399`: the cache takes the address of the last hop for that of the
  source (`Receives`), the own address included when a packet comes back.

### Bounds

* `Window` is 2 instead of 16 and `SeqLimit` 8 instead of 2^14, with 3 or 4
  messages: more than a window, so that the window moves while messages wait
  behind it.
* `MaxInFlight` of `Miptp` bounds the packets under way; it leaves room for a
  whole window and its acks more than once, or for duplicates of every message.  A
  full network blocks senders, it loses nothing.
* `MAX_DISTANCE` is 4 or 5 instead of 255, larger than any distance in the
  topologies, so that wrapping happens exactly where it does with 255.
* `MaxBacklog` of `Routing` and `MipDaemon` lets a hello or an update start only
  on links that have been read (timers are seconds, frames milliseconds);
  replies queue up behind.  `MaxInFlight` (0) bounds the replies in
  `routing_failures`, where there may be very many: a message that calls for a
  reply is read when there is room for it.  In
  `routing_failures` only B notices silent neighbours, which is enough for paths to
  break, come back and wrap; the theorem covers the rest.  `MaxHops` bounds only the
  history field after restarts.
* `CACHE_TABLE_LEN` is 2 in `mip_live`, one entry for every other node, and 2 in
  `mip_loop`, where the own address comes back and `CacheFull` happens.  With 4
  entries, as in the code, the five nodes of the `h1` topology of `script.py` fit
  only as long as no packet comes back.
* `mip_clients` has three programs because two connections may wait to be
  identified, one message each way per program, and one frame.
* `miptp_hosts` has three applications, the least for a descriptor to be used again
  while another application competes for the port, and two packets: enough for one
  that misleads and one that shows it, for two in the wrong order, and for one
  before and one after the port is given.  `MAX_NODES` is 4 instead of 20: the third
  application finds no room, in whatever order the three connect.  Only one
  application writes a message, because it takes one to become a request by mistake.
  The source of all packets is one address other than 0.  `BACKLOG` has its real
  value (`listen(.., 1)` lets two connections wait).
* `CHUNK` is 4 instead of 1400, a multiple of four as in the code, so that only the
  last chunk can have padding, and `UINT32` 64, larger than any file.  The three
  files have two chunks each: last chunks of two, one and four bytes.
* Deadlock is not checked: the daemons may come to rest when the bounded traffic
  is over.

### Fairness

* `Miptp`: the loop of `main` comes back to the timeout check at least once a
  second (`poll` has a timeout of 1000 ms): weak fairness of `Timeout`.  Strong
  fairness of receiving a message, and its ack, says that the network does not
  lose every one of infinitely many copies.
* `Routing`: weak fairness of `Hello` (`poll` with 2500 ms); strong fairness of
  reading hellos and updates, with the same meaning.
* `MipDaemon`: weak fairness of the routing daemon's answers, of reading them,
  and of every link.  `poll_loop` looks at every descriptor in each round, so
  none starves.  `mip_live` loses no frames; hellos and updates are not assumed.
* `MipClients`, `MiptpHosts`: weak fairness of the loop of the daemon, which never
  waits at `poll` while there is an event, and of each program, which does one
  thing after the other.  Ending (`Leave`, `Stop`, `MipGone`), frames and packets
  are not assumed, and in `MiptpHosts` nobody has to start (`Connect`).  The ping
  client has a time limit of its own.
* `FileTransfer`: weak fairness of every sender and of the server for every sender,
  whose messages the MIPTP daemons hand over in the end (`AllAcknowledged`).

## Proofs

The theorems hold for every value of the constants that satisfies the named
assumptions of the modules (every topology, every number of nodes, programs and
messages, every bound).  Some have further hypotheses.  Each of these excludes a
behaviour of the code under which the property is false, and each is satisfied
by the instance of a run:

| Hypothesis | Says | Excludes | Satisfied in |
|---|---|---|---|
| `NoWrap` | no counter passes 2^14 within `MaxMsgs` messages | restart of the counters (`miptp_utils.c:143`) | `miptp_flow`, `miptp_anynet` |
| `OneReceiver` | a sender has one receiver | one counter for all destinations (146) | `miptp_flow`, `miptp_anynet` |
| `InOrderNetwork` | packets keep their order and come once; the sender has one receiver | late acks for packets thrown away (298), one counter for all destinations (146) | `miptp_flow` |
| `Restarting = {}`, `Expiring = {}` (`Routing`) | no routing daemon is started again; no neighbour falls silent | 255 + 1 = 0 (`routing_utils.c:330`) | `routing_live` |
| `FewNodes` | at most `MAX_DISTANCE` nodes | nothing: addresses have eight bits | `routing_live` |
| `AlwaysAnswered` | a path for every request, no routing daemon ends | answers that do not say what they are for (`mip_daemon_utils.c:104`) | `mip_live` |
| `Steady` | also: next hops are neighbours, a neighbour is a next hop for itself, and no packet is passed on to a neighbour of its source | the last hop's address kept for the source (`mip_daemon.c:398`) | `mip_live` |

`MiptpProof`
* `TypeCorrect`: `Spec => []TypeOK`.
* `SeqInvariant`, `StreamInOrder`, `WindowRespected`, `NumbersAgreeAlways` (under
  `NoWrap`): for any hosts, flows and window and a network that loses, duplicates
  and reorders.  `InOrder` is not inductive: the number test of the receiver is only
  as good as the numbers on the packets.  `SeqInv` adds that the counter of a sender
  is its first number plus the messages so far, that every queued message and every
  data packet under way carries first number + position - 1 and is not beyond the
  window, that the queue is the tail of what was sent, and that a receiver expects
  the number after the last message it handed over.
* `FirstWindowBegins` (under `NoWrap` and `OneReceiver`): `BeginsInFirstWindow`, over
  any network.  `BeginInv` says that messages are only under way to the receiver of
  their sender, and that no ack is under way, and none was read, for a sender whose
  stream has not begun; the first packet that arrives is then within one window of
  the first message.
* `FlowImplementsStream` (under `NoWrap` and `InOrderNetwork`): the flow implements
  `Stream` under the mapping of `MiptpStream`.  An ack may be under way for a message
  the receiver threw away, so that "an ack under way is for a message that was
  delivered" is no invariant.  `FlowInv` looks at how far the stream had got when an
  ack was written, its *stage*: the ack is not for the message right behind its
  stage, because that one is taken; stages grow along the channel; and the sender has
  released no more than the first stage.  The ack the sender waits for is then one
  for a delivered message.  There is a lemma for each kind of step, which says which
  step of `Stream` it is, or that it is a stutter.

`RoutingProof`
* `TypeCorrect`: distances stay in a byte, restarts included.
* `RouteInvariant`, `NeverInCircles` (no restarts; any loss and silence): an entry is
  never given another next hop, so it is enough that at the moment an entry is made
  the next hop has an older one: `RouteInv` says that the next hop of an entry for t
  is t itself or has an entry for t with fewer `hops`, and that the pairs under way
  are as old as the entry of the node that sent them.  A circle would then have no
  entry with the fewest hops.
* `BrokenPathsClosed`: `NoBrokenNextHop`, an action property, from types alone: what
  `update_broken_paths` leaves is closed under next hops.
* `NextHopsReachable`: `NextHopsCached` with losses, silence and restarts, from
  `HopsCached`, which speaks of broken entries too, because they come back.
* `ChainInvariant`, `UpdatesReachNeighbours`: `AllUp` (no restarts, no silence,
  `FewNodes`).  A target passed on h times has been passed on h - 1 times before by
  another node, back to the target itself; counting these nodes gives fewer hops
  than nodes, and a distance is at most the hops, so that no sum wraps and only
  nodes that were heard from are at distance 1.

`MipDaemonProof`.  `EveryStep` says of any step where a new frame, a new packet in
a queue and a new entry of the cache come from; the other proofs use these facts
and look at no action.
* `TypeCorrect` and `EveryAnswerFindsAPacket`, which need each other: taking a
  packet from the queue is typed because there is one.  With restarts, the time
  without a routing daemon, unknown paths and losses.
* `TtlBoundsHops`: hops and ttl add up to the ttl asked for, for packets in the
  queues; on a link one more is still to be paid.
* `QueueStaysAligned` (under `AlwaysAnswered`).
* `RoutedRight` (under `Steady`): `RightNextHop`.  The inductive invariant says that
  packets are only at nodes on the way of their flow, that every frame was put on its
  link by a route or by its own source, and that the cache holds addresses of
  neighbours, and for a neighbour its own.
* `SmallNetworkStaysUp` (networks of at most `CACHE_TABLE_LEN` nodes, any routes,
  losses and restarts) and `CacheSuffices` (under `Steady`, networks of any size
  in which the neighbours of a node and the sources of the flows that pass it are at
  most `CACHE_TABLE_LEN`): `AllUp`.

`MipClientsProof`
* `ClientsInvariant`, `TypeCorrect`, `EveryMessageTaken` (`MessagesKept`),
  `NewestKeepsItsSlot` (`LatestInSlot`) and `TwoUndecidedFirst` (`LossNeedsTwo`).  The inductive invariant is what the loop
  over the slots relies on and does not check: an event reported for a slot still
  applies when the loop comes to it, although programs go on and the slot may have
  another program by then (`Current`); a connection is behind one slot at most
  (`OnePlace`); a connection that was not identified has its identifier in front,
  one that was has messages only (`Identifiers`); and the connections in the slots
  for those that were not identified were indeed not (`NotIdentified`), so that when
  both slots are taken there are two of them.

`MiptpHostsProof`, for packets of every port at any time, and arrays of any size
* `HostsInvariant`, `TypeCorrect`, `OwnPortAlways` (`OwnPort`), `OnlyPortZeroMisleads`
  (`MisledByPortZero`), `EverybodyItsOwn` (`HandedItsOwn`).  The invariant, while the
  daemon runs: an application is behind one slot at most, and a descriptor that is
  used again belongs to the new slot (`Wired`); a port is given once (`PortsUnique`);
  events still apply (`Current`); packets are taken in the order in which they came
  (`InTurn`).  An application that was not misled is at the same stage of the
  negotiation as its slot, with what is unread on either side (`Stages`).  Of the
  misled ones nothing of the kind holds, and nothing is needed but that all that was
  written to a slot before its port was given are answers and packets for port 0,
  and all after that the packets for the port (`SlotsServed`).  A packet for a port
  that is given later cannot mislead because the slot it is looked for in has no
  port yet: it finds no slot.

`FileTransferProof`
* `FileInvariant`, `TypeCorrect`, `TransmissionComplete` (`CompleteFiles`),
  `ClosedForGood` (`NoWriteAfterClose`), `CountStaysAbove` (`NoUnderflow`).  The
  messages of a sender lie end to end (`InOrder`), and as long as one is to come the
  file of the link ends where it begins (`Continued`).  The count is not the length:
  the bytes behind a 0 are written and not counted, so that `Counted` has an
  inequality.

`FramesProof`
* `DataIsNoAck`: no data packet is taken for an ack; `HandedPayloadLength`: the
  exact length an application is handed, which is wrong by two for odd payloads;
  `UpdateKept`: updates of up to 29 pairs, more than `MAX_NODES`, get through
  whole.  All three for payloads that fit into a buffer (2036 bytes); the arguments
  are that rounding up gives whole words (`AlignWords`) and that nine bits hold
  their number (`MipKeeps`).

Only model-checked: liveness (`AllAcknowledged`, `ConvergesOnLine`, `AllDelivered`,
`Attended`, `Served`, `Completed`), which is out of the prover's reach, and
`LoopFree` of `Routing` with the restart of a node at the end of the line, as
`routing_failures` has it, where `NeverInCircles` does not apply.

## Not modelled

* Setting up sockets and interfaces, argument parsing, printing, mininet scripts:
  input and output without state of their own.
* The contents of payloads: texts of ping messages, bytes other than 0 in files.
* Memory behind the ends of arrays (`update_list`, `seq_link`, `hosts`, `links`
  are not checked against their sizes; `mip_daemon_utils.c:22` clears two bytes
  too many): where a model meets it, what happens is a crash or undefined, and the
  model says nothing of what follows; `seq_link` and `links` are unbounded.
* In `MipDaemon`, what is written to a routing daemon between its end and the moment
  the MIP daemon sees it is lost as if it had been written later; the daemon ends
  by SIGPIPE only in `MipClients` and `MiptpHosts`.
* Real time: timers may fire at any moment.
* Full unix sockets (both daemons blocked on a write): the limits are the kernel's.
* What is typed at the terminal: a closed slot has descriptor 0, which is polled.

## Plan

The models are complete as far as the code goes, and every safety property of a
passing run is stated by a theorem.  What is left are weaker hypotheses and results
that no run asks for yet:

1. `LoopFree` when only nodes restart through which nobody's paths lead, as in
   `routing_failures`.
2. `RightNextHop` with a restart of the routing daemon while the queue is empty.
