------------------------------ MODULE MipDaemon ------------------------------
(***************************************************************************)
(* The MIP daemons (mip_daemon.c, mip_daemon_utils.c): packets of the      *)
(* upper clients are queued until the routing daemon has answered for the  *)
(* next hop, wait for ARP when the next hop has no known link address, and *)
(* are forwarded hop by hop until they arrive or their ttl runs out.       *)
(*                                                                         *)
(* poll_loop handles one event after the other, so each event is one step: *)
(*   ClientMessage           an upper client (ping or MIPTP) has written;  *)
(*   Response..., Hello, Update   the routing daemon has written           *)
(*                           (handle_routing_msg);                         *)
(*   the rest                a frame has arrived on the raw socket.        *)
(* The routing daemon is router: it takes the requests in their order and  *)
(* answers each with an element of Routes.  Its hellos and updates are     *)
(* those of module Routing, without their contents.                        *)
(*                                                                         *)
(* A link address is the node that owns it.  A frame on wire[n][m] is on   *)
(* the link from n to m and carries the link address of m.                 *)
(***************************************************************************)
EXTENDS Naturals, Sequences, FiniteSets

CONSTANTS
    Nodes,              \* MIP addresses
    Links,              \* <<n, m>>: n and m share a link
    Routes,             \* Routes[n][t]: next hops the routing daemon may give
    NoPath,             \* 255, the answer for an unknown path
    NoMac,              \* the cache has no address
    CACHE_TABLE_LEN,    \* 4: addresses the cache holds
    TTL,                \* 3: the ttl of a message that comes without one
    TTLs,               \* the ttls the clients ask for, 0 for none
    Clients,            \* "ping", "miptp": which clients are connected
    Traffic,            \* <<n, t>>: a client of n has messages for t
    Warm,               \* nodes that have read the hellos of their neighbours
    Lossy,              \* links that may lose frames
    Restarting,         \* nodes whose routing daemon may end and be started again
    MaxMsgs,            \* bound: messages of the clients
    MaxBacklog          \* bound: frames on a link when a hello or update is due

ASSUME LinksAssumption ==
    /\ Links \subseteq {l \in Nodes \X Nodes : l[1] # l[2]}
    /\ \A n, m \in Nodes : <<n, m>> \in Links => <<m, n>> \in Links

ASSUME RoutesAssumption ==
    /\ NoPath \notin Nodes /\ NoMac \notin Nodes
    /\ Routes \in [Nodes -> [Nodes -> SUBSET (Nodes \cup {NoPath})]]
    /\ Traffic \subseteq {f \in Nodes \X Nodes : f[1] # f[2]}

ASSUME NumbersAssumption ==
    /\ CACHE_TABLE_LEN \in Nat /\ TTL \in 1..15 /\ TTLs \subseteq 0..255
    /\ MaxMsgs \in Nat /\ MaxBacklog \in Nat
    /\ Clients \subseteq {"ping", "miptp"}

ASSUME EnvironmentAssumption ==
    /\ Warm \subseteq Nodes
    /\ Lossy \subseteq Links
    /\ Restarting \subseteq Nodes

VARIABLES
    up,             \* up[n]: the daemon of n runs
    cache_table,    \* cache_table[n][t]: the link address n has for t
    routing_queue,  \* routing_queue[n]: packets waiting for the routing daemon
    arp_queue,      \* arp_queue[n]: packets waiting for ARP
    router,         \* router[n]: whether n has a routing daemon, what the two
                    \* have under way, and the nodes whose hellos it was given
    wire,           \* wire[n][m]: frames on the link from n to m
    count,          \* history: messages the clients have written
    delivered       \* history: what was handed to which client

vars == <<up, cache_table, routing_queue, arp_queue, router, wire, count, delivered>>

\* A packet of a client.  The fields id, client and hops are history: the
\* message, the client that wrote it, and the links it has passed.
Packet == [type : {"ping", "miptp"}, src : Nodes, dst : Nodes, ttl : 0..15,
           id : Nat, client : {"ping", "miptp"}, hops : Nat]
Arp == [type : {"arp_req", "arp_res"}, src : Nodes, address : Nodes]
RoutingMsg == [type : {"HLO", "UPD"}, src : Nodes, dst : Nodes \cup {NoPath}]

TypeOK ==
    /\ up \in [Nodes -> BOOLEAN]
    /\ cache_table \in [Nodes -> [Nodes -> Nodes \cup {NoMac}]]
    /\ routing_queue \in [Nodes -> Seq(Packet)]
    /\ arp_queue \in [Nodes -> Seq(Packet)]
    /\ router \in [Nodes -> [runs : BOOLEAN, requests : Seq(Nodes),
                            responses : Seq(Nodes \cup {NoPath}), heard : SUBSET Nodes]]
    /\ wire \in [Nodes -> [Nodes -> Seq(Packet \cup Arp \cup RoutingMsg)]]
    /\ count \in Nat
    /\ delivered \in [Nodes -> SUBSET [slot : {"ping", "miptp"}, client : {"ping", "miptp"}, id : Nat]]

Neighbours(n) == {m \in Nodes : <<n, m>> \in Links}

Init ==
    /\ up = [n \in Nodes |-> TRUE]
    /\ cache_table = [n \in Nodes |-> [m \in Nodes |->
            IF n \in Warm /\ m \in Neighbours(n) THEN m ELSE NoMac]]
    /\ routing_queue = [n \in Nodes |-> <<>>]
    /\ arp_queue = [n \in Nodes |-> <<>>]
    /\ router = [n \in Nodes |-> [runs |-> TRUE, requests |-> <<>>, responses |-> <<>>,
                                  heard |-> IF n \in Warm THEN Neighbours(n) ELSE {}]]
    /\ wire = [n \in Nodes |-> [m \in Nodes |-> <<>>]]
    /\ count = 0
    /\ delivered = [n \in Nodes |-> {}]

-----------------------------------------------------------------------------
(* Frames and queues *)

\* The wire w after n has sent the frames fs to every node in S.
Sent(w, n, S, fs) ==
    [w EXCEPT ![n] = [m \in Nodes |-> IF m \in S THEN @[m] \o fs ELSE @[m]]]

\* The packet has passed one more link when it is sent.
OnWire(p) == [p EXCEPT !.hops = @ + 1]

\* Without a routing daemon the descriptor is 0 and the request is lost.
send_req_to_router(n, t) ==
    IF router[n].runs THEN [router EXCEPT ![n].requests = Append(@, t)] ELSE router

\* Mutant: the daemon asks for a packet whose ttl has run out and drops it.
EnqueueUnlessExpired(n, p) ==
    /\ routing_queue' = IF p.ttl = 0 THEN routing_queue
                        ELSE [routing_queue EXCEPT ![n] = Append(@, p)]
    /\ router' = send_req_to_router(n, p.dst)

\* A packet waits for the routing daemon, which is asked for its next hop.
Enqueue(n, p) ==
    /\ routing_queue' = [routing_queue EXCEPT ![n] = Append(@, p)]
    /\ router' = send_req_to_router(n, p.dst)

\* Mutant: the packets from t are picked.
WaitingFrom(queue, t) ==
    LET picked[k \in 0..Len(queue)] ==
            IF k = 0 THEN <<>>
            ELSE IF queue[k].src = t THEN Append(picked[k - 1], OnWire(queue[k]))
            ELSE picked[k - 1]
    IN  picked[Len(queue)]

\* The packets for t in a queue, as frames, in their order: picked[k] are
\* those among the first k.
Waiting(queue, t) ==
    LET picked[k \in 0..Len(queue)] ==
            IF k = 0 THEN <<>>
            ELSE IF queue[k].dst = t THEN Append(picked[k - 1], OnWire(queue[k]))
            ELSE picked[k - 1]
    IN  picked[Len(queue)]

\* The first answer of the routing daemon is read.
Answered(n) == [router EXCEPT ![n].responses = Tail(@)]

-----------------------------------------------------------------------------
(* The upper clients *)

\* The switch over the client has no break: every packet is sent as MIPTP.
SduType(client) == "miptp"

\* Mutant: the whole byte of the client goes into the header.
HeaderTtlByte(ttl) == IF ttl = 0 THEN TTL ELSE ttl

\* The header keeps four bits of the ttl; 0 stands for the default.
HeaderTtl(ttl) == (IF ttl = 0 THEN TTL ELSE ttl) % 16

ClientMessage(n, t, client, ttl) ==
    /\ up[n]
    /\ <<n, t>> \in Traffic
    /\ count < MaxMsgs
    /\ Enqueue(n, [type |-> SduType(client), src |-> n, dst |-> t,
                   ttl |-> HeaderTtl(ttl), id |-> count + 1, client |-> client,
                   hops |-> 0])
    /\ count' = count + 1
    /\ UNCHANGED <<up, cache_table, arp_queue, wire, delivered>>

-----------------------------------------------------------------------------
(* The routing daemon *)

\* The routing daemon answers its oldest request (read_from_socket of
\* routing_utils.c).
RouterAnswers(n) ==
    /\ up[n]
    /\ router[n].requests # <<>>
    /\ \E next_mip \in Routes[n][Head(router[n].requests)] :
        router' = [router EXCEPT ![n] =
            [runs      |-> @.runs,
             requests  |-> Tail(@.requests),
             responses |-> Append(@.responses, next_mip),
             heard     |-> @.heard]]
    /\ UNCHANGED <<up, cache_table, routing_queue, arp_queue, wire, count, delivered>>

\* Whether there is something to read, and what it is.
Responds(n) == up[n] /\ router[n].responses # <<>>
Response(n) == Head(router[n].responses)

\* The early return leaves the packet in the queue.
ResponseUnknown(n) ==
    /\ Responds(n)
    /\ Response(n) = NoPath
    /\ router' = Answered(n)
    /\ UNCHANGED <<up, cache_table, routing_queue, arp_queue, wire, count, delivered>>

\* Mutant: the packet is sent and stays in the queue.
SendsFirstKeeps(n, w) ==
    /\ wire' = Sent(wire, n, {w}, <<OnWire(Head(routing_queue[n]))>>)
    /\ UNCHANGED routing_queue

\* Mutant: the newest packet of the queue is taken.
SendsLast(n, w) ==
    /\ wire' = Sent(wire, n, {w}, <<OnWire(routing_queue[n][Len(routing_queue[n])])>>)
    /\ routing_queue' = [routing_queue EXCEPT ![n] = SubSeq(@, 1, Len(@) - 1)]

\* The oldest packet of the queue is taken off and sent to link address w.
SendsFirst(n, w) ==
    /\ wire' = Sent(wire, n, {w}, <<OnWire(Head(routing_queue[n]))>>)
    /\ routing_queue' = [routing_queue EXCEPT ![n] = Tail(@)]

ResponseCached(n) ==
    /\ Responds(n)
    /\ Response(n) # NoPath
    /\ cache_table[n][Response(n)] # NoMac
    /\ router' = Answered(n)
    /\ SendsFirst(n, cache_table[n][Response(n)])
    /\ UNCHANGED <<up, cache_table, arp_queue, count, delivered>>

ResponseArp(n) ==
    /\ Responds(n)
    /\ Response(n) # NoPath
    /\ cache_table[n][Response(n)] = NoMac
    /\ router' = Answered(n)
    /\ routing_queue' = [routing_queue EXCEPT ![n] = Tail(@)]
    /\ arp_queue' = [arp_queue EXCEPT ![n] = Append(@, Head(routing_queue[n]))]
    /\ wire' = Sent(wire, n, Neighbours(n),
            <<[type |-> "arp_req", src |-> n, address |-> Response(n)]>>)
    /\ UNCHANGED <<up, cache_table, count, delivered>>

\* The routing daemon of n has ended: the daemon closes its socket when it sees
\* the end, with the answers it has not read, and what was asked is lost; the
\* packets stay in the queue.
RouterEnds(n) ==
    /\ n \in Restarting
    /\ up[n] /\ router[n].runs
    /\ router' = [router EXCEPT ![n] = [runs |-> FALSE, requests |-> <<>>,
                                       responses |-> <<>>, heard |-> {}]]
    /\ UNCHANGED <<up, cache_table, routing_queue, arp_queue, wire, count, delivered>>

\* It is started again, connects and identifies itself.
RouterStarts(n) ==
    /\ up[n] /\ ~router[n].runs
    /\ router' = [router EXCEPT ![n].runs = TRUE]
    /\ UNCHANGED <<up, cache_table, routing_queue, arp_queue, wire, count, delivered>>

HasRoom(n) == \A m \in Neighbours(n) : Len(wire[n][m]) <= MaxBacklog

Hello(n) ==
    /\ up[n] /\ router[n].runs
    /\ HasRoom(n)
    /\ wire' = Sent(wire, n, Neighbours(n),
            <<[type |-> "HLO", src |-> n, dst |-> NoPath]>>)
    /\ UNCHANGED <<up, cache_table, routing_queue, arp_queue, router, count, delivered>>

\* An update for m, whose hello has been read, goes to the address of m in
\* the cache.
Update(n, m) ==
    /\ up[n] /\ router[n].runs
    /\ HasRoom(n)
    /\ m \in router[n].heard
    /\ cache_table[n][m] # NoMac
    /\ wire' = Sent(wire, n, {cache_table[n][m]},
            <<[type |-> "UPD", src |-> n, dst |-> m]>>)
    /\ UNCHANGED <<up, cache_table, routing_queue, arp_queue, router, count, delivered>>

-----------------------------------------------------------------------------
(* The raw socket: the first frame from m arrives at n *)

Cached(n) == {t \in Nodes : cache_table[n][t] # NoMac}

\* Mutant: the last slot of the cache is not used.
CacheHasSpaceOneLess(n) == CACHE_TABLE_LEN - Cardinality(Cached(n)) > 1

CacheHasSpace(n) == CACHE_TABLE_LEN > Cardinality(Cached(n))

Frame(m, n) == Head(wire[m][n])
Taken(m, n) == [wire EXCEPT ![m][n] = Tail(@)]

\* The source of the frame is put into the cache with the link address of
\* the node that sent the frame, unless it is there.
Receives(n, m, types) ==
    LET src == Frame(m, n).src
    IN  /\ up[n]
        /\ wire[m][n] # <<>>
        /\ Frame(m, n).type \in types
        /\ src \in Cached(n) \/ CacheHasSpace(n)
        /\ cache_table' = [cache_table EXCEPT ![n][src] = IF @ = NoMac THEN m ELSE @]

\* "Not enough space in cache": the daemon exits.
CacheFull(n, m) ==
    /\ up[n]
    /\ wire[m][n] # <<>>
    /\ Frame(m, n).src \notin Cached(n)
    /\ ~CacheHasSpace(n)
    /\ up' = [up EXCEPT ![n] = FALSE]
    /\ wire' = Taken(m, n)
    /\ UNCHANGED <<cache_table, routing_queue, arp_queue, router, count, delivered>>

\* A request for the address of n is answered to the address in the cache,
\* over the link the request came from.
ArpRequest(n, m) ==
    LET src == Frame(m, n).src
        answers == Frame(m, n).address = n /\ cache_table'[n][src] = m
    IN  /\ Receives(n, m, {"arp_req"})
        /\ wire' = Sent(Taken(m, n), n, IF answers THEN {m} ELSE {},
                <<[type |-> "arp_res", src |-> n, address |-> n]>>)
        /\ UNCHANGED <<up, routing_queue, arp_queue, router, count, delivered>>

\* send_arp_queue: the waiting packets for the address itself are sent; none
\* is taken off the queue.
ArpResponse(n, m) ==
    LET t == Frame(m, n).address
    IN  /\ Receives(n, m, {"arp_res"})
        /\ wire' = Sent(Taken(m, n), n, {cache_table'[n][t]}, Waiting(arp_queue[n], t))
        /\ UNCHANGED <<up, routing_queue, arp_queue, router, count, delivered>>

\* A packet for n is handed to the client its type stands for.
PacketForMe(n, m) ==
    LET p == Frame(m, n)
    IN  /\ Receives(n, m, {"ping", "miptp"})
        /\ p.dst = n
        /\ wire' = Taken(m, n)
        /\ delivered' = [delivered EXCEPT ![n] =
                @ \cup {[slot |-> p.type, client |-> p.client, id |-> p.id]}]
        /\ UNCHANGED <<up, routing_queue, arp_queue, router, count>>

\* Mutant: the test for a ttl of 0 is missing, and the four bits wrap.
TtlExpiredNever(p) == FALSE

TtlExpired(p) == p.ttl = 0

\* The ttl of a packet for somebody else has run out.
PacketExpired(n, m) ==
    LET p == Frame(m, n)
    IN  /\ Receives(n, m, {"ping", "miptp"})
        /\ p.dst # n
        /\ TtlExpired(p)
        /\ wire' = Taken(m, n)
        /\ UNCHANGED <<up, routing_queue, arp_queue, router, count, delivered>>

\* The second test of the ttl, after it was lowered, is always true.
PacketForwarded(n, m) ==
    LET p == Frame(m, n)
    IN  /\ Receives(n, m, {"ping", "miptp"})
        /\ p.dst # n
        /\ ~TtlExpired(p)
        /\ wire' = Taken(m, n)
        /\ Enqueue(n, [p EXCEPT !.ttl = (@ + 15) % 16])
        /\ UNCHANGED <<up, arp_queue, count, delivered>>

\* A hello or an update goes to the routing daemon, if there is one, whomever it
\* is for.
RoutingFrame(n, m) ==
    /\ Receives(n, m, {"HLO", "UPD"})
    /\ wire' = Taken(m, n)
    /\ router' = IF Frame(m, n).type = "HLO" /\ router[n].runs
                 THEN [router EXCEPT ![n].heard = @ \cup {Frame(m, n).src}]
                 ELSE router
    /\ UNCHANGED <<up, routing_queue, arp_queue, count, delivered>>

\* The link from m to n loses a frame.
Lose(n, m) ==
    /\ <<m, n>> \in Lossy
    /\ wire[m][n] # <<>>
    /\ wire' = Taken(m, n)
    /\ UNCHANGED <<up, cache_table, routing_queue, arp_queue, router, count, delivered>>

-----------------------------------------------------------------------------
(* The system *)

RawPacket(n, m) ==
    \/ CacheFull(n, m)
    \/ ArpRequest(n, m)
    \/ ArpResponse(n, m)
    \/ PacketForMe(n, m)
    \/ PacketExpired(n, m)
    \/ PacketForwarded(n, m)
    \/ RoutingFrame(n, m)

handle_response(n) == ResponseUnknown(n) \/ ResponseCached(n) \/ ResponseArp(n)

Next ==
    \/ \E n, t \in Nodes : \E client \in Clients, ttl \in TTLs :
        ClientMessage(n, t, client, ttl)
    \/ \E n \in Nodes : RouterAnswers(n)
    \/ \E n \in Nodes : handle_response(n)
    \/ \E n \in Nodes : Hello(n)
    \/ \E n, m \in Nodes : Update(n, m)
    \/ \E n, m \in Nodes : RawPacket(n, m)
    \/ \E n \in Nodes : RouterEnds(n) \/ RouterStarts(n)
    \/ \E n, m \in Nodes : Lose(n, m)

Spec == Init /\ [][Next]_vars

\* poll_loop serves every descriptor that has something to read, and the
\* routing daemon reads its socket.
Fairness ==
    /\ \A n \in Nodes :
        /\ WF_vars(RouterAnswers(n))
        /\ WF_vars(handle_response(n))
    /\ \A l \in Links : WF_vars(RawPacket(l[1], l[2]))

FairSpec == Spec /\ Fairness

-----------------------------------------------------------------------------
(* Properties *)

\* The answers and requests under way at n, oldest first.
Pending(n) == Len(router[n].responses) + Len(router[n].requests)

\* Every packet in the queue has its own request or answer under way, in the
\* same order: the two ends of the socket to the routing daemon stay aligned
\* (mip_daemon.c:641-643 and 682-713, mip_daemon_utils.c:104-147) although
\* nothing in an answer says which packet it is for.
QueueAligned ==
    \A n \in Nodes :
        /\ Len(routing_queue[n]) = Pending(n)
        /\ \A k \in 1..Len(routing_queue[n]) :
            LET t == routing_queue[n][k].dst
                r == Len(router[n].responses)
            IN  IF k <= r THEN router[n].responses[k] \in Routes[n][t]
                ELSE router[n].requests[k - r] = t

\* No answer finds the queue empty, where pop_waiting_queue gives back the
\* packet of the list head, which nobody ever wrote (mip_daemon_utils.c:174-178
\* and 118, 136): also when packets came while there was no routing daemon to
\* ask, when it was started again and the answers no longer belong to the
\* packets they are used for, and when it knew no path.
AnswersFindPackets ==
    \A n \in Nodes : Len(routing_queue[n]) >= Pending(n)

IsPacket(f) == f.type \in {"ping", "miptp"}

\* "The MIP-daemon forwards all traffic to the targets sat by the routing
\* daemon" (mip_daemon.c:61): a packet is only on links its own destination
\* is routed over.
RightNextHop ==
    \A n, m \in Nodes : \A i \in 1..Len(wire[n][m]) :
        IsPacket(wire[n][m][i]) => m \in Routes[n][wire[n][m][i].dst]

\* A packet in a routing loop is forwarded as often as its ttl says and then
\* dropped (mip_daemon.c:635-637): the four bits of the ttl never wrap.
HopsBounded ==
    \A n, m \in Nodes : \A i \in 1..Len(wire[n][m]) :
        LET p == wire[n][m][i]
        IN  IsPacket(p) => \E ttl \in TTLs : p.hops + p.ttl = HeaderTtl(ttl) + 1

\* No daemon exits for lack of space in its cache (mip_daemon.c:331-350),
\* which keeps every source it ever hears of.
AllUp == \A n \in Nodes : up[n]

\* A message of a client is handed to such a client at its destination in the
\* end: through two queues, the routing daemon of every node on the way
\* (mip_daemon.c:633-645, mip_daemon_utils.c:104-147) and, for a neighbour that
\* was never heard of, ARP (send_arp_queue, 199-227).
AllDelivered ==
    \A k \in 1..MaxMsgs :
        count >= k ~> \E n \in Nodes : \E d \in delivered[n] :
                        d.id = k /\ d.slot = d.client
=============================================================================
