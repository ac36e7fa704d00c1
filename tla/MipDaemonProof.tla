--------------------------- MODULE MipDaemonProof ---------------------------
(***************************************************************************)
(* Proofs about the MIP daemons, for every topology and every bound.       *)
(*                                                                         *)
(* EveryStep proves StepFacts, which say of any step where a new frame, a  *)
(* new packet in a queue and a new entry of the cache come from; the later *)
(* proofs use these facts and look at no action.                           *)
(*   Whatever the routes are: types, no answer without a packet, and hops  *)
(*     and ttl that add up (TypeCorrect, EveryAnswerFindsAPacket,          *)
(*     TtlBoundsHops); and the cache of a small network never fills up     *)
(*     (SmallNetworkStaysUp).                                              *)
(*   When every request is answered: the queue stays aligned with the      *)
(*     answers (QueueStaysAligned).                                        *)
(*   When in addition routes lead over neighbours (Steady): packets go     *)
(*     where they are routed (RoutedRight), and the cache needs room only  *)
(*     for the nodes that are heard of (CacheSuffices).                    *)
(***************************************************************************)
EXTENDS MipDaemon, SequenceTheorems, FiniteSetTheorems, WellFoundedInduction, TLAPS

\* What is in a sequence.
Elems(s) == {s[i] : i \in 1..Len(s)}

-----------------------------------------------------------------------------
(* Sequences *)

\* A sequence of which every element is in T is a sequence over T.
LEMMA ElemsTyped ==
    ASSUME NEW S, NEW T, NEW s \in Seq(S), Elems(s) \subseteq T
    PROVE  s \in Seq(T)
  BY DEF Elems

\* What is in a sequence over S is in S.
LEMMA ElemsOf ==
    ASSUME NEW S, NEW s \in Seq(S)
    PROVE  Elems(s) \subseteq S
  BY DEF Elems

\* Appending adds one element.
LEMMA ElemsAppend ==
    ASSUME NEW S, NEW s \in Seq(S), NEW e \in S
    PROVE  /\ Append(s, e) \in Seq(S)
           /\ Elems(Append(s, e)) = Elems(s) \cup {e}
  BY DEF Elems

\* What is in a concatenation is in one of its parts.
LEMMA ElemsConcat ==
    ASSUME NEW S, NEW s \in Seq(S), NEW t \in Seq(S)
    PROVE  /\ s \o t \in Seq(S)
           /\ Elems(s \o t) \subseteq Elems(s) \cup Elems(t)
  BY DEF Elems

\* Taking the first element adds none.
LEMMA ElemsTail ==
    ASSUME NEW S, NEW s \in Seq(S), s # <<>>
    PROVE  /\ Tail(s) \in Seq(S)
           /\ Head(s) \in S
           /\ Head(s) \in Elems(s)
           /\ Elems(Tail(s)) \subseteq Elems(s)
  BY DEF Elems

\* Nothing is in the empty sequence.
LEMMA ElemsEmpty == Elems(<<>>) = {}
  BY DEF Elems

\* A packet on a link is the packet, with one more link passed.
LEMMA OnWireTyped ==
    ASSUME NEW p \in Packet
    PROVE  /\ OnWire(p) \in Packet
           /\ OnWire(p).src = p.src /\ OnWire(p).dst = p.dst /\ OnWire(p).ttl = p.ttl
           /\ OnWire(p).type = p.type
           /\ OnWire(p).hops = p.hops + 1
  BY DEF OnWire, Packet

\* Induction: a set with 0 and with the successors of its numbers.
LEMMA UpTo ==
    ASSUME NEW L \in Nat, NEW I, 0 \in I,
           \A k \in 0..L : k # L /\ k \in I => k + 1 \in I
    PROVE  \A k \in 0..L : k \in I
  <1> DEFINE N == {k \in 0..L : k \notin I}
  <1>1. SUFFICES ASSUME N # {} PROVE FALSE
    OBVIOUS
  <1>2. N \subseteq Nat
    OBVIOUS
  <1>. HIDE DEF N
  <1>3. PICK k \in N : \A j \in N : ~(<<j, k>> \in OpToRel(<, Nat))
    BY <1>1, <1>2, NatLessThanWellFounded, WFMin, Zenon
  <1>4. \A j \in N : ~(j < k)
    BY <1>2, <1>3 DEF OpToRel
  <1>5. k \in 0..L /\ k \notin I /\ k # 0
    BY DEF N
  <1>6. k - 1 \in 0..L /\ k - 1 < k /\ k - 1 # L /\ (k - 1) + 1 = k
    BY <1>5
  <1>7. k - 1 \in I
    BY <1>4, <1>6 DEF N
  <1>. QED  BY <1>5, <1>6, <1>7

\* The packets for t in a queue, the k first of it.
Picks(queue, t, f, k) ==
    IF k = 0 THEN <<>>
    ELSE IF queue[k].dst = t THEN Append(f[k - 1], OnWire(queue[k]))
    ELSE f[k - 1]

\* The recursive function of Waiting exists.
LEMMA PicksExist ==
    ASSUME NEW queue \in Seq(Packet), NEW t
    PROVE  \E f : f = [i \in 0..Len(queue) |-> Picks(queue, t, f, i)]
  <1> DEFINE L == Len(queue)
             F(f, k) == Picks(queue, t, f, k)
             Solves(f, k) == f = [i \in 0..k |-> F(f, i)]
             I == {k \in 0..L : \E f : Solves(f, k)}
  <1>1. L \in Nat
    OBVIOUS
  <1>2. 0 \in I
    <2> DEFINE f == [i \in 0..0 |-> <<>>]
    <2>1. Solves(f, 0)
      BY DEF Picks
    <2>. HIDE DEF Solves
    <2>. QED  BY <1>1, <2>1
  <1>3. ASSUME NEW k \in 0..L, k # L, k \in I
        PROVE  k + 1 \in I
    <2>1. PICK g : Solves(g, k)
      BY <1>3
    <2> DEFINE f == [i \in 0..(k + 1) |-> F(g, i)]
    <2>2. \A i \in 0..k : f[i] = g[i]
      <3>1. \A i \in 0..k : g[i] = F(g, i)
        <4>. HIDE DEF F
        <4>. QED  BY <2>1
      <3>2. \A i \in 0..k : f[i] = F(g, i)
        <4>. HIDE DEF F
        <4>. QED  BY <1>1
      <3>. QED  BY <3>1, <3>2
    <2>. HIDE DEF f
    <2>3. ASSUME NEW i \in 0..(k + 1)
          PROVE  F(g, i) = F(f, i)
      <3>1. CASE i = 0
        BY <3>1 DEF Picks
      <3>2. CASE i # 0
        <4>1. i - 1 \in 0..k
          BY <1>1, <3>2
        <4>2. f[i - 1] = g[i - 1]
          BY <2>2, <4>1
        <4>. QED  BY <4>2 DEF Picks
      <3>. QED  BY <3>1, <3>2
    <2>4. f = [i \in 0..(k + 1) |-> F(f, i)]
      <3>. HIDE DEF F
      <3>. QED  BY <2>3 DEF f
    <2>5. k + 1 \in 0..L
      BY <1>1, <1>3
    <2>. HIDE DEF F
    <2>. QED  BY <2>4, <2>5
  <1>. HIDE DEF I
  <1>4. \A k \in 0..L : k \in I
    BY <1>1, <1>2, <1>3, UpTo
  <1>5. L \in 0..L
    BY <1>1
  <1>6. \E f : Solves(f, L)
    <2>. HIDE DEF L, Solves
    <2>. QED  BY <1>4, <1>5 DEF I
  <1>. QED  BY <1>6

\* A sequence of packets of the queue that are for t, as frames.
Picked(queue, t, s) ==
    /\ s \in Seq(Packet)
    /\ \A f \in Elems(s) : \E p \in Elems(queue) : p.dst = t /\ f = OnWire(p)

\* send_arp_queue (mip_daemon_utils.c:199-227) sends packets of the queue that
\* are for t, and nothing else.
LEMMA WaitingPicks ==
    ASSUME NEW queue \in Seq(Packet), NEW t
    PROVE  Picked(queue, t, Waiting(queue, t))
  <1> DEFINE L == Len(queue)
             G == CHOOSE f : f = [i \in 0..L |-> Picks(queue, t, f, i)]
             I == {k \in 0..L : Picked(queue, t, G[k])}
  <1>1. L \in Nat
    OBVIOUS
  <1>2. G = [i \in 0..L |-> Picks(queue, t, G, i)]
    BY PicksExist
  <1>3. Waiting(queue, t) = G[L]
    BY DEF Waiting, Picks
  <1>. HIDE DEF G
  <1>4. \A k \in 0..L : G[k] = Picks(queue, t, G, k)
    BY <1>2
  <1>5. 0 \in I
    <2>1. G[0] = <<>>
      BY <1>1, <1>4 DEF Picks
    <2>2. Picked(queue, t, <<>>)
      BY ElemsEmpty DEF Picked
    <2>. QED  BY <1>1, <2>1, <2>2
  <1>6. ASSUME NEW k \in 0..L, k # L, k \in I
        PROVE  k + 1 \in I
    <2>1. k + 1 \in 0..L /\ k + 1 \in 1..L /\ k + 1 # 0 /\ (k + 1) - 1 = k
      BY <1>1, <1>6
    <2> DEFINE s == G[k]
               p == queue[k + 1]
               o == OnWire(p)
    <2>2. p \in Packet /\ p \in Elems(queue)
      BY <2>1 DEF Elems
    <2>3. o \in Packet
      BY <2>2, OnWireTyped
    <2>4. Picked(queue, t, s)
      BY <1>6
    <2>5. G[k + 1] = IF p.dst = t THEN Append(s, o) ELSE s
      <3>1. G[k + 1] = Picks(queue, t, G, k + 1)
        BY <1>4, <2>1
      <3>. QED  BY <2>1, <3>1 DEF Picks
    <2>. HIDE DEF s, p, o
    <2>6. CASE p.dst = t
      <3>1. s \in Seq(Packet)
        BY <2>4 DEF Picked
      <3>2. Append(s, o) \in Seq(Packet) /\ Elems(Append(s, o)) = Elems(s) \cup {o}
        BY <2>3, <3>1, ElemsAppend
      <3>3. Picked(queue, t, Append(s, o))
        BY <2>2, <2>4, <2>6, <3>2 DEF o, Picked
      <3>. QED  BY <2>1, <2>5, <2>6, <3>3
    <2>7. CASE p.dst # t
      BY <2>1, <2>4, <2>5, <2>7
    <2>. QED  BY <2>6, <2>7
  <1>. HIDE DEF I
  <1>7. \A k \in 0..L : k \in I
    <2>. HIDE DEF L
    <2>. QED  BY <1>1, <1>5, <1>6, UpTo
  <1>8. L \in I
    <2>. HIDE DEF L
    <2>. QED  BY <1>1, <1>7
  <1>. QED  BY <1>3, <1>8 DEF I

-----------------------------------------------------------------------------
(* Frames and links *)

Frames == Packet \cup Arp \cup RoutingMsg
Wires == [Nodes -> [Nodes -> Seq(Frames)]]
Routers == [runs : BOOLEAN, requests : Seq(Nodes), responses : Seq(Nodes \cup {NoPath}),
            heard : SUBSET Nodes]

\* The type of a frame says what it is.
LEMMA FrameKinds ==
    ASSUME NEW f \in Frames
    PROVE  /\ f.src \in Nodes
           /\ f.type \in {"ping", "miptp"} => f \in Packet
           /\ f.type \in {"arp_req", "arp_res"} => f \in Arp
           /\ f.type \in {"HLO", "UPD"} => f \in RoutingMsg
           /\ f \in Packet => IsPacket(f)
           /\ f \in Arp \cup RoutingMsg => ~IsPacket(f)
  BY DEF Frames, Packet, Arp, RoutingMsg, IsPacket

\* What is on the links after n has sent the frames fs to the nodes in S.
LEMMA Sending ==
    ASSUME NEW w \in Wires, NEW n \in Nodes, NEW S, NEW fs \in Seq(Frames)
    PROVE  /\ Sent(w, n, S, fs) \in Wires
           /\ \A a, b \in Nodes : \A f \in Elems(Sent(w, n, S, fs)[a][b]) :
                \/ f \in Elems(w[a][b])
                \/ a = n /\ b \in S /\ f \in Elems(fs)
  <1> DEFINE v == Sent(w, n, S, fs)
  <1>1. ASSUME NEW a \in Nodes, NEW b \in Nodes
        PROVE  /\ w[a][b] \in Seq(Frames)
               /\ v[a][b] = w[a][b] \/ (a = n /\ b \in S /\ v[a][b] = w[a][b] \o fs)
    BY DEF Sent, Wires
  <1>2. v = [a \in Nodes |-> [b \in Nodes |-> v[a][b]]]
    BY DEF Sent, Wires
  <1>. HIDE DEF v
  <1>3. ASSUME NEW a \in Nodes, NEW b \in Nodes
        PROVE  /\ v[a][b] \in Seq(Frames)
               /\ \A f \in Elems(v[a][b]) : f \in Elems(w[a][b]) \/ (a = n /\ b \in S /\ f \in Elems(fs))
    <2>. DEFINE q == w[a][b]
                r == v[a][b]
    <2>1. q \in Seq(Frames) /\ (r = q \/ (a = n /\ b \in S /\ r = q \o fs))
      BY <1>1
    <2>. HIDE DEF q, r
    <2>2. q \o fs \in Seq(Frames) /\ Elems(q \o fs) \subseteq Elems(q) \cup Elems(fs)
      BY <2>1, ElemsConcat
    <2>3. r \in Seq(Frames) /\ \A f \in Elems(r) : f \in Elems(q) \/ (a = n /\ b \in S /\ f \in Elems(fs))
      BY <2>1, <2>2
    <2>. QED  BY <2>3 DEF q, r
  <1>4. v \in Wires
    BY <1>2, <1>3 DEF Wires
  <1>. QED  BY <1>3, <1>4 DEF v

\* One frame is written to the links from n to S.
LEMMA SendingOne ==
    ASSUME NEW w \in Wires, NEW n \in Nodes, NEW S, NEW o \in Frames
    PROVE  /\ Sent(w, n, S, <<o>>) \in Wires
           /\ \A a, b \in Nodes : \A f \in Elems(Sent(w, n, S, <<o>>)[a][b]) :
                f \in Elems(w[a][b]) \/ (a = n /\ b \in S /\ f = o)
  <1> DEFINE fs == <<o>>
  <1>1. fs \in Seq(Frames) /\ Elems(fs) = {o}
    BY DEF Elems
  <1>. HIDE DEF fs
  <1>2. /\ Sent(w, n, S, fs) \in Wires
        /\ \A a, b \in Nodes : \A f \in Elems(Sent(w, n, S, fs)[a][b]) :
                f \in Elems(w[a][b]) \/ (a = n /\ b \in S /\ f \in Elems(fs))
    BY <1>1, Sending
  <1>. QED  BY <1>1, <1>2 DEF fs

\* The first frame is taken off the link from m to n.
LEMMA Taking ==
    ASSUME NEW m \in Nodes, NEW n \in Nodes, wire \in Wires, wire[m][n] # <<>>
    PROVE  /\ Taken(m, n) \in Wires
           /\ \A a, b \in Nodes : Elems(Taken(m, n)[a][b]) \subseteq Elems(wire[a][b])
           /\ Frame(m, n) \in Frames
           /\ Frame(m, n) \in Elems(wire[m][n])
  <1> DEFINE v == Taken(m, n)
             q == wire[m][n]
  <1>1. q \in Seq(Frames) /\ q # <<>>
    BY DEF Wires
  <1>2. Frame(m, n) = Head(q)
    BY DEF Frame
  <1>3. ASSUME NEW a \in Nodes, NEW b \in Nodes
        PROVE  v[a][b] = IF a = m /\ b = n THEN Tail(q) ELSE wire[a][b]
    BY DEF Taken, Wires
  <1>4. v = [a \in Nodes |-> [b \in Nodes |-> v[a][b]]]
    BY DEF Taken, Wires
  <1>. HIDE DEF v
  <1>5. /\ Tail(q) \in Seq(Frames) /\ Head(q) \in Frames
        /\ Head(q) \in Elems(q) /\ Elems(Tail(q)) \subseteq Elems(q)
    <2>. HIDE DEF q
    <2>. QED  BY <1>1, ElemsTail
  <1>6. ASSUME NEW a \in Nodes, NEW b \in Nodes
        PROVE  v[a][b] \in Seq(Frames) /\ Elems(v[a][b]) \subseteq Elems(wire[a][b])
    <2>1. CASE a = m /\ b = n
      BY <1>3, <1>5, <2>1
    <2>2. CASE ~(a = m /\ b = n)
      <3>1. v[a][b] = wire[a][b]
        BY <1>3, <2>2
      <3>. QED  BY <3>1 DEF Wires
    <2>. QED  BY <2>1, <2>2
  <1>7. v \in Wires
    BY <1>4, <1>6 DEF Wires
  <1>. QED  BY <1>2, <1>5, <1>6, <1>7 DEF v

-----------------------------------------------------------------------------
(* What a step may do: the facts every later proof is made from *)

\* Types, and the packet every answer of the routing daemon finds.
TypeInv == TypeOK /\ AnswersFindPackets

\* A frame n makes itself, for a neighbour, for a node in its cache, or for
\* one it has a frame from.
OwnFrame(n, m, f) ==
    /\ f \in Arp \cup RoutingMsg
    /\ f.src = n
    /\ f.type = "arp_res" => f.address = n
    /\ \/ m \in Neighbours(n)
       \/ \E t \in Nodes : m = cache_table[n][t]
       \/ wire[m][n] # <<>>

\* The oldest packet of the queue, sent to the next hop it was given.
AnsweredFrame(n, m, f) ==
    /\ Responds(n)
    /\ Response(n) # NoPath
    /\ routing_queue[n] # <<>>
    /\ f = OnWire(Head(routing_queue[n]))
    /\ m = cache_table[n][Response(n)]

\* A packet that waited for ARP.
ResolvedFrame(n, m, f) ==
    \E p \in Elems(arp_queue[n]), k \in Nodes : \E g \in Elems(wire[k][n]) :
        /\ g \in Arp /\ g.type = "arp_res" /\ g.address = p.dst
        /\ f = OnWire(p)
        /\ m = cache_table'[n][p.dst]

\* Where the frames on the links come from.
NewFrames ==
    \A n, m \in Nodes : \A f \in Elems(wire'[n][m]) :
        \/ f \in Elems(wire[n][m])
        \/ OwnFrame(n, m, f)
        \/ AnsweredFrame(n, m, f)
        \/ ResolvedFrame(n, m, f)

\* A packet a client of n has written, and one that n passes on.
FromClient(n, p) ==
    /\ p \in Packet
    /\ p.src = n
    /\ <<n, p.dst>> \in Traffic
    /\ p.hops = 0
    /\ \E ttl \in TTLs : p.ttl = HeaderTtl(ttl)

\* A packet n has read from a link, to be passed on.
PassedOn(n, p) ==
    \E m \in Nodes : \E f \in Elems(wire[m][n]) :
        /\ f \in Packet
        /\ f.dst # n
        /\ f.ttl # 0
        /\ p = [f EXCEPT !.ttl = (@ + 15) % 16]

\* Where the packets in the queues come from.
NewQueued ==
    \A n \in Nodes : \A p \in Elems(routing_queue'[n]) :
        p \in Elems(routing_queue[n]) \/ FromClient(n, p) \/ PassedOn(n, p)

\* A packet that waits for ARP has waited for its answer before.
NewWaiting ==
    \A n \in Nodes : \A p \in Elems(arp_queue'[n]) :
        p \in Elems(arp_queue[n]) \/ p \in Elems(routing_queue[n])

\* An address comes into the cache with a frame from its owner.
NewCached ==
    \A n, t \in Nodes :
        \/ cache_table'[n][t] = cache_table[n][t]
        \/ /\ cache_table[n][t] = NoMac
           /\ cache_table'[n][t] \in Nodes
           /\ \E f \in Elems(wire[cache_table'[n][t]][n]) : f.src = t

\* What EveryStep proves of every step.
StepFacts == TypeInv' /\ NewFrames /\ NewQueued /\ NewWaiting /\ NewCached

\* The type invariant over the named sets.
LEMMA Typed ==
    TypeOK <=> /\ up \in [Nodes -> BOOLEAN]
               /\ cache_table \in [Nodes -> [Nodes -> Nodes \cup {NoMac}]]
               /\ routing_queue \in [Nodes -> Seq(Packet)]
               /\ arp_queue \in [Nodes -> Seq(Packet)]
               /\ router \in [Nodes -> Routers]
               /\ wire \in Wires
               /\ count \in Nat
               /\ delivered \in [Nodes -> SUBSET [slot : {"ping", "miptp"},
                                                  client : {"ping", "miptp"}, id : Nat]]
  BY DEF TypeOK, Routers, Wires, Frames

\* The arithmetic of a packet queued and a request written.
LEMMA OneMore ==
    ASSUME NEW a \in Nat, NEW b \in Nat, NEW c \in Nat, a >= b + c,
           NEW x, NEW y, NEW z, x = a + 1, y = b, z = c + 1
    PROVE  x >= y + z
  OBVIOUS

\* That of a packet queued alone.
LEMMA MoreThanEnough ==
    ASSUME NEW a \in Nat, NEW b \in Nat, NEW c \in Nat, a >= b + c,
           NEW x, NEW y, NEW z, x = a + 1, y = b, z = c
    PROVE  x >= y + z
  OBVIOUS

\* A packet is queued and the routing daemon is asked (mip_daemon.c:641-643).
LEMMA EnqueueAsks ==
    ASSUME TypeInv, NEW n \in Nodes, NEW p \in Packet, Enqueue(n, p), router[n].runs
    PROVE  /\ routing_queue' \in [Nodes -> Seq(Packet)]
           /\ router' \in [Nodes -> Routers]
           /\ AnswersFindPackets'
           /\ \A k \in Nodes : \A q \in Elems(routing_queue'[k]) :
                q \in Elems(routing_queue[k]) \/ (k = n /\ q = p)
  <1>1. /\ routing_queue \in [Nodes -> Seq(Packet)]
        /\ router \in [Nodes -> Routers]
        /\ AnswersFindPackets
    BY Typed DEF TypeInv
  <1>2. p.dst \in Nodes
    BY DEF Packet
  <1> DEFINE q == routing_queue[n]
             r == router[n]
  <1>3. /\ q \in Seq(Packet) /\ r \in Routers
        /\ r.requests \in Seq(Nodes) /\ r.responses \in Seq(Nodes \cup {NoPath})
        /\ r.heard \in SUBSET Nodes /\ r.runs
    BY <1>1 DEF Routers
  <1>4. /\ routing_queue' = [routing_queue EXCEPT ![n] = Append(q, p)]
        /\ router' = [router EXCEPT ![n] = [r EXCEPT !.requests = Append(r.requests, p.dst)]]
    BY <1>1, <1>2 DEF Enqueue, send_req_to_router, Routers
  <1>. HIDE DEF q, r
  <1>5. /\ Append(q, p) \in Seq(Packet) /\ Len(Append(q, p)) = Len(q) + 1
        /\ Elems(Append(q, p)) = Elems(q) \cup {p}
    BY <1>3, ElemsAppend
  <1> DEFINE asked == Append(r.requests, p.dst)
  <1>9. asked \in Seq(Nodes) /\ Len(asked) = Len(r.requests) + 1
    BY <1>2, <1>3
  <1>. HIDE DEF asked
  <1>6. /\ [r EXCEPT !.requests = asked] \in Routers
        /\ [r EXCEPT !.requests = asked].responses = r.responses
        /\ [r EXCEPT !.requests = asked].requests = asked
    BY <1>3, <1>9 DEF Routers
  <1>7. routing_queue' \in [Nodes -> Seq(Packet)] /\ router' \in [Nodes -> Routers]
    BY <1>1, <1>4, <1>5, <1>6 DEF asked
  <1>8. ASSUME NEW k \in Nodes
        PROVE  /\ Len(routing_queue'[k]) >= Len(router'[k].responses) + Len(router'[k].requests)
               /\ \A e \in Elems(routing_queue'[k]) :
                    e \in Elems(routing_queue[k]) \/ (k = n /\ e = p)
    <2>1. CASE k = n
      <3>1. /\ routing_queue'[k] = Append(q, p)
            /\ router'[k].responses = r.responses
            /\ router'[k].requests = asked
        BY <1>1, <1>4, <1>6, <2>1 DEF asked
      <3>2. Len(q) >= Len(r.responses) + Len(r.requests)
        BY <1>1 DEF AnswersFindPackets, Pending, q, r
      <3>3. Len(q) \in Nat /\ Len(r.responses) \in Nat /\ Len(r.requests) \in Nat
        BY <1>3
      <3>4. Len(routing_queue'[k]) >= Len(router'[k].responses) + Len(router'[k].requests)
        <4>1. Len(routing_queue'[k]) = Len(q) + 1
          BY <1>5, <3>1
        <4>2. Len(router'[k].responses) = Len(r.responses)
          BY <3>1
        <4>3. Len(router'[k].requests) = Len(r.requests) + 1
          BY <1>9, <3>1
        <4>. QED  BY <3>2, <3>3, <4>1, <4>2, <4>3, OneMore, Zenon
      <3>. QED  BY <1>5, <2>1, <3>1, <3>4 DEF q
    <2>2. CASE k # n
      <3>1. routing_queue'[k] = routing_queue[k] /\ router'[k] = router[k]
        BY <1>1, <1>4, <2>2
      <3>. QED  BY <1>1, <3>1 DEF AnswersFindPackets, Pending
    <2>. QED  BY <2>1, <2>2
  <1>. QED  BY <1>7, <1>8 DEF AnswersFindPackets, Pending

\* The record of what is under way.
UnderWay(runs, reqs, resps, heard) ==
    [runs |-> runs, requests |-> reqs, responses |-> resps, heard |-> heard]

\* A record of Routers with one part replaced.
LEMMA RouterPart ==
    ASSUME NEW r \in Routers, NEW x
    PROVE  /\ [r EXCEPT !.runs = x] = UnderWay(x, r.requests, r.responses, r.heard)
           /\ [r EXCEPT !.responses = x] = UnderWay(r.runs, r.requests, x, r.heard)
           /\ [r EXCEPT !.heard = x] = UnderWay(r.runs, r.requests, r.responses, x)
           /\ [r EXCEPT !.requests = x] = UnderWay(r.runs, x, r.responses, r.heard)
  BY DEF Routers, UnderWay

\* It is enough to count at the node that took the step.
LEMMA AnswersKept ==
    ASSUME AnswersFindPackets, NEW n \in Nodes,
           \A k \in Nodes : k # n => routing_queue'[k] = routing_queue[k],
           \A k \in Nodes : k # n => router'[k] = router[k],
           Len(routing_queue'[n]) >= Len(router'[n].responses) + Len(router'[n].requests)
    PROVE  AnswersFindPackets'
  <1>. SUFFICES ASSUME NEW k \in Nodes
                PROVE  Len(routing_queue'[k])
                            >= Len(router'[k].responses) + Len(router'[k].requests)
    BY DEF AnswersFindPackets, Pending
  <1>1. CASE k = n
    BY <1>1
  <1>2. CASE k # n
    BY <1>2 DEF AnswersFindPackets, Pending
  <1>. QED  BY <1>1, <1>2

\* The parts of what is under way, and the room they leave.
LEMMA RouterParts ==
    ASSUME TypeInv, NEW n \in Nodes
    PROVE  /\ router[n].runs \in BOOLEAN
           /\ router[n].requests \in Seq(Nodes)
           /\ router[n].responses \in Seq(Nodes \cup {NoPath})
           /\ router[n].heard \in SUBSET Nodes
           /\ Len(router[n].requests) \in Nat
           /\ Len(router[n].responses) \in Nat
           /\ routing_queue[n] \in Seq(Packet)
           /\ Len(routing_queue[n]) \in Nat
           /\ Len(routing_queue[n]) >= Len(router[n].responses) + Len(router[n].requests)
  <1>1. router[n] \in Routers /\ routing_queue[n] \in Seq(Packet)
    BY Typed DEF TypeInv
  <1>2. /\ router[n].runs \in BOOLEAN
        /\ router[n].requests \in Seq(Nodes)
        /\ router[n].responses \in Seq(Nodes \cup {NoPath})
        /\ router[n].heard \in SUBSET Nodes
    BY <1>1 DEF Routers
  <1>3. /\ Len(router[n].requests) \in Nat
        /\ Len(router[n].responses) \in Nat
        /\ Len(routing_queue[n]) \in Nat
    BY <1>1, <1>2
  <1>. QED  BY <1>1, <1>2, <1>3 DEF TypeInv, AnswersFindPackets, Pending

\* A packet is queued and there is no routing daemon to ask.
LEMMA EnqueueLost ==
    ASSUME TypeInv, NEW n \in Nodes, NEW p \in Packet, Enqueue(n, p), ~router[n].runs
    PROVE  /\ routing_queue' \in [Nodes -> Seq(Packet)]
           /\ router' \in [Nodes -> Routers]
           /\ AnswersFindPackets'
           /\ \A k \in Nodes : \A q \in Elems(routing_queue'[k]) :
                q \in Elems(routing_queue[k]) \/ (k = n /\ q = p)
  <1> DEFINE q == routing_queue[n]
  <1>1. /\ routing_queue \in [Nodes -> Seq(Packet)]
        /\ router \in [Nodes -> Routers]
    BY Typed DEF TypeInv
  <1>2. routing_queue' = [routing_queue EXCEPT ![n] = Append(q, p)] /\ UNCHANGED router
    BY DEF Enqueue, send_req_to_router
  <1>3. /\ q \in Seq(Packet) /\ Len(q) \in Nat
        /\ Len(router[n].responses) \in Nat /\ Len(router[n].requests) \in Nat
        /\ Len(q) >= Len(router[n].responses) + Len(router[n].requests)
    BY RouterParts
  <1>. HIDE DEF q
  <1>4. /\ Append(q, p) \in Seq(Packet) /\ Len(Append(q, p)) = Len(q) + 1
        /\ Elems(Append(q, p)) = Elems(q) \cup {p}
    BY <1>3, ElemsAppend
  <1>5. /\ routing_queue' \in [Nodes -> Seq(Packet)]
        /\ routing_queue'[n] = Append(q, p)
        /\ \A k \in Nodes : k # n => routing_queue'[k] = routing_queue[k]
    BY <1>1, <1>2, <1>4
  <1>6. AnswersFindPackets'
    <2>1. Len(routing_queue'[n]) >= Len(router'[n].responses) + Len(router'[n].requests)
      <3>1. /\ Len(routing_queue'[n]) = Len(q) + 1
            /\ Len(router'[n].responses) = Len(router[n].responses)
            /\ Len(router'[n].requests) = Len(router[n].requests)
        BY <1>2, <1>4, <1>5
      <3>. QED  BY <1>3, <3>1, MoreThanEnough, Zenon
    <2>. QED  BY <1>2, <1>5, <2>1, AnswersKept DEF TypeInv
  <1>7. ASSUME NEW k \in Nodes, NEW e \in Elems(routing_queue'[k])
        PROVE  e \in Elems(routing_queue[k]) \/ (k = n /\ e = p)
    <2>1. CASE k = n
      BY <1>4, <1>5, <1>7, <2>1 DEF q
    <2>2. CASE k # n
      BY <1>5, <1>7, <2>2
    <2>. QED  BY <2>1, <2>2
  <1>. QED  BY <1>1, <1>2, <1>5, <1>6, <1>7

\* A packet is queued, whether somebody is asked or not.
LEMMA EnqueueStep ==
    ASSUME TypeInv, NEW n \in Nodes, NEW p \in Packet, Enqueue(n, p)
    PROVE  /\ routing_queue' \in [Nodes -> Seq(Packet)]
           /\ router' \in [Nodes -> Routers]
           /\ AnswersFindPackets'
           /\ \A k \in Nodes : \A q \in Elems(routing_queue'[k]) :
                q \in Elems(routing_queue[k]) \/ (k = n /\ q = p)
  <1>1. CASE router[n].runs
    BY <1>1, EnqueueAsks
  <1>2. CASE ~router[n].runs
    BY <1>2, EnqueueLost
  <1>. QED  BY <1>1, <1>2

\* An answer is read (handle_routing_msg, mip_daemon_utils.c:104-147): there is
\* a packet for it, and the packet may go.
LEMMA AnswerStep ==
    ASSUME TypeInv, NEW n \in Nodes, Responds(n), router' = Answered(n),
           \/ UNCHANGED routing_queue
           \/ routing_queue' = [routing_queue EXCEPT ![n] = Tail(@)]
    PROVE  /\ router' \in [Nodes -> Routers]
           /\ Response(n) \in Nodes \cup {NoPath}
           /\ routing_queue[n] # <<>>
           /\ Head(routing_queue[n]) \in Packet
           /\ Head(routing_queue[n]) \in Elems(routing_queue[n])
           /\ routing_queue' \in [Nodes -> Seq(Packet)]
           /\ \A k \in Nodes : Elems(routing_queue'[k]) \subseteq Elems(routing_queue[k])
           /\ AnswersFindPackets'
  <1> DEFINE q == routing_queue[n]
             reqs == router[n].requests
             resps == router[n].responses
             heard == router[n].heard
             runs == router[n].runs
  <1>1. /\ runs \in BOOLEAN /\ reqs \in Seq(Nodes) /\ resps \in Seq(Nodes \cup {NoPath})
        /\ heard \in SUBSET Nodes
        /\ Len(reqs) \in Nat /\ Len(resps) \in Nat /\ Len(q) \in Nat
        /\ q \in Seq(Packet)
        /\ Len(q) >= Len(resps) + Len(reqs)
    BY RouterParts
  <1>2. router \in [Nodes -> Routers] /\ routing_queue \in [Nodes -> Seq(Packet)]
    BY Typed DEF TypeInv
  <1>3. resps # <<>> /\ Response(n) = Head(resps)
    BY DEF Responds, Response
  <1>4. router' = [router EXCEPT ![n] = UnderWay(runs, reqs, Tail(resps), heard)]
    <2>1. router[n] \in Routers
      BY <1>2
    <2>2. router' = [router EXCEPT ![n] = [router[n] EXCEPT !.responses = Tail(resps)]]
      BY <1>2 DEF Answered
    <2>. QED  BY <2>1, <2>2, RouterPart
  <1>5. routing_queue' = [routing_queue EXCEPT ![n] = q]
        \/ routing_queue' = [routing_queue EXCEPT ![n] = Tail(q)]
    BY <1>2
  <1>. HIDE DEF q, reqs, resps, heard, runs
  <1>6. /\ Head(resps) \in Nodes \cup {NoPath} /\ Tail(resps) \in Seq(Nodes \cup {NoPath})
        /\ Len(Tail(resps)) = Len(resps) - 1 /\ Len(resps) >= 1
    BY <1>1, <1>3
  <1>7. q # <<>> /\ Len(Tail(q)) = Len(q) - 1 /\ Len(q) >= 1
    <2>1. q # <<>>
      BY <1>1, <1>6
    <2>. QED  BY <1>1, <2>1
  <1>8. /\ Tail(q) \in Seq(Packet) /\ Head(q) \in Packet
        /\ Head(q) \in Elems(q) /\ Elems(Tail(q)) \subseteq Elems(q)
    BY <1>1, <1>7, ElemsTail
  <1>9. PICK s \in {q, Tail(q)} : routing_queue' = [routing_queue EXCEPT ![n] = s]
    BY <1>5
  <1>10. s \in Seq(Packet) /\ Elems(s) \subseteq Elems(q) /\ Len(s) >= Len(q) - 1
    <2>1. CASE s = q
      BY <1>1, <2>1
    <2>2. CASE s = Tail(q)
      BY <1>1, <1>7, <1>8, <2>2
    <2>. QED  BY <1>9, <2>1, <2>2
  <1>11. /\ router' \in [Nodes -> Routers]
         /\ router'[n].requests = reqs /\ router'[n].responses = Tail(resps)
         /\ \A k \in Nodes : k # n => router'[k] = router[k]
    <2> DEFINE r == UnderWay(runs, reqs, Tail(resps), heard)
    <2>1. r \in Routers /\ r.requests = reqs /\ r.responses = Tail(resps)
      BY <1>1, <1>6 DEF UnderWay, Routers
    <2>. HIDE DEF r
    <2>2. router' = [router EXCEPT ![n] = r]
      BY <1>4 DEF r
    <2>. QED  BY <1>2, <2>1, <2>2
  <1>12. routing_queue'[n] = s /\ \A k \in Nodes : k # n => routing_queue'[k] = routing_queue[k]
    BY <1>2, <1>9
  <1>13. routing_queue' \in [Nodes -> Seq(Packet)]
    BY <1>2, <1>9, <1>10
  <1>14. \A k \in Nodes : Elems(routing_queue'[k]) \subseteq Elems(routing_queue[k])
    BY <1>10, <1>12 DEF q
  <1>15. Len(routing_queue'[n]) >= Len(router'[n].responses) + Len(router'[n].requests)
    <2>1. Len(s) \in Nat /\ Len(s) >= Len(Tail(resps)) + Len(reqs)
      BY <1>1, <1>6, <1>10
    <2>. QED  BY <1>11, <1>12, <2>1, Zenon
  <1>16. AnswersFindPackets'
    BY <1>11, <1>12, <1>15, AnswersKept DEF TypeInv
  <1>. QED  BY <1>3, <1>6, <1>7, <1>8, <1>11, <1>13, <1>14, <1>16 DEF q

-----------------------------------------------------------------------------
(* The steps of a daemon, one by one *)

\* The header has room for the ttl.
LEMMA TtlTyped ==
    ASSUME NEW ttl \in TTLs
    PROVE  HeaderTtl(ttl) \in 0..15
  <1>1. ttl \in Nat /\ TTL \in Nat
    BY NumbersAssumption
  <1>. QED  BY <1>1 DEF HeaderTtl

\* A client writes a message (mip_daemon.c:682-713).
LEMMA ClientMessageStep ==
    ASSUME TypeInv, NEW n \in Nodes, NEW t \in Nodes, NEW client \in Clients,
           NEW ttl \in TTLs, ClientMessage(n, t, client, ttl)
    PROVE  StepFacts
  <1> DEFINE p == [type |-> SduType(client), src |-> n, dst |-> t,
                   ttl |-> HeaderTtl(ttl), id |-> count + 1, client |-> client,
                   hops |-> 0]
  <1>1. count \in Nat /\ client \in {"ping", "miptp"} /\ HeaderTtl(ttl) \in 0..15
    BY TtlTyped, NumbersAssumption DEF TypeInv, TypeOK
  <1>2. /\ p \in Packet /\ p.src = n /\ p.dst = t /\ p.hops = 0 /\ p.ttl = HeaderTtl(ttl)
    BY <1>1 DEF SduType, Packet
  <1>3. /\ Enqueue(n, p) /\ <<n, t>> \in Traffic /\ count' = count + 1
        /\ UNCHANGED <<up, cache_table, arp_queue, wire, delivered>>
    BY DEF ClientMessage
  <1>. HIDE DEF p
  <1>4. FromClient(n, p)
    BY <1>2, <1>3 DEF FromClient
  <1>5. /\ routing_queue' \in [Nodes -> Seq(Packet)]
        /\ router' \in [Nodes -> Routers]
        /\ AnswersFindPackets'
        /\ \A k \in Nodes : \A q \in Elems(routing_queue'[k]) :
                q \in Elems(routing_queue[k]) \/ (k = n /\ q = p)
    BY <1>2, <1>3, EnqueueStep
  <1>6. TypeOK'
    <2>1. count' \in Nat
      BY <1>1, <1>3
    <2>. QED  BY <1>3, <1>5, <2>1 DEF TypeInv, TypeOK, Routers
  <1>7. NewQueued
    BY <1>4, <1>5 DEF NewQueued
  <1>. QED  BY <1>3, <1>5, <1>6, <1>7
            DEF StepFacts, TypeInv, NewFrames, NewWaiting, NewCached

\* The routing daemon answers a request.
LEMMA RouterAnswersStep ==
    ASSUME TypeInv, NEW n \in Nodes, RouterAnswers(n)
    PROVE  StepFacts
  <1> DEFINE reqs == router[n].requests
             resps == router[n].responses
             heard == router[n].heard
             runs == router[n].runs
  <1>1. PICK x \in Routes[n][Head(reqs)] :
            router' = [router EXCEPT ![n] =
                UnderWay(runs, Tail(reqs), Append(resps, x), heard)]
    BY DEF RouterAnswers, UnderWay
  <1>2. /\ reqs # <<>>
        /\ UNCHANGED <<up, cache_table, routing_queue, arp_queue, wire, count, delivered>>
    BY DEF RouterAnswers
  <1>3. /\ reqs \in Seq(Nodes) /\ resps \in Seq(Nodes \cup {NoPath}) /\ heard \in SUBSET Nodes
        /\ runs \in BOOLEAN
        /\ Len(reqs) \in Nat /\ Len(resps) \in Nat /\ Len(routing_queue[n]) \in Nat
        /\ Len(routing_queue[n]) >= Len(resps) + Len(reqs)
    BY RouterParts
  <1>4. router \in [Nodes -> Routers]
    BY Typed DEF TypeInv
  <1>. HIDE DEF reqs, resps, heard, runs
  <1>5. /\ Tail(reqs) \in Seq(Nodes) /\ Head(reqs) \in Nodes
        /\ Len(Tail(reqs)) = Len(reqs) - 1
    BY <1>2, <1>3
  <1>6. x \in Nodes \cup {NoPath}
    BY <1>1, <1>5, RoutesAssumption
  <1>7. Append(resps, x) \in Seq(Nodes \cup {NoPath}) /\ Len(Append(resps, x)) = Len(resps) + 1
    BY <1>3, <1>6
  <1> DEFINE r == UnderWay(runs, Tail(reqs), Append(resps, x), heard)
  <1>8. r \in Routers /\ r.requests = Tail(reqs) /\ r.responses = Append(resps, x)
    BY <1>3, <1>5, <1>7 DEF UnderWay, Routers
  <1>9. router' = [router EXCEPT ![n] = r]
    BY <1>1
  <1>. HIDE DEF r
  <1>10. /\ router' \in [Nodes -> Routers]
         /\ router'[n].requests = Tail(reqs) /\ router'[n].responses = Append(resps, x)
         /\ \A k \in Nodes : k # n => router'[k] = router[k]
    BY <1>4, <1>8, <1>9
  <1>11. Len(routing_queue'[n]) >= Len(router'[n].responses) + Len(router'[n].requests)
    <2>1. Len(routing_queue[n]) >= Len(Append(resps, x)) + Len(Tail(reqs))
      BY <1>3, <1>5, <1>7
    <2>. QED  BY <1>2, <1>10, <2>1, Zenon
  <1>12. AnswersFindPackets'
    BY <1>2, <1>10, <1>11, AnswersKept DEF TypeInv
  <1>13. TypeOK'
    BY <1>2, <1>10 DEF TypeInv, TypeOK, Routers
  <1>. QED  BY <1>2, <1>12, <1>13
            DEF StepFacts, TypeInv, NewFrames, NewQueued, NewWaiting, NewCached

\* There is no path: the packet stays (mip_daemon_utils.c:109).
LEMMA ResponseUnknownStep ==
    ASSUME TypeInv, NEW n \in Nodes, ResponseUnknown(n)
    PROVE  StepFacts
  <1>1. /\ Responds(n) /\ router' = Answered(n)
        /\ UNCHANGED <<up, cache_table, routing_queue, arp_queue, wire, count, delivered>>
    BY DEF ResponseUnknown
  <1>2. router' \in [Nodes -> Routers] /\ AnswersFindPackets'
    BY <1>1, AnswerStep
  <1>3. TypeOK'
    BY <1>1, <1>2 DEF TypeInv, TypeOK, Routers
  <1>. QED  BY <1>1, <1>2, <1>3
            DEF StepFacts, TypeInv, NewFrames, NewQueued, NewWaiting, NewCached

\* The link address of the next hop is known: the oldest packet is sent.
LEMMA ResponseCachedStep ==
    ASSUME TypeInv, NEW n \in Nodes, ResponseCached(n)
    PROVE  StepFacts
  <1> DEFINE p == Head(routing_queue[n])
             o == OnWire(p)
             k == cache_table[n][Response(n)]
  <1>1. /\ Responds(n) /\ router' = Answered(n)
        /\ Response(n) # NoPath
        /\ wire' = Sent(wire, n, {k}, <<o>>)
        /\ routing_queue' = [routing_queue EXCEPT ![n] = Tail(@)]
        /\ UNCHANGED <<up, cache_table, arp_queue, count, delivered>>
    BY DEF ResponseCached, SendsFirst
  <1>2. /\ router' \in [Nodes -> Routers] /\ AnswersFindPackets'
        /\ routing_queue[n] # <<>> /\ p \in Packet
        /\ routing_queue' \in [Nodes -> Seq(Packet)]
        /\ \A a \in Nodes : Elems(routing_queue'[a]) \subseteq Elems(routing_queue[a])
    BY <1>1, AnswerStep
  <1>3. o \in Frames
    BY <1>2, OnWireTyped DEF Frames
  <1>4. wire \in Wires
    BY Typed DEF TypeInv
  <1>5. \A m \in Nodes : m \in {k} => AnsweredFrame(n, m, o)
    BY <1>1, <1>2 DEF AnsweredFrame
  <1>. HIDE DEF o, k
  <1>6. o \in Frames
    BY <1>3
  <1>7. /\ wire' \in Wires
        /\ \A a, b \in Nodes : \A f \in Elems(wire'[a][b]) :
                f \in Elems(wire[a][b]) \/ (a = n /\ b \in {k} /\ f = o)
    BY <1>1, <1>4, <1>6, SendingOne
  <1>8. NewFrames
    BY <1>5, <1>6, <1>7 DEF NewFrames
  <1>9. TypeOK'
    BY <1>1, <1>2, <1>7 DEF TypeInv, TypeOK, Routers, Wires, Frames
  <1>. QED  BY <1>1, <1>2, <1>8, <1>9
            DEF StepFacts, TypeInv, NewQueued, NewWaiting, NewCached

\* The link address is not known: the oldest packet waits for ARP.
LEMMA ResponseArpStep ==
    ASSUME TypeInv, NEW n \in Nodes, ResponseArp(n)
    PROVE  StepFacts
  <1> DEFINE p == Head(routing_queue[n])
             o == [type |-> "arp_req", src |-> n, address |-> Response(n)]
  <1>1. /\ Responds(n) /\ router' = Answered(n)
        /\ Response(n) # NoPath
        /\ wire' = Sent(wire, n, Neighbours(n), <<o>>)
        /\ routing_queue' = [routing_queue EXCEPT ![n] = Tail(@)]
        /\ arp_queue' = [arp_queue EXCEPT ![n] = Append(@, p)]
        /\ UNCHANGED <<up, cache_table, count, delivered>>
    BY DEF ResponseArp
  <1>2. /\ router' \in [Nodes -> Routers] /\ AnswersFindPackets'
        /\ Response(n) \in Nodes \cup {NoPath}
        /\ p \in Packet /\ p \in Elems(routing_queue[n])
        /\ routing_queue' \in [Nodes -> Seq(Packet)]
        /\ \A a \in Nodes : Elems(routing_queue'[a]) \subseteq Elems(routing_queue[a])
    BY <1>1, AnswerStep
  <1>3. o \in Arp /\ o.src = n /\ o.type # "arp_res"
    BY <1>1, <1>2 DEF Arp
  <1>4. wire \in Wires /\ arp_queue \in [Nodes -> Seq(Packet)]
    BY Typed DEF TypeInv
  <1>5. \A m \in Neighbours(n) : OwnFrame(n, m, o)
    BY <1>3 DEF OwnFrame
  <1>. HIDE DEF o, p
  <1>6. o \in Frames
    BY <1>3 DEF Frames
  <1>7. /\ wire' \in Wires
        /\ \A a, b \in Nodes : \A f \in Elems(wire'[a][b]) :
                f \in Elems(wire[a][b]) \/ (a = n /\ b \in Neighbours(n) /\ f = o)
    <2> DEFINE S == Neighbours(n)
    <2>1. wire' = Sent(wire, n, S, <<o>>)
      BY <1>1
    <2>. HIDE DEF S
    <2>2. wire \in Wires
      BY <1>4
    <2>3. wire' \in Wires /\ \A a, b \in Nodes : \A f \in Elems(wire'[a][b]) :
                f \in Elems(wire[a][b]) \/ (a = n /\ b \in S /\ f = o)
      BY <1>6, <2>1, <2>2, SendingOne
    <2>. QED  BY <2>3 DEF S
  <1>8. NewFrames
    BY <1>5, <1>6, <1>7 DEF NewFrames
  <1>9. /\ arp_queue' \in [Nodes -> Seq(Packet)]
        /\ NewWaiting
    <2> DEFINE q == arp_queue[n]
    <2>1. q \in Seq(Packet)
      BY <1>4
    <2>2. arp_queue' = [arp_queue EXCEPT ![n] = Append(q, p)]
      BY <1>1
    <2>. HIDE DEF q
    <2>3. Append(q, p) \in Seq(Packet) /\ Elems(Append(q, p)) = Elems(q) \cup {p}
      BY <1>2, <2>1, ElemsAppend
    <2>4. arp_queue' \in [Nodes -> Seq(Packet)]
      BY <1>4, <2>2, <2>3
    <2>5. ASSUME NEW a \in Nodes, NEW e \in Elems(arp_queue'[a])
          PROVE  e \in Elems(arp_queue[a]) \/ e \in Elems(routing_queue[a])
      <3>1. CASE a = n
        <4>1. arp_queue'[a] = Append(q, p)
          BY <1>4, <2>2, <3>1
        <4>. QED  BY <1>2, <2>3, <2>5, <3>1, <4>1 DEF q
      <3>2. CASE a # n
        <4>1. arp_queue'[a] = arp_queue[a]
          BY <1>4, <2>2, <3>2
        <4>. QED  BY <2>5, <4>1
      <3>. QED  BY <3>1, <3>2
    <2>. QED  BY <2>4, <2>5 DEF NewWaiting
  <1>10. TypeOK'
    BY <1>1, <1>2, <1>7, <1>9 DEF TypeInv, TypeOK, Routers, Wires, Frames
  <1>. QED  BY <1>1, <1>2, <1>8, <1>9, <1>10
            DEF StepFacts, TypeInv, NewQueued, NewCached

\* A frame of n's own is sent over the links w, which hold nothing new.
LEMMA OwnSent ==
    ASSUME TypeInv, NEW n \in Nodes, NEW S, NEW w \in Wires,
           \A a, b \in Nodes : Elems(w[a][b]) \subseteq Elems(wire[a][b]),
           NEW o \in Arp \cup RoutingMsg,
           \A m \in Nodes : m \in S => OwnFrame(n, m, o),
           wire' = Sent(w, n, S, <<o>>)
    PROVE  wire' \in Wires /\ NewFrames
  <1>1. o \in Frames
    BY DEF Frames
  <1>2. wire' \in Wires /\ \A a, b \in Nodes : \A f \in Elems(wire'[a][b]) :
            f \in Elems(w[a][b]) \/ (a = n /\ b \in S /\ f = o)
    BY <1>1, SendingOne
  <1>. QED  BY <1>2 DEF NewFrames

\* Nothing new on the links.
LEMMA SameWires == \A a, b \in Nodes : Elems(wire[a][b]) \subseteq Elems(wire[a][b])
  OBVIOUS

\* The routing daemon has a hello sent.
LEMMA HelloStep ==
    ASSUME TypeInv, NEW n \in Nodes, Hello(n)
    PROVE  StepFacts
  <1> DEFINE o == [type |-> "HLO", src |-> n, dst |-> NoPath]
             S == Neighbours(n)
  <1>1. wire' = Sent(wire, n, S, <<o>>)
    BY DEF Hello
  <1>2. UNCHANGED <<up, cache_table, routing_queue, arp_queue, router, count, delivered>>
    BY DEF Hello
  <1>3. o \in RoutingMsg /\ o.src = n /\ o.type # "arp_res"
    BY DEF RoutingMsg
  <1>4. wire \in Wires
    BY Typed DEF TypeInv
  <1>5. \A m \in Nodes : m \in S => OwnFrame(n, m, o)
    BY <1>3 DEF OwnFrame
  <1>6. o \in Arp \cup RoutingMsg
    BY <1>3
  <1>. HIDE DEF o, S
  <1>7. wire' \in Wires /\ NewFrames
    BY <1>1, <1>4, <1>5, <1>6, SameWires, OwnSent
  <1>8. TypeOK'
    BY <1>2, <1>7 DEF TypeInv, TypeOK, Wires, Frames
  <1>. QED  BY <1>2, <1>7, <1>8
            DEF StepFacts, TypeInv, AnswersFindPackets, Pending, NewQueued, NewWaiting, NewCached

\* The routing daemon has an update sent.
LEMMA UpdateStep ==
    ASSUME TypeInv, NEW n \in Nodes, NEW m \in Nodes, Update(n, m)
    PROVE  StepFacts
  <1> DEFINE o == [type |-> "UPD", src |-> n, dst |-> m]
             S == {cache_table[n][m]}
  <1>1. wire' = Sent(wire, n, S, <<o>>)
    BY DEF Update
  <1>2. UNCHANGED <<up, cache_table, routing_queue, arp_queue, router, count, delivered>>
    BY DEF Update
  <1>3. o \in RoutingMsg /\ o.src = n /\ o.type # "arp_res"
    BY DEF RoutingMsg
  <1>4. wire \in Wires
    BY Typed DEF TypeInv
  <1>5. \A k \in Nodes : k \in S => OwnFrame(n, k, o)
    BY <1>3 DEF OwnFrame
  <1>6. o \in Arp \cup RoutingMsg
    BY <1>3
  <1>. HIDE DEF o, S
  <1>7. wire' \in Wires /\ NewFrames
    BY <1>1, <1>4, <1>5, <1>6, SameWires, OwnSent
  <1>8. TypeOK'
    BY <1>2, <1>7 DEF TypeInv, TypeOK, Wires, Frames
  <1>. QED  BY <1>2, <1>7, <1>8
            DEF StepFacts, TypeInv, AnswersFindPackets, Pending, NewQueued, NewWaiting, NewCached

\* The routing daemon has ended.
LEMMA RouterEndsStep ==
    ASSUME TypeInv, NEW n \in Nodes, RouterEnds(n)
    PROVE  StepFacts
  <1> DEFINE r == UnderWay(FALSE, <<>>, <<>>, {})
  <1>1. router' = [router EXCEPT ![n] = r]
    BY DEF RouterEnds, UnderWay
  <1>2. UNCHANGED <<up, cache_table, routing_queue, arp_queue, wire, count, delivered>>
    BY DEF RouterEnds
  <1>3. r \in Routers /\ r.requests = <<>> /\ r.responses = <<>>
    BY DEF UnderWay, Routers
  <1>. HIDE DEF r
  <1>4. router \in [Nodes -> Routers] /\ Len(routing_queue[n]) \in Nat
    BY Typed, RouterParts DEF TypeInv
  <1>5. /\ router' \in [Nodes -> Routers]
        /\ router'[n].requests = <<>> /\ router'[n].responses = <<>>
        /\ \A k \in Nodes : k # n => router'[k] = router[k]
    BY <1>1, <1>3, <1>4
  <1>6. Len(routing_queue'[n]) >= Len(router'[n].responses) + Len(router'[n].requests)
    <2>1. Len(router'[n].responses) = 0 /\ Len(router'[n].requests) = 0
      BY <1>5
    <2>2. Len(routing_queue'[n]) \in Nat
      BY <1>2, <1>4
    <2>. QED  BY <2>1, <2>2
  <1>7. AnswersFindPackets'
    BY <1>2, <1>5, <1>6, AnswersKept DEF TypeInv
  <1>8. TypeOK'
    BY <1>2, <1>5 DEF TypeInv, TypeOK, Routers
  <1>. QED  BY <1>2, <1>7, <1>8
            DEF StepFacts, TypeInv, NewFrames, NewQueued, NewWaiting, NewCached

\* The routing daemon is started again.
LEMMA RouterStartsStep ==
    ASSUME TypeInv, NEW n \in Nodes, RouterStarts(n)
    PROVE  StepFacts
  <1> DEFINE r == [router[n] EXCEPT !.runs = TRUE]
  <1>1. router \in [Nodes -> Routers]
    BY Typed DEF TypeInv
  <1>2. router' = [router EXCEPT ![n] = r]
    BY <1>1 DEF RouterStarts
  <1>3. UNCHANGED <<up, cache_table, routing_queue, arp_queue, wire, count, delivered>>
    BY DEF RouterStarts
  <1>4. /\ r \in Routers
        /\ r.requests = router[n].requests /\ r.responses = router[n].responses
    <2>1. router[n] \in Routers
      BY <1>1
    <2>. QED  BY <2>1 DEF Routers
  <1>. HIDE DEF r
  <1>5. /\ router' \in [Nodes -> Routers]
        /\ \A k \in Nodes : /\ router'[k].requests = router[k].requests
                            /\ router'[k].responses = router[k].responses
    BY <1>1, <1>2, <1>4
  <1>6. AnswersFindPackets'
    BY <1>3, <1>5 DEF TypeInv, AnswersFindPackets, Pending
  <1>7. TypeOK'
    BY <1>3, <1>5 DEF TypeInv, TypeOK, Routers
  <1>. QED  BY <1>3, <1>6, <1>7
            DEF StepFacts, TypeInv, NewFrames, NewQueued, NewWaiting, NewCached

\* A frame is lost.
LEMMA LoseStep ==
    ASSUME TypeInv, NEW n \in Nodes, NEW m \in Nodes, Lose(n, m)
    PROVE  StepFacts
  <1>1. /\ wire[m][n] # <<>> /\ wire' = Taken(m, n)
        /\ UNCHANGED <<up, cache_table, routing_queue, arp_queue, router, count, delivered>>
    BY DEF Lose
  <1>2. wire \in Wires
    BY Typed DEF TypeInv
  <1>3. wire' \in Wires /\ \A a, b \in Nodes : Elems(wire'[a][b]) \subseteq Elems(wire[a][b])
    BY <1>1, <1>2, Taking
  <1>4. TypeOK'
    BY <1>1, <1>3 DEF TypeInv, TypeOK, Wires, Frames
  <1>. QED  BY <1>1, <1>3, <1>4
            DEF StepFacts, TypeInv, AnswersFindPackets, Pending, NewFrames, NewQueued,
                NewWaiting, NewCached

\* The source of the frame comes into the cache (mip_daemon.c:331-350).
LEMMA ReceivesStep ==
    ASSUME TypeInv, NEW n \in Nodes, NEW m \in Nodes, NEW types, Receives(n, m, types)
    PROVE  /\ wire[m][n] # <<>>
           /\ wire \in Wires
           /\ Frame(m, n).type \in types
           /\ Frame(m, n) \in Frames
           /\ Frame(m, n) \in Elems(wire[m][n])
           /\ Taken(m, n) \in Wires
           /\ \A a, b \in Nodes : Elems(Taken(m, n)[a][b]) \subseteq Elems(wire[a][b])
           /\ cache_table' \in [Nodes -> [Nodes -> Nodes \cup {NoMac}]]
           /\ NewCached
  <1> DEFINE f == Frame(m, n)
             src == f.src
  <1>1. /\ wire[m][n] # <<>> /\ f.type \in types
        /\ cache_table' = [cache_table EXCEPT ![n][src] = IF @ = NoMac THEN m ELSE @]
    BY DEF Receives
  <1>2. wire \in Wires /\ cache_table \in [Nodes -> [Nodes -> Nodes \cup {NoMac}]]
    BY Typed DEF TypeInv
  <1>3. /\ f \in Frames /\ f \in Elems(wire[m][n])
        /\ Taken(m, n) \in Wires
        /\ \A a, b \in Nodes : Elems(Taken(m, n)[a][b]) \subseteq Elems(wire[a][b])
    BY <1>1, <1>2, Taking
  <1>4. src \in Nodes
    BY <1>3, FrameKinds
  <1>. HIDE DEF f
  <1>5. cache_table' \in [Nodes -> [Nodes -> Nodes \cup {NoMac}]]
    BY <1>1, <1>2, <1>4
  <1>6. ASSUME NEW a \in Nodes, NEW t \in Nodes, cache_table'[a][t] # cache_table[a][t]
        PROVE  /\ cache_table[a][t] = NoMac
               /\ cache_table'[a][t] \in Nodes
               /\ \E g \in Elems(wire[cache_table'[a][t]][a]) : g.src = t
    <2>1. a = n /\ t = src /\ cache_table[a][t] = NoMac /\ cache_table'[a][t] = m
      BY <1>1, <1>2, <1>4, <1>6
    <2>. QED  BY <1>3, <2>1
  <1>7. NewCached
    BY <1>6 DEF NewCached
  <1>. QED  BY <1>1, <1>2, <1>3, <1>5, <1>7 DEF f

\* The cache has no space: the daemon exits (mip_daemon.c:339).
LEMMA CacheFullStep ==
    ASSUME TypeInv, NEW n \in Nodes, NEW m \in Nodes, CacheFull(n, m)
    PROVE  StepFacts
  <1>1. /\ wire[m][n] # <<>> /\ wire' = Taken(m, n)
        /\ up' = [up EXCEPT ![n] = FALSE]
        /\ UNCHANGED <<cache_table, routing_queue, arp_queue, router, count, delivered>>
    BY DEF CacheFull
  <1>2. wire \in Wires
    BY Typed DEF TypeInv
  <1>3. wire' \in Wires /\ \A a, b \in Nodes : Elems(wire'[a][b]) \subseteq Elems(wire[a][b])
    BY <1>1, <1>2, Taking
  <1>4. TypeOK'
    BY <1>1, <1>3 DEF TypeInv, TypeOK, Wires, Frames
  <1>. QED  BY <1>1, <1>3, <1>4
            DEF StepFacts, TypeInv, AnswersFindPackets, Pending, NewFrames, NewQueued,
                NewWaiting, NewCached

\* An ARP request is read, and answered when it is for this node.
LEMMA ArpRequestStep ==
    ASSUME TypeInv, NEW n \in Nodes, NEW m \in Nodes, ArpRequest(n, m)
    PROVE  StepFacts
  <1> DEFINE o == [type |-> "arp_res", src |-> n, address |-> n]
  <1>1. /\ Receives(n, m, {"arp_req"})
        /\ UNCHANGED <<up, routing_queue, arp_queue, router, count, delivered>>
    BY DEF ArpRequest
  <1>2. PICK S \in SUBSET {m} : wire' = Sent(Taken(m, n), n, S, <<o>>)
    BY DEF ArpRequest
  <1>3. /\ wire[m][n] # <<>> /\ Taken(m, n) \in Wires
        /\ \A a, b \in Nodes : Elems(Taken(m, n)[a][b]) \subseteq Elems(wire[a][b])
        /\ cache_table' \in [Nodes -> [Nodes -> Nodes \cup {NoMac}]]
        /\ NewCached
    BY <1>1, ReceivesStep
  <1>4. o \in Arp /\ o.src = n /\ o.address = n
    BY DEF Arp
  <1>5. \A k \in Nodes : k \in S => OwnFrame(n, k, o)
    BY <1>3, <1>4 DEF OwnFrame
  <1>6. o \in Arp \cup RoutingMsg
    BY <1>4
  <1>. HIDE DEF o
  <1>7. wire' \in Wires /\ NewFrames
    BY <1>2, <1>3, <1>5, <1>6, OwnSent
  <1>8. TypeOK'
    BY <1>1, <1>3, <1>7 DEF TypeInv, TypeOK, Wires, Frames
  <1>. QED  BY <1>1, <1>3, <1>7, <1>8
            DEF StepFacts, TypeInv, AnswersFindPackets, Pending, NewQueued, NewWaiting

\* An ARP response is read: packets that wait for its sender are sent.
LEMMA ArpResponseStep ==
    ASSUME TypeInv, NEW n \in Nodes, NEW m \in Nodes, ArpResponse(n, m)
    PROVE  StepFacts
  <1> DEFINE g == Frame(m, n)
             t == g.address
             fs == Waiting(arp_queue[n], t)
             k == cache_table'[n][t]
             w == Taken(m, n)
  <1>1. /\ Receives(n, m, {"arp_res"})
        /\ UNCHANGED <<up, routing_queue, arp_queue, router, count, delivered>>
    BY DEF ArpResponse
  <1>2. wire' = Sent(w, n, {k}, fs)
    BY DEF ArpResponse
  <1>3. /\ w \in Wires
        /\ \A a, b \in Nodes : Elems(w[a][b]) \subseteq Elems(wire[a][b])
        /\ cache_table' \in [Nodes -> [Nodes -> Nodes \cup {NoMac}]]
        /\ NewCached
        /\ g \in Frames /\ g.type \in {"arp_res"} /\ g \in Elems(wire[m][n])
    BY <1>1, ReceivesStep
  <1>4. g \in Arp
    BY <1>3, FrameKinds
  <1>5. arp_queue[n] \in Seq(Packet)
    BY Typed DEF TypeInv
  <1>6. /\ fs \in Seq(Packet)
        /\ \A f \in Elems(fs) : \E p \in Elems(arp_queue[n]) : p.dst = t /\ f = OnWire(p)
    BY <1>5, WaitingPicks DEF Picked
  <1>7. \A f \in Elems(fs) : \A j \in Nodes : j \in {k} => ResolvedFrame(n, j, f)
    BY <1>3, <1>4, <1>6 DEF ResolvedFrame
  <1>. HIDE DEF fs, k, w, g
  <1>8. fs \in Seq(Frames)
    BY <1>6 DEF Frames
  <1>9. wire' \in Wires /\ \A a, b \in Nodes : \A f \in Elems(wire'[a][b]) :
            f \in Elems(w[a][b]) \/ (a = n /\ b \in {k} /\ f \in Elems(fs))
    <2> DEFINE S == {k}
    <2>1. wire' = Sent(w, n, S, fs) /\ w \in Wires
      BY <1>2, <1>3
    <2>. HIDE DEF S
    <2>2. wire' \in Wires /\ \A a, b \in Nodes : \A f \in Elems(wire'[a][b]) :
            f \in Elems(w[a][b]) \/ (a = n /\ b \in S /\ f \in Elems(fs))
      BY <1>8, <2>1, Sending
    <2>. QED  BY <2>2 DEF S
  <1>10. NewFrames
    BY <1>3, <1>7, <1>9 DEF NewFrames
  <1>11. TypeOK'
    BY <1>1, <1>3, <1>9 DEF TypeInv, TypeOK, Wires, Frames
  <1>. QED  BY <1>1, <1>3, <1>10, <1>11
            DEF StepFacts, TypeInv, AnswersFindPackets, Pending, NewQueued, NewWaiting

\* A packet for this node is handed to its client.
LEMMA PacketForMeStep ==
    ASSUME TypeInv, NEW n \in Nodes, NEW m \in Nodes, PacketForMe(n, m)
    PROVE  StepFacts
  <1> DEFINE p == Frame(m, n)
             d == [slot |-> p.type, client |-> p.client, id |-> p.id]
  <1>1. /\ Receives(n, m, {"ping", "miptp"})
        /\ wire' = Taken(m, n)
        /\ delivered' = [delivered EXCEPT ![n] = @ \cup {d}]
        /\ UNCHANGED <<up, routing_queue, arp_queue, router, count>>
    BY DEF PacketForMe
  <1>2. /\ wire' \in Wires
        /\ \A a, b \in Nodes : Elems(wire'[a][b]) \subseteq Elems(wire[a][b])
        /\ cache_table' \in [Nodes -> [Nodes -> Nodes \cup {NoMac}]]
        /\ NewCached
        /\ p \in Frames /\ p.type \in {"ping", "miptp"}
    BY <1>1, ReceivesStep
  <1>3. p \in Packet
    BY <1>2, FrameKinds
  <1>. HIDE DEF p
  <1>4. d \in [slot : {"ping", "miptp"}, client : {"ping", "miptp"}, id : Nat]
    BY <1>3 DEF Packet
  <1>. HIDE DEF d
  <1>5. TypeOK'
    BY <1>1, <1>2, <1>4 DEF TypeInv, TypeOK, Wires, Frames
  <1>. QED  BY <1>1, <1>2, <1>5
            DEF StepFacts, TypeInv, AnswersFindPackets, Pending, NewFrames, NewQueued, NewWaiting

\* The ttl of a packet is used up.
LEMMA PacketExpiredStep ==
    ASSUME TypeInv, NEW n \in Nodes, NEW m \in Nodes, PacketExpired(n, m)
    PROVE  StepFacts
  <1>1. /\ Receives(n, m, {"ping", "miptp"})
        /\ wire' = Taken(m, n)
        /\ UNCHANGED <<up, routing_queue, arp_queue, router, count, delivered>>
    BY DEF PacketExpired
  <1>2. /\ wire' \in Wires
        /\ \A a, b \in Nodes : Elems(wire'[a][b]) \subseteq Elems(wire[a][b])
        /\ cache_table' \in [Nodes -> [Nodes -> Nodes \cup {NoMac}]]
        /\ NewCached
    BY <1>1, ReceivesStep
  <1>3. TypeOK'
    BY <1>1, <1>2 DEF TypeInv, TypeOK, Wires, Frames
  <1>. QED  BY <1>1, <1>2, <1>3
            DEF StepFacts, TypeInv, AnswersFindPackets, Pending, NewFrames, NewQueued, NewWaiting

\* A packet is queued to be passed on, with one less ttl.
LEMMA PacketForwardedStep ==
    ASSUME TypeInv, NEW n \in Nodes, NEW m \in Nodes, PacketForwarded(n, m)
    PROVE  StepFacts
  <1> DEFINE f == Frame(m, n)
             p == [f EXCEPT !.ttl = (@ + 15) % 16]
  <1>1. /\ Receives(n, m, {"ping", "miptp"})
        /\ f.dst # n /\ ~TtlExpired(f)
        /\ wire' = Taken(m, n)
        /\ Enqueue(n, p)
        /\ UNCHANGED <<up, arp_queue, count, delivered>>
    BY DEF PacketForwarded
  <1>2. /\ wire' \in Wires
        /\ \A a, b \in Nodes : Elems(wire'[a][b]) \subseteq Elems(wire[a][b])
        /\ cache_table' \in [Nodes -> [Nodes -> Nodes \cup {NoMac}]]
        /\ NewCached
        /\ f \in Frames /\ f \in Elems(wire[m][n]) /\ f.type \in {"ping", "miptp"}
    BY <1>1, ReceivesStep
  <1>3. f \in Packet
    BY <1>2, FrameKinds
  <1>. HIDE DEF f
  <1>4. p \in Packet
    <2>1. f.ttl \in 0..15
      BY <1>3 DEF Packet
    <2>2. (f.ttl + 15) % 16 \in 0..15
      BY <2>1
    <2>. QED  BY <1>3, <2>2 DEF Packet
  <1>5. PassedOn(n, p)
    BY <1>1, <1>2, <1>3 DEF PassedOn, TtlExpired
  <1>. HIDE DEF p
  <1>6. /\ routing_queue' \in [Nodes -> Seq(Packet)]
        /\ router' \in [Nodes -> Routers]
        /\ AnswersFindPackets'
        /\ \A k \in Nodes : \A q \in Elems(routing_queue'[k]) :
                q \in Elems(routing_queue[k]) \/ (k = n /\ q = p)
    BY <1>1, <1>4, EnqueueStep
  <1>7. NewQueued
    BY <1>5, <1>6 DEF NewQueued
  <1>8. TypeOK'
    BY <1>1, <1>2, <1>6 DEF TypeInv, TypeOK, Wires, Frames, Routers
  <1>. QED  BY <1>1, <1>2, <1>6, <1>7, <1>8
            DEF StepFacts, TypeInv, NewFrames, NewWaiting

\* A hello or an update of a neighbour is read.
LEMMA RoutingFrameStep ==
    ASSUME TypeInv, NEW n \in Nodes, NEW m \in Nodes, RoutingFrame(n, m)
    PROVE  StepFacts
  <1> DEFINE f == Frame(m, n)
             h == router[n].heard \cup {f.src}
  <1>1. /\ Receives(n, m, {"HLO", "UPD"})
        /\ wire' = Taken(m, n)
        /\ router' = [router EXCEPT ![n].heard = h] \/ UNCHANGED router
        /\ UNCHANGED <<up, routing_queue, arp_queue, count, delivered>>
    BY Typed DEF RoutingFrame, TypeInv
  <1>2. /\ wire' \in Wires
        /\ \A a, b \in Nodes : Elems(wire'[a][b]) \subseteq Elems(wire[a][b])
        /\ cache_table' \in [Nodes -> [Nodes -> Nodes \cup {NoMac}]]
        /\ NewCached
        /\ f \in Frames
    BY <1>1, ReceivesStep
  <1>3. router \in [Nodes -> Routers]
    BY Typed DEF TypeInv
  <1>4. h \in SUBSET Nodes
    BY <1>2, FrameKinds, RouterParts
  <1>. HIDE DEF h
  <1>5. /\ router' \in [Nodes -> Routers]
        /\ \A k \in Nodes : /\ router'[k].requests = router[k].requests
                            /\ router'[k].responses = router[k].responses
    <2>1. CASE UNCHANGED router
      BY <1>3, <2>1
    <2>2. CASE router' = [router EXCEPT ![n].heard = h]
      <3> DEFINE r == [router[n] EXCEPT !.heard = h]
      <3>1. router[n] \in Routers /\ router' = [router EXCEPT ![n] = r]
        BY <1>3, <2>2
      <3>2. r \in Routers /\ r.requests = router[n].requests /\ r.responses = router[n].responses
        BY <1>4, <3>1 DEF Routers
      <3>. HIDE DEF r
      <3>. QED  BY <1>3, <3>1, <3>2
    <2>. QED  BY <1>1, <2>1, <2>2
  <1>6. AnswersFindPackets'
    BY <1>1, <1>5 DEF TypeInv, AnswersFindPackets, Pending
  <1>7. TypeOK'
    BY <1>1, <1>2, <1>5 DEF TypeInv, TypeOK, Wires, Frames, Routers
  <1>. QED  BY <1>1, <1>2, <1>6, <1>7
            DEF StepFacts, TypeInv, NewFrames, NewQueued, NewWaiting

\* The facts hold of every step, so that no later proof has to look at actions.
LEMMA EveryStep ==
    ASSUME TypeInv, [Next]_vars
    PROVE  StepFacts
  <1>1. CASE UNCHANGED vars
    BY <1>1 DEF vars, StepFacts, TypeInv, TypeOK, AnswersFindPackets, Pending, NewFrames,
                NewQueued, NewWaiting, NewCached
  <1>2. ASSUME NEW n \in Nodes, NEW t \in Nodes, NEW client \in Clients, NEW ttl \in TTLs,
               ClientMessage(n, t, client, ttl)
        PROVE  StepFacts
    BY <1>2, ClientMessageStep
  <1>3. ASSUME NEW n \in Nodes, RouterAnswers(n)
        PROVE  StepFacts
    BY <1>3, RouterAnswersStep
  <1>4. ASSUME NEW n \in Nodes, handle_response(n)
        PROVE  StepFacts
    BY <1>4, ResponseUnknownStep, ResponseCachedStep, ResponseArpStep DEF handle_response
  <1>5. ASSUME NEW n \in Nodes, Hello(n)
        PROVE  StepFacts
    BY <1>5, HelloStep
  <1>6. ASSUME NEW n \in Nodes, NEW m \in Nodes, Update(n, m)
        PROVE  StepFacts
    BY <1>6, UpdateStep
  <1>7. ASSUME NEW n \in Nodes, NEW m \in Nodes, RawPacket(n, m)
        PROVE  StepFacts
    BY <1>7, CacheFullStep, ArpRequestStep, ArpResponseStep, PacketForMeStep,
       PacketExpiredStep, PacketForwardedStep, RoutingFrameStep DEF RawPacket
  <1>8. ASSUME NEW n \in Nodes, RouterEnds(n) \/ RouterStarts(n)
        PROVE  StepFacts
    BY <1>8, RouterEndsStep, RouterStartsStep
  <1>9. ASSUME NEW n \in Nodes, NEW m \in Nodes, Lose(n, m)
        PROVE  StepFacts
    BY <1>9, LoseStep
  <1>. QED  BY <1>1, <1>2, <1>3, <1>4, <1>5, <1>6, <1>7, <1>8, <1>9 DEF Next

-----------------------------------------------------------------------------
(* Types, and a packet for every answer *)

\* Types and the count of answers are invariant.
LEMMA TypeInvInvariant == Spec => []TypeInv
  <1>1. Init => TypeInv
    <2>. SUFFICES ASSUME Init PROVE TypeInv
      OBVIOUS
    <2>1. /\ up \in [Nodes -> BOOLEAN]
          /\ routing_queue \in [Nodes -> Seq(Packet)]
          /\ arp_queue \in [Nodes -> Seq(Packet)]
          /\ count \in Nat
          /\ delivered \in [Nodes -> SUBSET [slot : {"ping", "miptp"},
                                             client : {"ping", "miptp"}, id : Nat]]
      BY DEF Init
    <2>2. cache_table \in [Nodes -> [Nodes -> Nodes \cup {NoMac}]]
      BY DEF Init
    <2>3. wire \in Wires
      BY DEF Init, Wires
    <2>4. ASSUME NEW n \in Nodes
          PROVE  /\ router[n] \in Routers
                 /\ router[n].requests = <<>> /\ router[n].responses = <<>>
                 /\ routing_queue[n] = <<>>
      BY DEF Init, Routers, Neighbours
    <2>5. router \in [Nodes -> Routers]
      BY <2>4 DEF Init
    <2>6. AnswersFindPackets
      <3>1. ASSUME NEW n \in Nodes
            PROVE  Len(routing_queue[n]) >= Len(router[n].responses) + Len(router[n].requests)
        <4>1. Len(routing_queue[n]) = 0 /\ Len(router[n].responses) = 0
              /\ Len(router[n].requests) = 0
          BY <2>4
        <4>. QED  BY <4>1
      <3>. QED  BY <3>1 DEF AnswersFindPackets, Pending
    <2>. QED  BY <2>1, <2>2, <2>3, <2>5, <2>6, Typed DEF TypeInv
  <1>2. TypeInv /\ [Next]_vars => TypeInv'
    BY EveryStep DEF StepFacts
  <1>. QED  BY <1>1, <1>2, PTL DEF Spec

\* The queues, caches, frames and what is under way to the routing daemons
\* keep their types (the handlers of mip_daemon.c and mip_daemon_utils.c), for
\* every topology, all routes, losses and restarts; ttls stay in four bits.
THEOREM TypeCorrect == Spec => []TypeOK
  <1>1. TypeInv => TypeOK
    BY DEF TypeInv
  <1>. QED  BY <1>1, TypeInvInvariant, PTL

\* No answer of a routing daemon finds the queue of the packets empty
\* (handle_routing_msg, mip_daemon_utils.c:104-147), where pop_waiting_queue
\* would give back the list head: also after a restart of the routing daemon
\* and after answers that no path is known.
THEOREM EveryAnswerFindsAPacket == Spec => []AnswersFindPackets
  <1>1. TypeInv => AnswersFindPackets
    BY DEF TypeInv
  <1>. QED  BY <1>1, TypeInvInvariant, PTL

-----------------------------------------------------------------------------
(* The ttl *)

\* The links passed and the ttl left add up to the ttl asked for, and k.
AddsUp(p, k) == \E ttl \in TTLs : p.hops + p.ttl = HeaderTtl(ttl) + k

\* A packet that waits has used up what it has passed; one on a link has one
\* more to pay for, which the next node takes off when it passes the packet on.
HopsInv ==
    /\ \A n \in Nodes : \A p \in Elems(routing_queue[n]) : AddsUp(p, 0)
    /\ \A n \in Nodes : \A p \in Elems(arp_queue[n]) : AddsUp(p, 0)
    /\ \A n, m \in Nodes : \A f \in Elems(wire[n][m]) : f \in Packet => AddsUp(f, 1)

\* A packet that is sent has one more link to pay for.
LEMMA SentAddsUp ==
    ASSUME NEW p \in Packet, AddsUp(p, 0)
    PROVE  AddsUp(OnWire(p), 1)
  <1>1. PICK ttl \in TTLs : p.hops + p.ttl = HeaderTtl(ttl) + 0
    BY DEF AddsUp
  <1>2. HeaderTtl(ttl) \in Nat /\ p.hops \in Nat /\ p.ttl \in Nat
    BY TtlTyped DEF Packet
  <1>3. OnWire(p).hops = p.hops + 1 /\ OnWire(p).ttl = p.ttl
    BY OnWireTyped
  <1>4. OnWire(p).hops + OnWire(p).ttl = HeaderTtl(ttl) + 1
    BY <1>1, <1>2, <1>3
  <1>. QED  BY <1>4 DEF AddsUp

\* The next node pays for it.
LEMMA PassedOnAddsUp ==
    ASSUME NEW f \in Packet, AddsUp(f, 1), f.ttl # 0
    PROVE  AddsUp([f EXCEPT !.ttl = (@ + 15) % 16], 0)
  <1>1. PICK ttl \in TTLs : f.hops + f.ttl = HeaderTtl(ttl) + 1
    BY DEF AddsUp
  <1>2. HeaderTtl(ttl) \in Nat /\ f.hops \in Nat /\ f.ttl \in 1..15
    BY TtlTyped DEF Packet
  <1>3. (f.ttl + 15) % 16 = f.ttl - 1
    BY <1>2
  <1> DEFINE p == [f EXCEPT !.ttl = (@ + 15) % 16]
  <1>4. p.hops = f.hops /\ p.ttl = f.ttl - 1
    BY <1>3 DEF Packet
  <1>. HIDE DEF p
  <1>5. p.hops + p.ttl = HeaderTtl(ttl) + 0
    BY <1>1, <1>2, <1>4
  <1>6. AddsUp(p, 0)
    BY <1>5 DEF AddsUp
  <1>. QED  BY <1>6 DEF p

\* What is new in queues and on links adds up because its origin did.
LEMMA HopsStep ==
    ASSUME TypeInv, HopsInv, [Next]_vars
    PROVE  HopsInv'
  <1>1. StepFacts
    BY EveryStep
  <1>2. ASSUME NEW n \in Nodes
        PROVE  /\ \A p \in Elems(routing_queue[n]) : p \in Packet
               /\ \A p \in Elems(arp_queue[n]) : p \in Packet
    <2>1. routing_queue[n] \in Seq(Packet) /\ arp_queue[n] \in Seq(Packet)
      BY Typed DEF TypeInv
    <2>. QED  BY <2>1, ElemsOf
  <1>3. ASSUME NEW n \in Nodes, NEW p \in Elems(routing_queue'[n])
        PROVE  AddsUp(p, 0)
    <2>1. CASE p \in Elems(routing_queue[n])
      BY <2>1 DEF HopsInv
    <2>2. CASE FromClient(n, p)
      <3>1. PICK ttl \in TTLs : p.ttl = HeaderTtl(ttl) /\ p.hops = 0
        BY <2>2 DEF FromClient
      <3>2. HeaderTtl(ttl) \in Nat
        BY TtlTyped
      <3>. QED  BY <3>1, <3>2 DEF AddsUp
    <2>3. CASE PassedOn(n, p)
      <3>1. PICK m \in Nodes : \E f \in Elems(wire[m][n]) :
                f \in Packet /\ f.ttl # 0 /\ p = [f EXCEPT !.ttl = (@ + 15) % 16]
        BY <2>3 DEF PassedOn
      <3>2. PICK f \in Elems(wire[m][n]) :
                f \in Packet /\ f.ttl # 0 /\ p = [f EXCEPT !.ttl = (@ + 15) % 16]
        BY <3>1
      <3>3. AddsUp(f, 1)
        BY <3>2 DEF HopsInv
      <3>. QED  BY <3>2, <3>3, PassedOnAddsUp
    <2>. QED  BY <1>1, <1>3, <2>1, <2>2, <2>3 DEF StepFacts, NewQueued
  <1>4. ASSUME NEW n \in Nodes, NEW p \in Elems(arp_queue'[n])
        PROVE  AddsUp(p, 0)
    BY <1>1, <1>4 DEF StepFacts, NewWaiting, HopsInv
  <1>5. ASSUME NEW n \in Nodes, NEW m \in Nodes, NEW f \in Elems(wire'[n][m]), f \in Packet
        PROVE  AddsUp(f, 1)
    <2>1. CASE f \in Elems(wire[n][m])
      BY <1>5, <2>1 DEF HopsInv
    <2>2. CASE OwnFrame(n, m, f)
      <3>1. f \in Arp \cup RoutingMsg
        BY <2>2 DEF OwnFrame
      <3>2. f \in Frames
        BY <1>5 DEF Frames
      <3>. QED  BY <1>5, <3>1, <3>2, FrameKinds
    <2>3. CASE AnsweredFrame(n, m, f)
      <3> DEFINE q == routing_queue[n]
      <3>1. q # <<>> /\ f = OnWire(Head(q))
        BY <2>3 DEF AnsweredFrame
      <3>2. q \in Seq(Packet)
        BY Typed DEF TypeInv
      <3>3. Head(q) \in Elems(q) /\ Head(q) \in Packet
        BY <3>1, <3>2, ElemsTail
      <3>4. AddsUp(Head(q), 0)
        BY <3>3 DEF HopsInv
      <3>. QED  BY <3>1, <3>3, <3>4, SentAddsUp
    <2>4. CASE ResolvedFrame(n, m, f)
      <3>1. PICK p \in Elems(arp_queue[n]) : f = OnWire(p)
        BY <2>4 DEF ResolvedFrame
      <3>2. p \in Packet /\ AddsUp(p, 0)
        BY <1>2 DEF HopsInv
      <3>. QED  BY <3>1, <3>2, SentAddsUp
    <2>. QED  BY <1>1, <1>5, <2>1, <2>2, <2>3, <2>4 DEF StepFacts, NewFrames
  <1>. QED  BY <1>3, <1>4, <1>5 DEF HopsInv, AddsUp

\* A packet is forwarded as often as its ttl says and then dropped, whatever
\* the routes are (mip_daemon.c:635-637): links passed and ttl left always add
\* up to the ttl the client asked for, so the four bits never wrap.
THEOREM TtlBoundsHops == Spec => []HopsBounded
  <1>1. Init => HopsInv
    <2>. SUFFICES ASSUME Init PROVE HopsInv
      OBVIOUS
    <2>1. \A n, m \in Nodes :
            routing_queue[n] = <<>> /\ arp_queue[n] = <<>> /\ wire[n][m] = <<>>
      BY DEF Init
    <2>. QED  BY <2>1, ElemsEmpty DEF HopsInv
  <1>2. TypeInv /\ HopsInv /\ [Next]_vars => HopsInv'
    BY HopsStep
  <1>3. TypeInv /\ HopsInv => HopsBounded
    <2>. SUFFICES ASSUME TypeInv, HopsInv, NEW n \in Nodes, NEW m \in Nodes,
                         NEW i \in 1..Len(wire[n][m]), IsPacket(wire[n][m][i])
                  PROVE  AddsUp(wire[n][m][i], 1)
      BY DEF HopsBounded, AddsUp
    <2> DEFINE f == wire[n][m][i]
    <2>1. f \in Elems(wire[n][m])
      BY DEF Elems
    <2>2. wire[n][m] \in Seq(Frames)
      BY Typed DEF TypeInv, Wires
    <2>3. f \in Frames
      BY <2>1, <2>2, ElemsOf
    <2>4. f \in Packet
      BY <2>3, FrameKinds DEF IsPacket
    <2>. QED  BY <2>1, <2>4 DEF HopsInv
  <1>. QED  BY <1>1, <1>2, <1>3, TypeInvInvariant, PTL DEF Spec

-----------------------------------------------------------------------------
(* Packets, requests and answers stay aligned *)

\* What a step does to the packets of n that wait for the routing daemon, to
\* the requests and to the answers under way.
Reqs(n) == router[n].requests
Resps(n) == router[n].responses

\* A step may leave the queue and the socket of n as they are, or queue a packet
\* and ask, or answer the oldest request, or read an answer with or without a path.
Idle(n) ==
    routing_queue'[n] = routing_queue[n] /\ Reqs(n)' = Reqs(n) /\ Resps(n)' = Resps(n)

Asks(n) ==
    \E p \in Packet :
        /\ routing_queue'[n] = Append(routing_queue[n], p)
        /\ Reqs(n)' = Append(Reqs(n), p.dst)
        /\ Resps(n)' = Resps(n)

Replies(n) ==
    /\ Reqs(n) # <<>>
    /\ \E x \in Routes[n][Head(Reqs(n))] : Resps(n)' = Append(Resps(n), x)
    /\ Reqs(n)' = Tail(Reqs(n))
    /\ routing_queue'[n] = routing_queue[n]

Reads(n) ==
    /\ Resps(n) # <<>>
    /\ routing_queue'[n] = Tail(routing_queue[n])
    /\ Resps(n)' = Tail(Resps(n))
    /\ Reqs(n)' = Reqs(n)

Misses(n) == Resps(n) # <<>> /\ Head(Resps(n)) = NoPath

\* No other step touches them; ends and restarts of routing daemons are left out.
UnderWayFacts ==
    \A n \in Nodes :
        \/ Idle(n) \/ Asks(n) \/ Replies(n) \/ Reads(n) \/ Misses(n)
        \/ n \in Restarting \/ ~router[n].runs

\* A step that touches neither queue nor socket.
LEMMA SameUnderWay ==
    ASSUME UNCHANGED <<routing_queue, router>>
    PROVE  UnderWayFacts
  BY DEF UnderWayFacts, Idle, Reqs, Resps

\* A packet is queued and a request written.
LEMMA AskUnderWay ==
    ASSUME TypeInv, NEW n \in Nodes, NEW p \in Packet, Enqueue(n, p), router[n].runs
    PROVE  UnderWayFacts
  <1>1. routing_queue \in [Nodes -> Seq(Packet)] /\ router \in [Nodes -> Routers]
    BY Typed DEF TypeInv
  <1> DEFINE q == Append(routing_queue[n], p)
             a == Append(Reqs(n), p.dst)
  <1>2. routing_queue' = [routing_queue EXCEPT ![n] = q]
    BY DEF Enqueue
  <1>3. router' = [router EXCEPT ![n] = [router[n] EXCEPT !.requests = a]]
    BY <1>1 DEF Enqueue, send_req_to_router, Reqs
  <1>. HIDE DEF q, a
  <1>4. router[n] \in Routers
    BY <1>1
  <1> DEFINE r == [router[n] EXCEPT !.requests = a]
  <1>5. r.requests = a /\ r.responses = router[n].responses
    BY <1>4 DEF Routers
  <1>6. router' = [router EXCEPT ![n] = r]
    BY <1>3
  <1>. HIDE DEF r
  <1>7. ASSUME NEW k \in Nodes, k # n
        PROVE  Idle(k)
    BY <1>1, <1>2, <1>6, <1>7 DEF Idle, Reqs, Resps
  <1>8. /\ routing_queue'[n] = q
        /\ Reqs(n)' = a /\ Resps(n)' = Resps(n)
    BY <1>1, <1>2, <1>5, <1>6 DEF Reqs, Resps
  <1>9. Asks(n)
    BY <1>8 DEF Asks, q, a
  <1>. QED  BY <1>7, <1>9 DEF UnderWayFacts

\* A packet is queued, whether somebody is asked or not.
LEMMA EnqueueUnderWay ==
    ASSUME TypeInv, NEW n \in Nodes, NEW p \in Packet, Enqueue(n, p)
    PROVE  UnderWayFacts
  <1>1. CASE router[n].runs
    BY <1>1, AskUnderWay
  <1>2. CASE ~router[n].runs
    <2>1. routing_queue \in [Nodes -> Seq(Packet)]
      BY Typed DEF TypeInv
    <2>2. UNCHANGED router /\ \A k \in Nodes : k # n => routing_queue'[k] = routing_queue[k]
      BY <1>2, <2>1 DEF Enqueue, send_req_to_router
    <2>. QED  BY <1>2, <2>2 DEF UnderWayFacts, Idle, Reqs, Resps
  <1>. QED  BY <1>1, <1>2

\* The routing daemon replies to the oldest request.
LEMMA ReplyUnderWay ==
    ASSUME TypeInv, NEW n \in Nodes, RouterAnswers(n)
    PROVE  UnderWayFacts
  <1>1. routing_queue \in [Nodes -> Seq(Packet)] /\ router \in [Nodes -> Routers]
    BY Typed DEF TypeInv
  <1>2. PICK x \in Routes[n][Head(Reqs(n))] :
            router' = [router EXCEPT ![n] =
                UnderWay(router[n].runs, Tail(Reqs(n)), Append(Resps(n), x), router[n].heard)]
    BY DEF RouterAnswers, UnderWay, Reqs, Resps
  <1> DEFINE a == Tail(Reqs(n))
             b == Append(Resps(n), x)
             r == UnderWay(router[n].runs, a, b, router[n].heard)
  <1>3. router' = [router EXCEPT ![n] = r]
    BY <1>2
  <1>. HIDE DEF a, b
  <1>4. r.requests = a /\ r.responses = b
    BY DEF UnderWay
  <1>. HIDE DEF r
  <1>5. UNCHANGED routing_queue /\ Reqs(n) # <<>>
    BY DEF RouterAnswers, Reqs
  <1>6. ASSUME NEW k \in Nodes, k # n
        PROVE  Idle(k)
    BY <1>1, <1>3, <1>5, <1>6 DEF Idle, Reqs, Resps
  <1>7. Reqs(n)' = a /\ Resps(n)' = b
    BY <1>1, <1>3, <1>4 DEF Reqs, Resps
  <1>8. Replies(n)
    BY <1>5, <1>7 DEF Replies, a, b
  <1>. QED  BY <1>6, <1>8 DEF UnderWayFacts

\* The packet at the head of the queue goes where the answer says.
LEMMA ReadUnderWay ==
    ASSUME TypeInv, NEW n \in Nodes, Responds(n), router' = Answered(n),
           routing_queue' = [routing_queue EXCEPT ![n] = Tail(@)]
    PROVE  UnderWayFacts
  <1>1. routing_queue \in [Nodes -> Seq(Packet)] /\ router \in [Nodes -> Routers]
    BY Typed DEF TypeInv
  <1> DEFINE b == Tail(Resps(n))
             r == [router[n] EXCEPT !.responses = b]
  <1>2. router' = [router EXCEPT ![n] = r]
    BY <1>1 DEF Answered, Resps
  <1>. HIDE DEF b
  <1>3. router[n] \in Routers
    BY <1>1
  <1>4. r.requests = router[n].requests /\ r.responses = b
    BY <1>3 DEF Routers
  <1>. HIDE DEF r
  <1>5. ASSUME NEW k \in Nodes, k # n
        PROVE  Idle(k)
    BY <1>1, <1>2, <1>5 DEF Idle, Reqs, Resps
  <1>6. Reqs(n)' = Reqs(n) /\ Resps(n)' = b
    BY <1>1, <1>2, <1>4 DEF Reqs, Resps
  <1>7. Resps(n) # <<>>
    BY DEF Responds, Resps
  <1>8. Reads(n)
    BY <1>1, <1>6, <1>7 DEF Reads, b
  <1>. QED  BY <1>5, <1>8 DEF UnderWayFacts

\* A step at a node is one of those.
LEMMA EveryUnderWay ==
    ASSUME TypeInv, [Next]_vars
    PROVE  UnderWayFacts
  <1>1. CASE UNCHANGED vars
    BY <1>1, SameUnderWay DEF vars
  <1>2. ASSUME NEW n \in Nodes, NEW t \in Nodes, NEW client \in Clients, NEW ttl \in TTLs,
               ClientMessage(n, t, client, ttl)
        PROVE  UnderWayFacts
    <2> DEFINE p == [type |-> SduType(client), src |-> n, dst |-> t,
                     ttl |-> HeaderTtl(ttl), id |-> count + 1, client |-> client,
                     hops |-> 0]
    <2>1. count \in Nat /\ client \in {"ping", "miptp"} /\ HeaderTtl(ttl) \in 0..15
      BY TtlTyped, NumbersAssumption DEF TypeInv, TypeOK
    <2>2. p \in Packet
      BY <2>1 DEF SduType, Packet
    <2>3. Enqueue(n, p)
      BY <1>2 DEF ClientMessage
    <2>. HIDE DEF p
    <2>. QED  BY <2>2, <2>3, EnqueueUnderWay
  <1>3. ASSUME NEW n \in Nodes, RouterAnswers(n)
        PROVE  UnderWayFacts
    BY <1>3, ReplyUnderWay
  <1>4. ASSUME NEW n \in Nodes, handle_response(n)
        PROVE  UnderWayFacts
    <2>1. CASE ResponseUnknown(n)
      <3>1. router \in [Nodes -> Routers]
        BY Typed DEF TypeInv
      <3>2. Misses(n)
        BY <2>1 DEF ResponseUnknown, Responds, Response, Misses, Resps
      <3>3. UNCHANGED routing_queue /\ \A k \in Nodes : k # n => router'[k] = router[k]
        BY <2>1, <3>1 DEF ResponseUnknown, Answered
      <3>. QED  BY <3>2, <3>3 DEF UnderWayFacts, Idle, Reqs, Resps
    <2>2. CASE ResponseCached(n)
      BY <2>2, ReadUnderWay DEF ResponseCached, SendsFirst
    <2>3. CASE ResponseArp(n)
      BY <2>3, ReadUnderWay DEF ResponseArp
    <2>. QED  BY <1>4, <2>1, <2>2, <2>3 DEF handle_response
  <1>5. ASSUME NEW n \in Nodes, Hello(n)
        PROVE  UnderWayFacts
    BY <1>5, SameUnderWay DEF Hello
  <1>6. ASSUME NEW n \in Nodes, NEW m \in Nodes, Update(n, m)
        PROVE  UnderWayFacts
    BY <1>6, SameUnderWay DEF Update
  <1>7. ASSUME NEW n \in Nodes, NEW m \in Nodes, RawPacket(n, m)
        PROVE  UnderWayFacts
    <2>1. CASE CacheFull(n, m)
      BY <2>1, SameUnderWay DEF CacheFull
    <2>2. CASE ArpRequest(n, m)
      BY <2>2, SameUnderWay DEF ArpRequest
    <2>3. CASE ArpResponse(n, m)
      BY <2>3, SameUnderWay DEF ArpResponse
    <2>4. CASE PacketForMe(n, m)
      BY <2>4, SameUnderWay DEF PacketForMe
    <2>5. CASE PacketExpired(n, m)
      BY <2>5, SameUnderWay DEF PacketExpired
    <2>6. CASE PacketForwarded(n, m)
      <3> DEFINE f == Frame(m, n)
                 p == [f EXCEPT !.ttl = (@ + 15) % 16]
      <3>1. Receives(n, m, {"ping", "miptp"}) /\ Enqueue(n, p)
        BY <2>6 DEF PacketForwarded
      <3>2. f \in Frames /\ f.type \in {"ping", "miptp"}
        BY <3>1, ReceivesStep
      <3>3. f \in Packet
        BY <3>2, FrameKinds
      <3>. HIDE DEF f
      <3>4. p \in Packet
        <4>1. f.ttl \in 0..15
          BY <3>3 DEF Packet
        <4>2. (f.ttl + 15) % 16 \in 0..15
          BY <4>1
        <4>. QED  BY <3>3, <4>2 DEF Packet
      <3>. HIDE DEF p
      <3>. QED  BY <3>1, <3>4, EnqueueUnderWay
    <2>7. CASE RoutingFrame(n, m)
      <3> DEFINE h == router[n].heard \cup {Frame(m, n).src}
      <3>1. router \in [Nodes -> Routers]
        BY Typed DEF TypeInv
      <3>2. UNCHANGED routing_queue /\
            (UNCHANGED router \/ router' = [router EXCEPT ![n].heard = h])
        BY <2>7, <3>1 DEF RoutingFrame
      <3>. HIDE DEF h
      <3>3. CASE UNCHANGED router
        BY <3>2, <3>3, SameUnderWay
      <3>4. CASE router' = [router EXCEPT ![n].heard = h]
        <4> DEFINE r == [router[n] EXCEPT !.heard = h]
        <4>1. router[n] \in Routers /\ router' = [router EXCEPT ![n] = r]
          BY <3>1, <3>4
        <4>2. r.requests = router[n].requests /\ r.responses = router[n].responses
          BY <4>1 DEF Routers
        <4>. HIDE DEF r
        <4>3. \A k \in Nodes : router'[k].requests = router[k].requests
                               /\ router'[k].responses = router[k].responses
          BY <3>1, <4>1, <4>2
        <4>. QED  BY <3>2, <4>3 DEF UnderWayFacts, Idle, Reqs, Resps
      <3>. QED  BY <3>2, <3>3, <3>4
    <2>. QED  BY <1>7, <2>1, <2>2, <2>3, <2>4, <2>5, <2>6, <2>7 DEF RawPacket
  <1>8. ASSUME NEW n \in Nodes, RouterEnds(n) \/ RouterStarts(n)
        PROVE  UnderWayFacts
    <2>1. router \in [Nodes -> Routers]
      BY Typed DEF TypeInv
    <2>2. n \in Restarting \/ ~router[n].runs
      BY <1>8 DEF RouterEnds, RouterStarts
    <2>3. UNCHANGED routing_queue /\ \A k \in Nodes : k # n => router'[k] = router[k]
      BY <1>8, <2>1 DEF RouterEnds, RouterStarts
    <2>. QED  BY <2>2, <2>3 DEF UnderWayFacts, Idle, Reqs, Resps
  <1>9. ASSUME NEW n \in Nodes, NEW m \in Nodes, Lose(n, m)
        PROVE  UnderWayFacts
    BY <1>9, SameUnderWay DEF Lose
  <1>. QED  BY <1>1, <1>2, <1>3, <1>4, <1>5, <1>6, <1>7, <1>8, <1>9 DEF Next

\* The packets q, the requests a and the answers b of n belong together.
Aligned(n, q, a, b) ==
    /\ Len(q) = Len(b) + Len(a)
    /\ \A k \in 1..Len(q) :
        IF k <= Len(b) THEN b[k] \in Routes[n][q[k].dst] ELSE a[k - Len(b)] = q[k].dst

\* A packet and a request for it, behind all others.
LEMMA AskedAligned ==
    ASSUME NEW n, NEW q \in Seq(Packet), NEW a \in Seq(Nodes),
           NEW b \in Seq(Nodes \cup {NoPath}), NEW p \in Packet, Aligned(n, q, a, b)
    PROVE  Aligned(n, Append(q, p), Append(a, p.dst), b)
  <1> DEFINE Q == Append(q, p)
             A == Append(a, p.dst)
  <1>1. /\ Len(q) \in Nat /\ Len(a) \in Nat /\ Len(b) \in Nat
        /\ Len(q) = Len(b) + Len(a)
    BY DEF Aligned
  <1>2. p.dst \in Nodes
    BY DEF Packet
  <1>3. /\ Len(Q) = Len(q) + 1 /\ Len(A) = Len(a) + 1
        /\ \A k \in 1..Len(q) : Q[k] = q[k]
        /\ Q[Len(q) + 1] = p
        /\ \A k \in 1..Len(a) : A[k] = a[k]
        /\ A[Len(a) + 1] = p.dst
    BY <1>2
  <1>. HIDE DEF Q, A
  <1>4. ASSUME NEW k \in 1..Len(Q)
        PROVE  IF k <= Len(b) THEN b[k] \in Routes[n][Q[k].dst] ELSE A[k - Len(b)] = Q[k].dst
    <2>1. CASE k = Len(q) + 1
      <3>1. ~(k <= Len(b)) /\ k - Len(b) = Len(a) + 1
        BY <1>1, <2>1
      <3>. QED  BY <1>3, <2>1, <3>1
    <2>2. CASE k # Len(q) + 1
      <3>1. k \in 1..Len(q)
        <4>1. k \in 1..(Len(q) + 1)
          BY <1>3
        <4>. QED  BY <1>1, <2>2, <4>1
      <3>2. ~(k <= Len(b)) => k - Len(b) \in 1..Len(a)
        BY <1>1, <3>1
      <3>3. Q[k] = q[k] /\ (~(k <= Len(b)) => A[k - Len(b)] = a[k - Len(b)])
        BY <1>3, <3>1, <3>2
      <3>4. IF k <= Len(b) THEN b[k] \in Routes[n][q[k].dst] ELSE a[k - Len(b)] = q[k].dst
        BY <3>1 DEF Aligned
      <3>. QED  BY <3>3, <3>4
    <2>. QED  BY <2>1, <2>2
  <1>5. Len(Q) = Len(b) + Len(A)
    BY <1>1, <1>3
  <1>6. Aligned(n, Q, A, b)
    BY <1>4, <1>5 DEF Aligned
  <1>. QED  BY <1>6 DEF Q, A

\* The oldest request becomes the newest answer.
LEMMA RepliedAligned ==
    ASSUME NEW n, NEW q \in Seq(Packet), NEW a \in Seq(Nodes),
           NEW b \in Seq(Nodes \cup {NoPath}), a # <<>>, NEW x \in Nodes \cup {NoPath},
           x \in Routes[n][Head(a)], Aligned(n, q, a, b)
    PROVE  Aligned(n, q, Tail(a), Append(b, x))
  <1> DEFINE A == Tail(a)
             B == Append(b, x)
  <1>1. /\ Len(q) \in Nat /\ Len(a) \in Nat /\ Len(b) \in Nat
        /\ Len(q) = Len(b) + Len(a) /\ Len(a) >= 1
    BY DEF Aligned
  <1>2. /\ Len(A) = Len(a) - 1 /\ Len(B) = Len(b) + 1
        /\ \A k \in 1..Len(b) : B[k] = b[k]
        /\ B[Len(b) + 1] = x
        /\ \A k \in 1..(Len(a) - 1) : A[k] = a[k + 1]
        /\ Head(a) = a[1]
    OBVIOUS
  <1>. HIDE DEF A, B
  <1>3. ASSUME NEW k \in 1..Len(q)
        PROVE  IF k <= Len(B) THEN B[k] \in Routes[n][q[k].dst] ELSE A[k - Len(B)] = q[k].dst
    <2>1. IF k <= Len(b) THEN b[k] \in Routes[n][q[k].dst] ELSE a[k - Len(b)] = q[k].dst
      BY DEF Aligned
    <2>2. CASE k <= Len(b)
      <3>1. k \in 1..Len(b) /\ k <= Len(B)
        BY <1>1, <1>2, <2>2
      <3>. QED  BY <1>2, <2>1, <2>2, <3>1
    <2>3. CASE k = Len(b) + 1
      <3>1. ~(k <= Len(b)) /\ k - Len(b) = 1 /\ k <= Len(B)
        BY <1>1, <1>2, <2>3
      <3>2. a[1] = q[k].dst
        BY <2>1, <3>1
      <3>. QED  BY <1>2, <2>3, <3>1, <3>2
    <2>4. CASE k > Len(b) + 1
      <3>1. /\ ~(k <= Len(b)) /\ ~(k <= Len(B))
            /\ k - Len(B) \in 1..(Len(a) - 1) /\ (k - Len(B)) + 1 = k - Len(b)
        BY <1>1, <1>2, <2>4
      <3>2. A[k - Len(B)] = a[k - Len(b)]
        BY <1>2, <3>1
      <3>. QED  BY <2>1, <3>1, <3>2
    <2>. QED  BY <1>1, <2>2, <2>3, <2>4
  <1>4. Len(q) = Len(B) + Len(A)
    BY <1>1, <1>2
  <1>5. Aligned(n, q, A, B)
    BY <1>3, <1>4 DEF Aligned
  <1>. QED  BY <1>5 DEF A, B

\* The oldest answer is for the oldest packet.
LEMMA ReadAligned ==
    ASSUME NEW n, NEW q \in Seq(Packet), NEW a \in Seq(Nodes),
           NEW b \in Seq(Nodes \cup {NoPath}), b # <<>>, Aligned(n, q, a, b)
    PROVE  /\ Aligned(n, Tail(q), a, Tail(b))
           /\ q # <<>>
           /\ Head(b) \in Routes[n][Head(q).dst]
  <1> DEFINE Q == Tail(q)
             B == Tail(b)
  <1>1. /\ Len(q) \in Nat /\ Len(a) \in Nat /\ Len(b) \in Nat
        /\ Len(q) = Len(b) + Len(a) /\ Len(b) >= 1
    BY DEF Aligned
  <1>2. q # <<>>
    BY <1>1
  <1>3. /\ Len(Q) = Len(q) - 1 /\ Len(B) = Len(b) - 1
        /\ \A k \in 1..(Len(q) - 1) : Q[k] = q[k + 1]
        /\ \A k \in 1..(Len(b) - 1) : B[k] = b[k + 1]
        /\ Head(q) = q[1] /\ Head(b) = b[1]
    BY <1>2
  <1>. HIDE DEF Q, B
  <1>4. Head(b) \in Routes[n][Head(q).dst]
    <2>1. 1 \in 1..Len(q) /\ 1 <= Len(b)
      BY <1>1
    <2>. QED  BY <1>3, <2>1 DEF Aligned
  <1>5. ASSUME NEW k \in 1..Len(Q)
        PROVE  IF k <= Len(B) THEN B[k] \in Routes[n][Q[k].dst] ELSE a[k - Len(B)] = Q[k].dst
    <2>1. /\ k \in 1..(Len(q) - 1) /\ k + 1 \in 1..Len(q)
          /\ k <= Len(B) => k \in 1..(Len(b) - 1) /\ k + 1 <= Len(b)
          /\ ~(k <= Len(B)) => ~(k + 1 <= Len(b)) /\ k - Len(B) = (k + 1) - Len(b)
      BY <1>1, <1>3
    <2>2. IF k + 1 <= Len(b) THEN b[k + 1] \in Routes[n][q[k + 1].dst]
          ELSE a[(k + 1) - Len(b)] = q[k + 1].dst
      BY <2>1 DEF Aligned
    <2>3. Q[k] = q[k + 1] /\ (k <= Len(B) => B[k] = b[k + 1])
      BY <1>3, <2>1
    <2>. QED  BY <2>1, <2>2, <2>3
  <1>6. Len(Q) = Len(B) + Len(a)
    BY <1>1, <1>3
  <1>7. Aligned(n, Q, a, B)
    BY <1>5, <1>6 DEF Aligned
  <1>. QED  BY <1>2, <1>4, <1>7 DEF Q, B

\* The property, node by node.
LEMMA AlignedNodes ==
    QueueAligned <=> \A n \in Nodes : Aligned(n, routing_queue[n], Reqs(n), Resps(n))
  BY DEF QueueAligned, Aligned, Pending, Reqs, Resps

\* Every daemon has a path for every request, and a routing daemon all the time.
AlwaysAnswered == Restarting = {} /\ \A n, t \in Nodes : NoPath \notin Routes[n][t]

\* Every daemon has a routing daemon.
AllRun == \A n \in Nodes : router[n].runs

\* Routing daemons that do not end go on running.
LEMMA RunStep ==
    ASSUME Restarting = {}, TypeInv, AllRun, [Next]_vars
    PROVE  AllRun'
  <1>1. router \in [Nodes -> Routers]
    BY Typed DEF TypeInv
  <1>3. ASSUME NEW n \in Nodes, NEW t, Enqueue(n, t)
        PROVE  AllRun'
    BY <1>1, <1>3 DEF Enqueue, send_req_to_router, AllRun, Routers
  <1>4. ASSUME NEW n \in Nodes, router' = Answered(n)
        PROVE  AllRun'
    BY <1>1, <1>4 DEF Answered, AllRun, Routers
  <1>5. ASSUME NEW n \in Nodes, RouterAnswers(n)
        PROVE  AllRun'
    BY <1>1, <1>5 DEF RouterAnswers, AllRun, Routers
  <1>6. ASSUME NEW n \in Nodes, NEW m \in Nodes, RoutingFrame(n, m)
        PROVE  AllRun'
    BY <1>1, <1>6 DEF RoutingFrame, AllRun, Routers
  <1>7. ASSUME NEW n \in Nodes, RouterEnds(n) \/ RouterStarts(n)
        PROVE  AllRun'
    BY <1>7 DEF RouterEnds, RouterStarts, AllRun
  <1>8. ASSUME UNCHANGED router
        PROVE  AllRun'
    BY <1>8 DEF AllRun
  <1>. QED  BY <1>3, <1>4, <1>5, <1>6, <1>7, <1>8
            DEF Next, vars, ClientMessage, handle_response, ResponseUnknown, ResponseCached,
                ResponseArp, Hello, Update, RawPacket, CacheFull, ArpRequest, ArpResponse,
                PacketForMe, PacketExpired, PacketForwarded, Lose

\* Alignment is kept by every step as long as there is an answer for each request.
LEMMA AlignedStep ==
    ASSUME AlwaysAnswered, TypeInv, AllRun, QueueAligned, [Next]_vars
    PROVE  QueueAligned'
  <1>1. UnderWayFacts
    BY EveryUnderWay
  <1>2. ASSUME NEW n \in Nodes
        PROVE  Aligned(n, routing_queue'[n], Reqs(n)', Resps(n)')
    <2> DEFINE q == routing_queue[n]
               a == Reqs(n)
               b == Resps(n)
               Q == routing_queue'[n]
               A == Reqs(n)'
               B == Resps(n)'
    <2>1. /\ a \in Seq(Nodes) /\ b \in Seq(Nodes \cup {NoPath}) /\ q \in Seq(Packet)
      BY RouterParts DEF Reqs, Resps
    <2>2. Aligned(n, q, a, b)
      BY AlignedNodes
    <2>3. CASE Idle(n)
      BY <2>2, <2>3 DEF Idle
    <2>4. CASE Asks(n)
      <3>1. PICK p \in Packet : Q = Append(q, p) /\ A = Append(a, p.dst) /\ B = b
        BY <2>4 DEF Asks
      <3>. HIDE DEF q, a, b, Q, A, B
      <3>2. Aligned(n, Append(q, p), Append(a, p.dst), b)
        BY <2>1, <2>2, AskedAligned
      <3>3. Aligned(n, Q, A, B)
        BY <3>1, <3>2
      <3>. QED  BY <3>3 DEF Q, A, B
    <2>5. CASE Replies(n)
      <3>1. PICK x \in Routes[n][Head(a)] : B = Append(b, x)
        BY <2>5 DEF Replies
      <3>2. a # <<>> /\ A = Tail(a) /\ Q = q
        BY <2>5 DEF Replies
      <3>. HIDE DEF q, a, b, Q, A, B
      <3>3. x \in Nodes \cup {NoPath}
        <4>1. Head(a) \in Nodes
          BY <2>1, <3>2
        <4>. QED  BY <3>1, <4>1, RoutesAssumption
      <3>4. Aligned(n, q, Tail(a), Append(b, x))
        BY <2>1, <2>2, <3>1, <3>2, <3>3, RepliedAligned
      <3>5. Aligned(n, Q, A, B)
        BY <3>1, <3>2, <3>4
      <3>. QED  BY <3>5 DEF Q, A, B
    <2>6. CASE Reads(n)
      <3>1. b # <<>> /\ Q = Tail(q) /\ B = Tail(b) /\ A = a
        BY <2>6 DEF Reads
      <3>. HIDE DEF q, a, b, Q, A, B
      <3>2. Aligned(n, Tail(q), a, Tail(b))
        BY <2>1, <2>2, <3>1, ReadAligned
      <3>3. Aligned(n, Q, A, B)
        BY <3>1, <3>2
      <3>. QED  BY <3>3 DEF Q, A, B
    <2>7. CASE Misses(n)
      <3>1. b # <<>> /\ Head(b) = NoPath
        BY <2>7 DEF Misses
      <3>. HIDE DEF q, a, b
      <3>2. q # <<>> /\ Head(b) \in Routes[n][Head(q).dst]
        BY <2>1, <2>2, <3>1, ReadAligned
      <3>3. Head(q) \in Packet
        BY <2>1, <3>2
      <3>4. Head(q).dst \in Nodes
        BY <3>3 DEF Packet
      <3>. QED  BY <3>1, <3>2, <3>4 DEF AlwaysAnswered
    <2>8. CASE n \in Restarting
      BY <2>8 DEF AlwaysAnswered
    <2>. QED  BY <1>1, <2>3, <2>4, <2>5, <2>6, <2>7, <2>8 DEF UnderWayFacts, AllRun
  <1>. QED  BY <1>2, AlignedNodes DEF Reqs, Resps, QueueAligned, Aligned, Pending

\* As long as the routing daemons know a path for every request and do not end,
\* packets, requests and answers stay aligned (mip_daemon.c:
\* 641-643 and 682-713, mip_daemon_utils.c:104-147), although nothing in an
\* answer says which packet it is for.
THEOREM QueueStaysAligned ==
    ASSUME AlwaysAnswered
    PROVE  Spec => []QueueAligned
  <1>1. Init => QueueAligned
    <2>. SUFFICES ASSUME Init, NEW n \in Nodes
                  PROVE  Aligned(n, routing_queue[n], Reqs(n), Resps(n))
      BY AlignedNodes
    <2>1. routing_queue[n] = <<>> /\ Reqs(n) = <<>> /\ Resps(n) = <<>>
      BY DEF Init, Reqs, Resps
    <2>2. Aligned(n, <<>>, <<>>, <<>>)
      BY DEF Aligned
    <2>. QED  BY <2>1, <2>2
  <1>2. Init => AllRun
    BY DEF Init, AllRun
  <1>3. TypeInv /\ AllRun /\ QueueAligned /\ [Next]_vars => AllRun' /\ QueueAligned'
    BY RunStep, AlignedStep DEF AlwaysAnswered
  <1>. QED  BY <1>1, <1>2, <1>3, TypeInvInvariant, PTL DEF Spec
-----------------------------------------------------------------------------
(* Routes *)

\* The nodes that packets of flow f come to: the next hops of the source, and
\* the next hops of each such node that is not the destination.
Reached(f) ==
    {n \in Nodes : \A S \in SUBSET Nodes :
        /\ Routes[f[1]][f[2]] \cap Nodes \subseteq S
        /\ \A m \in S : m # f[2] => Routes[m][f[2]] \cap Nodes \subseteq S
        => n \in S}

\* Every daemon knows a path to every node, over a neighbour; neighbours are
\* reached directly; and no node passes a packet on to a neighbour of its
\* source, which would take the address of the last hop for that of the source
\* (mip_daemon.c:398).
StraightRoutes ==
    /\ \A n, t \in Nodes : NoPath \notin Routes[n][t]
    /\ \A n, t \in Nodes : n # t => Routes[n][t] \subseteq Neighbours(n)
    /\ \A n \in Nodes : \A t \in Neighbours(n) : t \in Routes[n][t]
    /\ \A f \in Traffic : \A n \in Reached(f) \ {f[1], f[2]} :
            Routes[n][f[2]] \cap Neighbours(f[1]) = {}

\* The nodes n may hear of: its neighbours, and the sources of the flows that
\* come to it.
Sources(n) == Neighbours(n) \cup {g[1] : g \in {f \in Traffic : n \in Reached(f)}}

\* Packet p is on the way of its flow at n, and not at the end of it.
OnItsWay(n, p) ==
    /\ <<p.src, p.dst>> \in Traffic
    /\ p.dst # n
    /\ n = p.src \/ n \in Reached(<<p.src, p.dst>>)

\* Packets wait only on the way of their flow.
QueuesOnWay ==
    /\ \A n \in Nodes : \A p \in Elems(routing_queue[n]) : OnItsWay(n, p)
    /\ \A n \in Nodes : \A p \in Elems(arp_queue[n]) : OnItsWay(n, p)

\* A frame from n to m: a packet for which m is a next hop, or a frame that n
\* has made itself for a neighbour.
FrameOnWay(n, m, f) ==
    \/ f \in Packet /\ OnItsWay(n, f) /\ m \in Routes[n][f.dst]
    \/ /\ f \in Arp \cup RoutingMsg
       /\ f.src = n
       /\ m \in Neighbours(n)
       /\ f.type = "arp_res" => f.address = n

\* Everything on the links is on its way.
FramesOnWay == \A n, m \in Nodes : \A f \in Elems(wire[n][m]) : FrameOnWay(n, m, f)

\* The cache holds neighbours' addresses, and for a neighbour its own.
CachesRight ==
    \A n, t \in Nodes : cache_table[n][t] # NoMac =>
        /\ t \in Sources(n)
        /\ cache_table[n][t] \in Neighbours(n)
        /\ t \in Neighbours(n) => cache_table[n][t] = t

\* The invariant behind RightNextHop.
RouteInv == QueueAligned /\ QueuesOnWay /\ FramesOnWay /\ CachesRight

\* Links have two ends.
LEMMA LinkedBothWays ==
    ASSUME NEW n \in Nodes, NEW m \in Nodes
    PROVE  m \in Neighbours(n) <=> n \in Neighbours(m)
  BY LinksAssumption DEF Neighbours

\* A next hop on the way of a flow is reached by the flow.
LEMMA NextHopReached ==
    ASSUME NEW f, NEW n \in Nodes, n = f[1] \/ n \in Reached(f), n # f[2],
           NEW m \in Nodes, m \in Routes[n][f[2]]
    PROVE  m \in Reached(f)
  BY DEF Reached

\* What a frame from m tells n: a source n may hear of, and for a neighbour
\* the right address.
LEMMA FrameSource ==
    ASSUME StraightRoutes, NEW m \in Nodes, NEW n \in Nodes, NEW f \in Frames,
           FrameOnWay(m, n, f)
    PROVE  /\ f.src \in Sources(n)
           /\ m \in Neighbours(n)
           /\ f.src \in Neighbours(n) => m = f.src
  <1>1. CASE f \in Packet /\ OnItsWay(m, f) /\ n \in Routes[m][f.dst]
    <2> DEFINE g == <<f.src, f.dst>>
    <2>1. f.src \in Nodes /\ f.dst \in Nodes /\ g \in Traffic /\ g[1] = f.src /\ g[2] = f.dst
      BY <1>1 DEF Packet, OnItsWay
    <2>2. m # g[2] /\ (m = g[1] \/ m \in Reached(g)) /\ n \in Routes[m][g[2]]
      BY <1>1, <2>1 DEF OnItsWay
    <2>. HIDE DEF g
    <2>3. n \in Reached(g)
      BY <2>2, NextHopReached
    <2>4. f.src \in Sources(n)
      BY <2>1, <2>3 DEF Sources
    <2>5. n \in Neighbours(m)
      BY <2>1, <2>2 DEF StraightRoutes
    <2>6. ASSUME f.src \in Neighbours(n), m # f.src
          PROVE  FALSE
      <3>1. n \in Neighbours(g[1])
        BY <2>1, <2>6, LinkedBothWays
      <3>2. m \in Reached(g) \ {g[1], g[2]}
        BY <2>1, <2>2, <2>6
      <3>. QED  BY <2>1, <2>2, <3>1, <3>2 DEF StraightRoutes
    <2>. QED  BY <2>4, <2>5, <2>6, LinkedBothWays
  <1>2. CASE f.src = m /\ n \in Neighbours(m)
    <2>1. m \in Neighbours(n)
      BY <1>2, LinkedBothWays
    <2>. QED  BY <1>2, <2>1 DEF Sources
  <1>. QED  BY <1>1, <1>2 DEF FrameOnWay

\* The cache stays right: an address comes with a frame, from a neighbour.
LEMMA CachesStep ==
    ASSUME StraightRoutes, TypeInv, FramesOnWay, CachesRight, NewCached
    PROVE  CachesRight'
  <1>1. ASSUME NEW n \in Nodes, NEW t \in Nodes, cache_table'[n][t] # NoMac
        PROVE  /\ t \in Sources(n)
               /\ cache_table'[n][t] \in Neighbours(n)
               /\ t \in Neighbours(n) => cache_table'[n][t] = t
    <2>1. CASE cache_table'[n][t] = cache_table[n][t]
      BY <1>1, <2>1 DEF CachesRight
    <2>2. CASE cache_table'[n][t] # cache_table[n][t]
      <3> DEFINE m == cache_table'[n][t]
      <3>1. m \in Nodes /\ \E f \in Elems(wire[m][n]) : f.src = t
        BY <2>2 DEF NewCached
      <3>. HIDE DEF m
      <3>2. PICK f \in Elems(wire[m][n]) : f.src = t
        BY <3>1
      <3>3. wire[m][n] \in Seq(Frames)
        BY <3>1, Typed DEF TypeInv, Wires
      <3>4. f \in Frames
        BY <3>3, ElemsOf
      <3>5. FrameOnWay(m, n, f)
        BY <3>1 DEF FramesOnWay
      <3>. QED  BY <3>1, <3>2, <3>4, <3>5, FrameSource DEF m
    <2>. QED  BY <2>1, <2>2
  <1>. QED  BY <1>1 DEF CachesRight, Sources, Neighbours

\* A queued packet is new from a client of this node, or came over a link its flow uses.
LEMMA QueuesStep ==
    ASSUME StraightRoutes, TypeInv, QueuesOnWay, FramesOnWay, StepFacts
    PROVE  QueuesOnWay'
  <1>1. ASSUME NEW n \in Nodes, NEW p \in Elems(routing_queue'[n])
        PROVE  OnItsWay(n, p)
    <2>1. CASE p \in Elems(routing_queue[n])
      BY <2>1 DEF QueuesOnWay
    <2>2. CASE FromClient(n, p)
      <3>1. p.src = n /\ <<p.src, p.dst>> \in Traffic
        BY <2>2 DEF FromClient
      <3>2. p.dst # n
        BY <3>1, RoutesAssumption
      <3>. QED  BY <3>1, <3>2 DEF OnItsWay
    <2>3. CASE PassedOn(n, p)
      <3>1. PICK m \in Nodes : \E f \in Elems(wire[m][n]) :
                /\ f \in Packet /\ f.dst # n
                /\ p = [f EXCEPT !.ttl = (@ + 15) % 16]
        BY <2>3 DEF PassedOn
      <3>2. PICK f \in Elems(wire[m][n]) :
                /\ f \in Packet /\ f.dst # n
                /\ p = [f EXCEPT !.ttl = (@ + 15) % 16]
        BY <3>1
      <3>3. p.src = f.src /\ p.dst = f.dst
        BY <3>2 DEF Packet
      <3>4. f \in Frames /\ ~(f \in Arp \cup RoutingMsg)
        <4>1. f \in Frames
          BY <3>2 DEF Frames
        <4>. QED  BY <3>2, <4>1, FrameKinds
      <3>5. OnItsWay(m, f) /\ n \in Routes[m][f.dst]
        BY <3>4 DEF FramesOnWay, FrameOnWay
      <3> DEFINE g == <<f.src, f.dst>>
      <3>6. g[1] = f.src /\ g[2] = f.dst /\ g \in Traffic
        BY <3>5 DEF OnItsWay
      <3>7. m # g[2] /\ (m = g[1] \/ m \in Reached(g)) /\ n \in Routes[m][g[2]]
        BY <3>5, <3>6 DEF OnItsWay
      <3>. HIDE DEF g
      <3>8. n \in Reached(g)
        BY <3>7, NextHopReached
      <3>. QED  BY <3>2, <3>3, <3>6, <3>8 DEF OnItsWay, g
    <2>. QED  BY <1>1, <2>1, <2>2, <2>3 DEF StepFacts, NewQueued
  <1>2. ASSUME NEW n \in Nodes, NEW p \in Elems(arp_queue'[n])
        PROVE  OnItsWay(n, p)
    BY <1>2 DEF StepFacts, NewWaiting, QueuesOnWay
  <1>. QED  BY <1>1, <1>2 DEF QueuesOnWay, OnItsWay, Reached

\* A frame that is sent has the right next hop: the answer was for this packet, and the
\* cache has the address of the next hop itself.
LEMMA FramesStep ==
    ASSUME StraightRoutes, TypeInv, RouteInv, StepFacts, CachesRight'
    PROVE  FramesOnWay'
  <1>1. ASSUME NEW n \in Nodes, NEW m \in Nodes, NEW f \in Elems(wire'[n][m])
        PROVE  FrameOnWay(n, m, f)
    <2>1. CASE f \in Elems(wire[n][m])
      BY <2>1 DEF RouteInv, FramesOnWay
    <2>2. CASE OwnFrame(n, m, f)
      <3>1. CASE m \in Neighbours(n)
        BY <2>2, <3>1 DEF OwnFrame, FrameOnWay
      <3>2. CASE \E t \in Nodes : m = cache_table[n][t]
        <4>1. m # NoMac
          BY RoutesAssumption
        <4>2. m \in Neighbours(n)
          BY <3>2, <4>1 DEF RouteInv, CachesRight
        <4>. QED  BY <2>2, <4>2 DEF OwnFrame, FrameOnWay
      <3>3. CASE wire[m][n] # <<>>
        <4> DEFINE q == wire[m][n]
        <4>1. q \in Seq(Frames) /\ q # <<>>
          BY <3>3, Typed DEF TypeInv, Wires
        <4>2. Head(q) \in Elems(q) /\ Head(q) \in Frames
          <5>. HIDE DEF q
          <5>. QED  BY <4>1, ElemsTail
        <4>3. FrameOnWay(m, n, Head(q))
          BY <4>2 DEF RouteInv, FramesOnWay
        <4>4. m \in Neighbours(n)
          BY <4>2, <4>3, FrameSource
        <4>. QED  BY <2>2, <4>4 DEF OwnFrame, FrameOnWay
      <3>. QED  BY <2>2, <3>1, <3>2, <3>3 DEF OwnFrame
    <2>3. CASE AnsweredFrame(n, m, f)
      <3> DEFINE q == routing_queue[n]
                 p == Head(q)
                 x == Response(n)
      <3>1. /\ Resps(n) # <<>> /\ x = Head(Resps(n)) /\ x # NoPath
            /\ f = OnWire(p) /\ m = cache_table[n][x]
        BY <2>3 DEF AnsweredFrame, Responds, Response, Resps
      <3>2. /\ Reqs(n) \in Seq(Nodes) /\ Resps(n) \in Seq(Nodes \cup {NoPath})
            /\ q \in Seq(Packet)
        BY RouterParts DEF Reqs, Resps
      <3>3. Aligned(n, q, Reqs(n), Resps(n))
        BY AlignedNodes DEF RouteInv
      <3>4. q # <<>> /\ x \in Routes[n][p.dst]
        <4> DEFINE a == Reqs(n)
                   b == Resps(n)
        <4>1. /\ a \in Seq(Nodes) /\ b \in Seq(Nodes \cup {NoPath}) /\ q \in Seq(Packet)
              /\ b # <<>> /\ x = Head(b) /\ Aligned(n, q, a, b)
          BY <3>1, <3>2, <3>3
        <4>. HIDE DEF a, b, q, x
        <4>2. q # <<>> /\ Head(b) \in Routes[n][Head(q).dst]
          BY <4>1, ReadAligned
        <4>. QED  BY <4>1, <4>2
      <3>5. p \in Packet /\ p \in Elems(q)
        BY <3>2, <3>4, ElemsTail
      <3>6. OnItsWay(n, p)
        BY <3>5 DEF RouteInv, QueuesOnWay
      <3>. HIDE DEF p, x, q
      <3>7. p.dst \in Nodes /\ p.dst # n
        BY <3>5, <3>6 DEF Packet, OnItsWay
      <3>8. x \in Neighbours(n) /\ x \in Nodes
        BY <3>4, <3>7 DEF StraightRoutes, Neighbours
      <3>9. m = x
        <4>1. m # NoMac
          BY RoutesAssumption
        <4>. QED  BY <3>1, <3>8, <4>1 DEF RouteInv, CachesRight
      <3>10. /\ f \in Packet /\ f.src = p.src /\ f.dst = p.dst
        BY <3>1, <3>5, OnWireTyped
      <3>. QED  BY <3>4, <3>6, <3>9, <3>10 DEF FrameOnWay, OnItsWay
    <2>4. CASE ResolvedFrame(n, m, f)
      <3>1. PICK p \in Elems(arp_queue[n]), k \in Nodes : \E g \in Elems(wire[k][n]) :
                /\ g \in Arp /\ g.type = "arp_res" /\ g.address = p.dst
                /\ f = OnWire(p) /\ m = cache_table'[n][p.dst]
        BY <2>4 DEF ResolvedFrame
      <3>2. PICK g \in Elems(wire[k][n]) :
                /\ g \in Arp /\ g.type = "arp_res" /\ g.address = p.dst
                /\ f = OnWire(p) /\ m = cache_table'[n][p.dst]
        BY <3>1
      <3>3. g \in Frames /\ g \notin Packet
        <4>1. g \in Frames
          BY <3>2 DEF Frames
        <4>. QED  BY <3>2, <4>1, FrameKinds
      <3>4. FrameOnWay(k, n, g)
        BY DEF RouteInv, FramesOnWay
      <3>5. g.address = k /\ n \in Neighbours(k)
        BY <3>2, <3>3, <3>4 DEF FrameOnWay
      <3>6. p.dst = k /\ k \in Neighbours(n)
        BY <3>2, <3>5, LinkedBothWays
      <3>7. m = k
        <4>1. m # NoMac
          BY RoutesAssumption
        <4>. QED  BY <3>2, <3>6, <4>1 DEF CachesRight, Neighbours, Sources
      <3>8. k \in Routes[n][k]
        BY <3>6 DEF StraightRoutes
      <3>9. arp_queue[n] \in Seq(Packet)
        BY Typed DEF TypeInv
      <3>10. p \in Packet /\ OnItsWay(n, p)
        BY <3>9, ElemsOf DEF RouteInv, QueuesOnWay
      <3>11. f \in Packet /\ f.src = p.src /\ f.dst = p.dst
        BY <3>2, <3>10, OnWireTyped
      <3>. QED  BY <3>6, <3>7, <3>8, <3>10, <3>11 DEF FrameOnWay, OnItsWay
    <2>. QED  BY <1>1, <2>1, <2>2, <2>3, <2>4 DEF StepFacts, NewFrames
  <1>. QED  BY <1>1 DEF FramesOnWay, FrameOnWay, OnItsWay, Reached, Neighbours

\* The routes the following theorems are about.
Steady == StraightRoutes /\ Restarting = {}

\* The invariant behind RightNextHop and the bound on the cache.
LEMMA RouteInvInvariant ==
    ASSUME Steady
    PROVE  Spec => [](TypeInv /\ RouteInv)
  <1>1. AlwaysAnswered /\ StraightRoutes
    BY DEF Steady, AlwaysAnswered, StraightRoutes
  <1>2. Init => QueuesOnWay /\ FramesOnWay /\ CachesRight
    <2>. SUFFICES ASSUME Init PROVE QueuesOnWay /\ FramesOnWay /\ CachesRight
      OBVIOUS
    <2>1. \A n, m \in Nodes :
            routing_queue[n] = <<>> /\ arp_queue[n] = <<>> /\ wire[n][m] = <<>>
      BY DEF Init
    <2>2. \A n, t \in Nodes : cache_table[n][t] # NoMac =>
                cache_table[n][t] = t /\ t \in Neighbours(n)
      BY DEF Init
    <2>3. CachesRight
      BY <2>2 DEF CachesRight, Sources
    <2>. QED  BY <2>1, <2>3, ElemsEmpty DEF QueuesOnWay, FramesOnWay
  <1>3. TypeInv /\ RouteInv /\ [Next]_vars =>
            QueuesOnWay' /\ FramesOnWay' /\ CachesRight'
    <2>. SUFFICES ASSUME TypeInv, RouteInv, [Next]_vars
                  PROVE  QueuesOnWay' /\ FramesOnWay' /\ CachesRight'
      OBVIOUS
    <2>1. StepFacts
      BY EveryStep
    <2>2. CachesRight'
      BY <1>1, <2>1, CachesStep DEF RouteInv, StepFacts
    <2>3. FramesOnWay'
      BY <1>1, <2>1, <2>2, FramesStep
    <2>4. QueuesOnWay'
      BY <1>1, <2>1, QueuesStep DEF RouteInv
    <2>. QED  BY <2>2, <2>3, <2>4
  <1>4. Spec => []QueueAligned
    BY <1>1, QueueStaysAligned
  <1>5. RouteInv <=> QueueAligned /\ QueuesOnWay /\ FramesOnWay /\ CachesRight
    BY DEF RouteInv
  <1>. QED  BY <1>2, <1>3, <1>4, <1>5, TypeInvInvariant, PTL DEF Spec

\* Under routes of that kind a packet is only on links its own destination is
\* routed over (mip_daemon.c:61): answers meet the packets they are for
\* (mip_daemon_utils.c:104-147), the cache has the next hop's own address, and
\* ARP releases packets to their destination only (199-227).
THEOREM RoutedRight ==
    ASSUME Steady
    PROVE  Spec => []RightNextHop
  <1>1. TypeInv /\ RouteInv => RightNextHop
    <2>. SUFFICES ASSUME TypeInv, RouteInv, NEW n \in Nodes, NEW m \in Nodes,
                         NEW i \in 1..Len(wire[n][m]), IsPacket(wire[n][m][i])
                  PROVE  m \in Routes[n][wire[n][m][i].dst]
      BY DEF RightNextHop
    <2> DEFINE f == wire[n][m][i]
    <2>1. f \in Elems(wire[n][m])
      BY DEF Elems
    <2>2. wire[n][m] \in Seq(Frames)
      BY Typed DEF TypeInv, Wires
    <2>3. f \in Frames
      BY <2>1, <2>2, ElemsOf
    <2>4. ~(f \in Arp \cup RoutingMsg)
      BY <2>3, FrameKinds
    <2>. QED  BY <2>1, <2>4 DEF RouteInv, FramesOnWay, FrameOnWay
  <1>2. Spec => [](TypeInv /\ RouteInv)
    BY RouteInvInvariant
  <1>. QED  BY <1>1, <1>2, PTL

-----------------------------------------------------------------------------
(* The cache *)

\* A part of a set that fits leaves room for an element outside it.
LEMMA RoomForOneMore ==
    ASSUME NEW S, NEW C, NEW e, IsFiniteSet(S), C \subseteq S, e \in S, e \notin C,
           Cardinality(S) <= CACHE_TABLE_LEN
    PROVE  CACHE_TABLE_LEN > Cardinality(C)
  <1>1. IsFiniteSet(C) /\ IsFiniteSet(C \cup {e}) /\ C \cup {e} \subseteq S
    BY FS_Subset, FS_AddElement
  <1>2. Cardinality(C \cup {e}) = Cardinality(C) + 1
    BY <1>1, FS_AddElement
  <1>3. Cardinality(C \cup {e}) <= Cardinality(S)
    BY <1>1, FS_Subset
  <1>4. Cardinality(C) \in Nat /\ Cardinality(S) \in Nat
    BY <1>1, FS_CardinalityType
  <1>. QED  BY <1>2, <1>3, <1>4, NumbersAssumption

\* A daemon only goes down when its cache is full.
LEMMA DownMeansFull ==
    ASSUME [Next]_vars, AllUp,
           \A n, m \in Nodes : ~CacheFull(n, m)
    PROVE  AllUp'
  <1>1. UNCHANGED up
    BY DEF Next, vars, ClientMessage, RouterAnswers, handle_response, ResponseUnknown,
           ResponseCached, ResponseArp, Hello, Update, RawPacket, ArpRequest, ArpResponse,
           PacketForMe, PacketExpired, PacketForwarded, RoutingFrame, RouterEnds, RouterStarts,
           Lose
  <1>. QED  BY <1>1 DEF AllUp

\* No daemon exits for lack of space in its cache (mip_daemon.c:331-350) in a
\* network of at most CACHE_TABLE_LEN nodes, whatever the routes are and
\* whatever is lost or started again.
THEOREM SmallNetworkStaysUp ==
    ASSUME IsFiniteSet(Nodes), Cardinality(Nodes) <= CACHE_TABLE_LEN
    PROVE  Spec => []AllUp
  <1>1. Init => AllUp
    BY DEF Init, AllUp
  <1>2. TypeInv /\ AllUp /\ [Next]_vars => AllUp'
    <2>. SUFFICES ASSUME TypeInv, NEW n \in Nodes, NEW m \in Nodes, CacheFull(n, m)
                  PROVE  FALSE
      BY DownMeansFull
    <2>1. wire \in Wires /\ wire[m][n] # <<>>
      BY Typed DEF TypeInv, CacheFull
    <2>2. Frame(m, n) \in Frames
      BY <2>1, Taking
    <2>3. Frame(m, n).src \in Nodes
      BY <2>2, FrameKinds
    <2>4. Cached(n) \subseteq Nodes /\ Frame(m, n).src \notin Cached(n) /\ ~CacheHasSpace(n)
      BY DEF Cached, CacheFull
    <2>5. CACHE_TABLE_LEN > Cardinality(Cached(n))
      BY <2>3, <2>4, RoomForOneMore
    <2>. QED  BY <2>4, <2>5 DEF CacheHasSpace
  <1>. QED  BY <1>1, <1>2, TypeInvInvariant, PTL DEF Spec

\* With steady routes the cache needs room only for the neighbours and for the
\* sources of the flows that come to the node: no daemon exits (mip_daemon.c:
\* 331-350) in a network of any size in which these are CACHE_TABLE_LEN at most.
THEOREM CacheSuffices ==
    ASSUME Steady,
           \A n \in Nodes : IsFiniteSet(Sources(n)) /\ Cardinality(Sources(n)) <= CACHE_TABLE_LEN
    PROVE  Spec => []AllUp
  <1>1. Init => AllUp
    BY DEF Init, AllUp
  <1>2. TypeInv /\ RouteInv /\ AllUp /\ [Next]_vars => AllUp'
    <2>. SUFFICES ASSUME TypeInv, RouteInv, NEW n \in Nodes, NEW m \in Nodes, CacheFull(n, m)
                  PROVE  FALSE
      BY DownMeansFull
    <2>1. wire \in Wires /\ wire[m][n] # <<>>
      BY Typed DEF TypeInv, CacheFull
    <2>2. Frame(m, n) \in Frames /\ Frame(m, n) \in Elems(wire[m][n])
      BY <2>1, Taking
    <2>3. Frame(m, n).src \in Sources(n)
      BY <2>2, FrameSource DEF Steady, RouteInv, FramesOnWay
    <2>4. Frame(m, n).src \notin Cached(n) /\ ~CacheHasSpace(n)
      BY DEF CacheFull
    <2>5. Cached(n) \subseteq Sources(n)
      BY DEF Cached, RouteInv, CachesRight
    <2>6. CACHE_TABLE_LEN > Cardinality(Cached(n))
      BY <2>3, <2>4, <2>5, RoomForOneMore
    <2>. QED  BY <2>4, <2>6 DEF CacheHasSpace
  <1>3. Spec => [](TypeInv /\ RouteInv)
    BY RouteInvInvariant
  <1>. QED  BY <1>1, <1>2, <1>3, PTL DEF Spec
=============================================================================
