------------------------------ MODULE Routing ------------------------------
(***************************************************************************)
(* The routing daemons (routing_daemon.c, routing_utils.c): a distance     *)
(* vector protocol with poisoned reverse, one daemon per node, talking     *)
(* through the MIP daemons below.                                          *)
(*                                                                         *)
(* A daemon is one single-threaded loop, so each part of it is one step:   *)
(*   Hello                 the hello is due: it is written, with an update;*)
(*   identify_broken_path  a neighbour has been silent for 12 seconds;     *)
(*   handle_hello          a hello is read;                                *)
(*   update_routing_list   an update is read.                              *)
(* The linked list routing_list holds each target at most once (a target   *)
(* is only appended when the whole list was searched for it), and the      *)
(* order of its nodes is not observable: it is a function from targets to  *)
(* entries.                                                                *)
(*                                                                         *)
(* The MIP daemons below are chan[n][m], the messages on the link from n   *)
(* to m, in order, and what handle_routing_msg (mip_daemon_utils.c) needs  *)
(* to send an update: the cache of link addresses of the nodes heard from. *)
(* The links in Lossy lose messages.  Timers are abstract: a hello is due  *)
(* at any moment, and to a node in Expiring a neighbour may be silent for  *)
(* too long at any moment.  The routing daemon of a node in Restarting may *)
(* be started again, with an empty list, over the same MIP daemon.         *)
(***************************************************************************)
EXTENDS Naturals, Sequences

CONSTANTS
    Nodes,                  \* MIP addresses
    Links,                  \* <<n, m>>: n and m share a link
    MAX_DISTANCE,           \* 255, the largest uint8_t and a broken path
    Lossy,                  \* links that may lose messages
    Expiring,               \* nodes that may find a neighbour silent
    Restarting,             \* nodes whose routing daemon may be started again
    MaxBacklog,             \* bound: messages on a link when a timer fires
    MaxInFlight,            \* bound: messages on a link when a reply is sent
    MaxHops                 \* bound: hops in the lists when a daemon restarts

ASSUME LinksAssumption ==
    /\ Links \subseteq {l \in Nodes \X Nodes : l[1] # l[2]}
    /\ \A n, m \in Nodes : <<n, m>> \in Links => <<m, n>> \in Links

ASSUME DistanceAssumption == MAX_DISTANCE \in Nat \ {0, 1, 2}

ASSUME EnvironmentAssumption ==
    /\ Lossy \subseteq Links
    /\ Expiring \subseteq Nodes
    /\ Restarting \subseteq Nodes
    /\ MaxBacklog \in Nat
    /\ MaxInFlight \in Nat
    /\ MaxHops \in Nat

VARIABLES
    routing_list,   \* routing_list[n][t]: what n knows of target t
    cached,         \* cached[n]: nodes the MIP daemon of n has an address for
    up,             \* up[n]: the daemons of n run
    chan            \* chan[n][m]: messages from n to m under way

vars == <<routing_list, cached, up, chan>>

Distances == 0..MAX_DISTANCE

\* An entry.  The field hops is a history field no handler reads: the number
\* of times the target was passed on before the entry was made.
Known == [known : {TRUE}, distance : Distances, next_mip : Nodes, hops : Nat]
NoEntry == [known |-> FALSE]

\* An update holds pairs for some targets; hops is the history field again.
Pair == [known : {TRUE}, distance : Distances, hops : Nat]
HLO == [type |-> "HLO"]
UPD == [type : {"UPD"}, pairs : [Nodes -> Pair \cup {NoEntry}]]

TypeOK ==
    /\ routing_list \in [Nodes -> [Nodes -> Known \cup {NoEntry}]]
    /\ cached \in [Nodes -> SUBSET Nodes]
    /\ up \in [Nodes -> BOOLEAN]
    /\ chan \in [Nodes -> [Nodes -> Seq({HLO} \cup UPD)]]

Init ==
    /\ routing_list = [n \in Nodes |-> [t \in Nodes |-> NoEntry]]
    /\ cached = [n \in Nodes |-> {}]
    /\ up = [n \in Nodes |-> TRUE]
    /\ chan = [n \in Nodes |-> [m \in Nodes |-> <<>>]]

-----------------------------------------------------------------------------
(* The routing list *)

\* Mutants: the sum is kept in a wider integer; the own link is not counted.
Plus1Wide(d) == d + 1
Plus1Omitted(d) == d

\* uint8_t arithmetic: the sum wraps when it is stored.
Plus1(d) == (d + 1) % (MAX_DISTANCE + 1)

Entry(distance, next_mip, hops) ==
    [known |-> TRUE, distance |-> distance, next_mip |-> next_mip, hops |-> hops]

\* What the daemon answers to a request of the MIP daemon for target t: the
\* next hop, or nothing for 255, no path.
lookup(list, t) ==
    IF list[t].known /\ list[t].distance # MAX_DISTANCE
    THEN {list[t].next_mip}
    ELSE {}

\* MAX_DISTANCE stands for a broken path.
IsBroken(e) == e.known /\ e.distance = MAX_DISTANCE

\* Mutant: what hangs on a broken target is left as it is.
BrokenItself(list) == {t \in Nodes : IsBroken(list[t])}

\* The targets that have to be broken: those at MAX_DISTANCE, and in turn
\* those whose next hop is such a target, until nothing changes.
Broken(list) ==
    LET Kn == {t \in Nodes : list[t].known}
        Closed(S) ==
            \A t \in Kn : IsBroken(list[t]) \/ list[t].next_mip \in S => t \in S
    IN  {t \in Kn : \A S \in SUBSET Kn : Closed(S) => t \in S}

update_broken_paths(list) ==
    [t \in Nodes |->
        IF t \in Broken(list) THEN [list[t] EXCEPT !.distance = MAX_DISTANCE]
        ELSE list[t]]

\* Mutant: a broken entry is replaced like a missing one.
ApplyPairReplacesBroken(e, m, pair) ==
    IF ~e.known \/ e.distance = MAX_DISTANCE
    THEN Entry(Plus1(pair.distance), m, pair.hops + 1)
    ELSE IF pair.distance = MAX_DISTANCE /\ m = e.next_mip
    THEN [e EXCEPT !.distance = MAX_DISTANCE]
    ELSE IF e.distance > pair.distance + 1
    THEN [e EXCEPT !.distance = pair.distance + 1]
    ELSE e

\* What the pair for target t in an update from m does to the entry e for t.
ApplyPair(e, m, pair) ==
    IF ~e.known
    THEN Entry(Plus1(pair.distance), m, pair.hops + 1)
    ELSE IF pair.distance = MAX_DISTANCE /\ m = e.next_mip
    THEN [e EXCEPT !.distance = MAX_DISTANCE]
    ELSE IF e.distance > pair.distance + 1
    THEN [e EXCEPT !.distance = pair.distance + 1]
    ELSE e

\* Whether the pair counts as a change.
PairChanges(e, m, pair) ==
    \/ ~e.known
    \/ pair.distance = MAX_DISTANCE /\ m = e.next_mip
    \/ e.distance > pair.distance + 1

ApplyUpdate(list, m, pairs) ==
    [t \in Nodes |->
        IF pairs[t].known THEN ApplyPair(list[t], m, pairs[t]) ELSE list[t]]

-----------------------------------------------------------------------------
(* Messages *)

Neighbours(n) == {m \in Nodes : <<n, m>> \in Links}

\* The targets an update goes to.
AtDistance1(list) == {t \in Nodes : list[t].known /\ list[t].distance = 1}

\* Mutant: the wrong targets are announced as broken.
AnnouncedReversed(e, m) == IF e.next_mip # m THEN MAX_DISTANCE ELSE e.distance

\* A target is announced as broken to the next hop on the way to it.
Announced(e, m) == IF e.next_mip = m THEN MAX_DISTANCE ELSE e.distance

\* The update for m: every target but m itself.
update_for(list, m) ==
    [type  |-> "UPD",
     pairs |-> [t \in Nodes |->
        IF list[t].known /\ t # m
        THEN [known |-> TRUE, distance |-> Announced(list[t], m), hops |-> list[t].hops]
        ELSE NoEntry]]

\* chan after n writes out[m] for each m on top of c.
Written(n, c, out) ==
    [c EXCEPT ![n] = [m \in Nodes |->
        IF m \in Neighbours(n) /\ up[m] THEN @[m] \o out[m] ELSE @[m]]]

\* n writes what is in before, then an update to every target in its list at
\* distance 1.  The MIP daemon exits at the first one it has no address for,
\* and the updates behind it in the list are not sent.
send_update(n, c, before, list) ==
    LET to == AtDistance1(list)
        Out(S) ==
            [m \in Nodes |->
                before \o (IF m \in S THEN <<update_for(list, m)>> ELSE <<>>)]
    IN  \/ /\ to \subseteq cached'[n]
           /\ chan' = Written(n, c, Out(to))
           /\ UNCHANGED up
        \/ /\ ~(to \subseteq cached'[n])
           /\ \E S \in SUBSET (to \cap cached'[n]) : chan' = Written(n, c, Out(S))
           /\ up' = [up EXCEPT ![n] = FALSE]

-----------------------------------------------------------------------------
(* The daemon *)

\* No link of n holds more than k messages.
HasRoom(n, k) == \A m \in Neighbours(n) : Len(chan[n][m]) <= k

\* Every fifth second, and at the start, when the list is empty.
Hello(n) ==
    /\ up[n]
    /\ HasRoom(n, MaxBacklog)
    /\ UNCHANGED <<routing_list, cached>>
    /\ send_update(n, chan, <<HLO>>, routing_list[n])

identify_broken_path(n, t) ==
    LET list == [routing_list[n] EXCEPT ![t].distance = MAX_DISTANCE]
    IN  /\ n \in Expiring
        /\ up[n]
        /\ HasRoom(n, MaxBacklog)
        /\ t \in AtDistance1(routing_list[n])
        /\ routing_list' = [routing_list EXCEPT ![n] = list]
        /\ UNCHANGED cached
        /\ send_update(n, chan, <<>>, list)

\* Mutant: only a hello makes the MIP daemon keep an address.
ReadsHello(n, m) ==
    /\ up[n]
    /\ chan[m][n] # <<>>
    /\ cached' = [cached EXCEPT ![n] =
                    IF Head(chan[m][n]) = HLO THEN @ \cup {m} ELSE @]

\* n reads the first message from m, whose link address the MIP daemon keeps.
Reads(n, m) ==
    /\ up[n]
    /\ chan[m][n] # <<>>
    /\ cached' = [cached EXCEPT ![n] = @ \cup {m}]

\* The list is now the given one; an update goes out if it counts as changed.
Conclude(n, m, list, change) ==
    LET taken == [chan EXCEPT ![m][n] = Tail(@)]
    IN  /\ routing_list' = [routing_list EXCEPT ![n] = list]
        /\ IF change
           THEN HasRoom(n, MaxInFlight) /\ send_update(n, taken, <<>>, list)
           ELSE chan' = taken /\ UNCHANGED up

handle_hello(n, m) ==
    LET old  == routing_list[n]
        list == IF old[m].known
                THEN [old EXCEPT ![m].distance = 1]
                ELSE [old EXCEPT ![m] = Entry(1, m, 1)]
    IN  /\ Reads(n, m)
        /\ Head(chan[m][n]) = HLO
        /\ Conclude(n, m, list, list # old)

update_routing_list(n, m) ==
    LET old     == routing_list[n]
        pairs   == Head(chan[m][n]).pairs
        applied == ApplyUpdate(old, m, pairs)
        list    == update_broken_paths(applied)
    IN  /\ Reads(n, m)
        /\ Head(chan[m][n]) # HLO
        /\ Conclude(n, m, list,
                    \/ \E t \in Nodes : pairs[t].known /\ PairChanges(old[t], m, pairs[t])
                    \/ list # applied)

\* The routing daemon of n is started again: it knows nothing and says hello.
Restart(n) ==
    /\ n \in Restarting
    /\ up[n]
    /\ \A m, t \in Nodes : routing_list[m][t].known => routing_list[m][t].hops <= MaxHops
    /\ HasRoom(n, MaxBacklog)
    /\ routing_list' = [routing_list EXCEPT ![n] = [t \in Nodes |-> NoEntry]]
    /\ chan' = Written(n, chan, [m \in Nodes |-> <<HLO>>])
    /\ UNCHANGED <<cached, up>>

Lose(n, m) ==
    /\ <<n, m>> \in Lossy
    /\ chan[n][m] # <<>>
    /\ chan' = [chan EXCEPT ![n][m] = Tail(@)]
    /\ UNCHANGED <<routing_list, cached, up>>

Next ==
    \/ \E n \in Nodes : Hello(n)
    \/ \E n, t \in Nodes : identify_broken_path(n, t)
    \/ \E n, m \in Nodes : handle_hello(n, m)
    \/ \E n, m \in Nodes : update_routing_list(n, m)
    \/ \E n \in Nodes : Restart(n)
    \/ \E n, m \in Nodes : Lose(n, m)

Spec == Init /\ [][Next]_vars

\* The loop of a daemon always comes back to the hello and to its socket, and
\* a link does not lose every hello or every update.
Fairness ==
    /\ \A n \in Nodes : WF_vars(Hello(n))
    /\ \A l \in Links :
        /\ SF_vars(handle_hello(l[1], l[2]))
        /\ SF_vars(update_routing_list(l[1], l[2]))

FairSpec == Spec /\ Fairness

-----------------------------------------------------------------------------
(* Properties *)

\* The next hops never lead in a circle, whatever is lost and whichever
\* neighbours fall silent and come back: an entry keeps the next hop it was
\* made with (routing_utils.c:311-327), which was there before it.
LoopFree ==
    \A t \in Nodes : \A S \in SUBSET (Nodes \ {t}) :
        S = {} \/ \E n \in S : lookup(routing_list[n], t) \cap S = {}

\* A daemon that has just worked on an update uses no path through a target
\* it takes for broken (update_broken_paths, 245-286).
NoBrokenNextHop ==
    [][\A n, m \in Nodes : update_routing_list(n, m) =>
        \A t \in Nodes : \A x \in lookup(routing_list'[n], t) :
            ~IsBroken(routing_list'[n][x])]_vars

\* No MIP daemon is asked to send an update to a node it never heard from
\* (mip_daemon_utils.c:93-96), while no neighbour falls silent: only nodes
\* whose hello was read get distance 1 (routing_utils.c:111-137, 330).
AllUp == \A n \in Nodes : up[n]

\* The MIP daemon has a link address for every next hop it is given, also
\* when hellos were lost and the routing daemon was started again: a response
\* (mip_daemon_utils.c:104-147) never has to wait for ARP.
NextHopsCached ==
    \A n, t \in Nodes : lookup(routing_list[n], t) \subseteq cached[n]

\* Every node is told of every other one and learns its true distance, and
\* keeps it: the update with every hello (routing_daemon.c:43-47) repairs
\* what the links lost, and poisoned reverse (routing_utils.c:211-215) hides
\* no node for good.  Distance gives the length of the shortest paths.
Converges(Distance) ==
    <>[](\A n \in Nodes : \A t \in Nodes \ {n} :
            /\ routing_list[n][t].known
            /\ routing_list[n][t].distance = Distance[n, t])
=============================================================================
