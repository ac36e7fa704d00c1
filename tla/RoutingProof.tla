---------------------------- MODULE RoutingProof ----------------------------
(***************************************************************************)
(* Proofs about the routing daemons, for every topology, every value of    *)
(* MAX_DISTANCE and every bound:                                           *)
(*   TypeCorrect            the lists are well typed;                      *)
(*   NeverInCircles         next hops never lead in a circle, unless a     *)
(*                          daemon loses its list;                         *)
(*   BrokenPathsClosed      no update leaves a path through a broken node; *)
(*   NextHopsReachable      the MIP daemon knows every next hop;           *)
(*   UpdatesReachNeighbours and every node an update is sent to, while     *)
(*                          nobody falls silent or is started again.       *)
(***************************************************************************)
EXTENDS Routing, SequenceTheorems, FiniteSetTheorems, WellFoundedInduction, TLAPS

List == [Nodes -> Known \cup {NoEntry}]
Pairs == [Nodes -> Pair \cup {NoEntry}]
Messages == {HLO} \cup UPD

\* The list new has every entry of old, with its next hop and its hops.
Keeps(old, new) ==
    \A t \in Nodes : old[t].known =>
        /\ new[t].known
        /\ new[t].next_mip = old[t].next_mip
        /\ new[t].hops = old[t].hops

\* The path of n to t ends at the next hop or goes on from there, closer.
Leads(n, t) ==
    routing_list[n][t].known =>
        LET x == routing_list[n][t].next_mip
        IN  \/ x = t
            \/ /\ routing_list[x][t].known
               /\ routing_list[x][t].hops < routing_list[n][t].hops

\* Every entry leads on.
ListsLead == \A n, t \in Nodes : Leads(n, t)

\* Node m still has every target that the message msg of m announces.
Announces(m, msg) ==
    msg # HLO => \A t \in Nodes : msg.pairs[t].known =>
        /\ routing_list[m][t].known
        /\ routing_list[m][t].hops = msg.pairs[t].hops

MessagesLead ==
    \A m, n \in Nodes : \A i \in 1..Len(chan[m][n]) : Announces(m, chan[m][n][i])

RouteInv == TypeOK /\ ListsLead /\ MessagesLead

\* Every next hop was a node the MIP daemon had heard from.
HopsCached ==
    \A n, t \in Nodes :
        routing_list[n][t].known => routing_list[n][t].next_mip \in cached[n]

\* No node is told of itself.
SelfUnknown ==
    /\ \A n \in Nodes : ~routing_list[n][n].known
    /\ \A n \in Nodes : chan[n][n] = <<>>
    /\ \A m, n \in Nodes : \A i \in 1..Len(chan[m][n]) :
            chan[m][n][i] # HLO => ~chan[m][n][i].pairs[n].known

\* A target that was passed on h times was passed on h - 1 times before.
Chained(list, t) ==
    /\ list[t].hops >= 1
    /\ list[t].hops = 1 \/ \E x \in Nodes :
            /\ routing_list[x][t].known
            /\ routing_list[x][t].hops = list[t].hops - 1

\* Every entry is at the end of a chain of hops.
ListsChained ==
    \A n, t \in Nodes : routing_list[n][t].known => Chained(routing_list[n], t)

\* The distance of a target is one of a path, and only a node heard from is
\* at distance 1.
Near(list, heard) ==
    \A t \in Nodes : list[t].known =>
        /\ list[t].distance \in 1..list[t].hops
        /\ list[t].distance = 1 => t \in heard

ListsNear == \A n \in Nodes : Near(routing_list[n], cached[n])

\* A message announces distances of paths, and the end of a path only to a
\* node that has another one.
MessagesNear ==
    \A m, n \in Nodes : \A i \in 1..Len(chan[m][n]) : chan[m][n][i] # HLO =>
        \A t \in Nodes : LET pair == chan[m][n][i].pairs[t] IN pair.known =>
            \/ pair.distance \in 1..pair.hops
            \/ /\ pair.distance = MAX_DISTANCE
               /\ routing_list[n][t].known
               /\ routing_list[n][t].next_mip # m

-----------------------------------------------------------------------------
(* Entries and lists *)

\* An entry is known and has fields, or it is not.
LEMMA EntryCases ==
    ASSUME NEW e \in Known \cup {NoEntry}
    PROVE  /\ e.known \in BOOLEAN
           /\ e.known => e \in Known
           /\ ~e.known => e = NoEntry
  <1>1. CASE e \in Known
    <2>1. e.known = TRUE
      BY <1>1 DEF Known
    <2>. QED  BY <1>1, <2>1
  <1>2. CASE e = NoEntry
    <2>1. e.known = FALSE
      BY <1>2 DEF NoEntry
    <2>. QED  BY <1>2, <2>1
  <1>. QED  BY <1>1, <1>2

\* A new distance leaves the next hop and the hops of an entry alone.
LEMMA DistanceChanged ==
    ASSUME NEW e \in Known, NEW d \in Distances
    PROVE  /\ [e EXCEPT !.distance = d] \in Known
           /\ [e EXCEPT !.distance = d].next_mip = e.next_mip
           /\ [e EXCEPT !.distance = d].hops = e.hops
  BY DEF Known

\* The entries that are made are well typed.
LEMMA EntryTyped ==
    ASSUME NEW d \in Distances, NEW m \in Nodes, NEW h \in Nat
    PROVE  /\ Entry(d, m, h) \in Known
           /\ Entry(d, m, h).next_mip = m
           /\ Entry(d, m, h).hops = h
  BY DEF Entry, Known

\* The stored sum is a distance: it wraps.
LEMMA SumTyped ==
    ASSUME NEW d \in Distances
    PROVE  Plus1(d) \in Distances
  BY DistanceAssumption DEF Plus1, Distances

\* ApplyPair (routing_utils.c:303-333) makes an entry or changes a distance.
LEMMA PairApplied ==
    ASSUME NEW e \in Known \cup {NoEntry}, NEW m \in Nodes, NEW pair \in Pair
    PROVE  LET r == ApplyPair(e, m, pair)
           IN  /\ r \in Known
               /\ e.known => r.next_mip = e.next_mip /\ r.hops = e.hops
               /\ ~e.known => r.next_mip = m /\ r.hops = pair.hops + 1
  <1>1. /\ pair.distance \in Distances /\ pair.hops \in Nat
        /\ pair.hops + 1 \in Nat
    BY DEF Pair
  <1>2. MAX_DISTANCE \in Distances
    BY DistanceAssumption DEF Distances
  <1>3. CASE ~e.known
    <2>1. ApplyPair(e, m, pair) = Entry(Plus1(pair.distance), m, pair.hops + 1)
      BY <1>3 DEF ApplyPair
    <2>2. Plus1(pair.distance) \in Distances
      BY <1>1, SumTyped
    <2>. QED  BY <1>1, <1>3, <2>1, <2>2, EntryTyped
  <1>4. CASE e.known
    <2>1. e \in Known /\ e.distance \in Distances
      BY <1>4, EntryCases DEF Known
    <2>2. \/ ApplyPair(e, m, pair) = [e EXCEPT !.distance = MAX_DISTANCE]
          \/ /\ ApplyPair(e, m, pair) = [e EXCEPT !.distance = pair.distance + 1]
             /\ e.distance > pair.distance + 1
          \/ ApplyPair(e, m, pair) = e
      BY <1>4 DEF ApplyPair
    <2>3. e.distance > pair.distance + 1 => pair.distance + 1 \in Distances
      BY <1>1, <2>1, DistanceAssumption DEF Distances
    <2>. QED  BY <1>2, <1>4, <2>1, <2>2, <2>3, DistanceChanged
  <1>. QED  BY <1>3, <1>4, EntryCases

\* update_broken_paths only sets distances.
LEMMA BrokenPathsUpdated ==
    ASSUME NEW list \in List
    PROVE  /\ update_broken_paths(list) \in List
           /\ Keeps(list, update_broken_paths(list))
           /\ \A t \in Nodes : ~list[t].known => ~update_broken_paths(list)[t].known
  <1> DEFINE r == update_broken_paths(list)
  <1>1. MAX_DISTANCE \in Distances
    BY DistanceAssumption DEF Distances
  <1>2. ASSUME NEW t \in Nodes
        PROVE  /\ r[t] \in Known \cup {NoEntry}
               /\ list[t].known => r[t].known /\ r[t].next_mip = list[t].next_mip
                                              /\ r[t].hops = list[t].hops
               /\ ~list[t].known => ~r[t].known
    <2>1. list[t] \in Known \cup {NoEntry}
      BY DEF List
    <2>2. CASE t \in Broken(list)
      <3>1. list[t].known
        BY <2>2 DEF Broken
      <3>2. list[t] \in Known
        BY <2>1, <3>1, EntryCases
      <3>3. r[t] = [list[t] EXCEPT !.distance = MAX_DISTANCE]
        BY <2>2 DEF update_broken_paths
      <3>4. r[t] \in Known /\ r[t].known
        BY <1>1, <3>2, <3>3, DistanceChanged DEF Known
      <3>. QED  BY <1>1, <3>1, <3>2, <3>3, <3>4, DistanceChanged
    <2>3. CASE t \notin Broken(list)
      <3>1. r[t] = list[t]
        BY <2>3 DEF update_broken_paths
      <3>. QED  BY <2>1, <3>1
    <2>. QED  BY <2>2, <2>3
  <1>3. r = [t \in Nodes |-> r[t]]
    BY DEF update_broken_paths
  <1>. QED  BY <1>2, <1>3 DEF Keeps, List

\* The pairs of an update from m: entries keep their next hops, and new ones
\* lead to m and come from a pair of the update.
LEMMA PairsApplied ==
    ASSUME NEW list \in List, NEW m \in Nodes, NEW pairs \in Pairs
    PROVE  LET a == ApplyUpdate(list, m, pairs)
           IN  /\ a \in List
               /\ Keeps(list, a)
               /\ \A t \in Nodes : ~list[t].known /\ a[t].known =>
                    /\ pairs[t].known
                    /\ a[t].next_mip = m
                    /\ a[t].hops = pairs[t].hops + 1
  <1> DEFINE a == ApplyUpdate(list, m, pairs)
  <1>1. ASSUME NEW t \in Nodes
        PROVE  /\ a[t] \in Known \cup {NoEntry}
               /\ list[t].known => a[t].known /\ a[t].next_mip = list[t].next_mip
                                              /\ a[t].hops = list[t].hops
               /\ ~list[t].known /\ a[t].known =>
                    /\ pairs[t].known
                    /\ a[t].next_mip = m
                    /\ a[t].hops = pairs[t].hops + 1
    <2>1. list[t] \in Known \cup {NoEntry} /\ pairs[t] \in Pair \cup {NoEntry}
      BY DEF List, Pairs
    <2>2. CASE pairs[t].known
      <3>1. pairs[t] \in Pair
        <4>1. pairs[t] # NoEntry
          BY <2>2 DEF NoEntry
        <4>. QED  BY <2>1, <4>1
      <3>2. a[t] = ApplyPair(list[t], m, pairs[t])
        BY <2>2 DEF ApplyUpdate
      <3>3. a[t] \in Known /\ a[t].known
        <4>1. a[t] \in Known
          BY <2>1, <3>1, <3>2, PairApplied
        <4>2. a[t].known = TRUE
          BY <4>1 DEF Known
        <4>. QED  BY <4>1, <4>2
      <3>. QED  BY <2>1, <2>2, <3>1, <3>2, <3>3, PairApplied
    <2>3. CASE ~pairs[t].known
      <3>1. a[t] = list[t]
        BY <2>3 DEF ApplyUpdate
      <3>. QED  BY <2>1, <3>1
    <2>. QED  BY <2>2, <2>3
  <1>2. a = [t \in Nodes |-> a[t]]
    BY DEF ApplyUpdate
  <1>3. a \in List
    BY <1>1, <1>2 DEF List
  <1>. HIDE DEF a
  <1>4. Keeps(list, a)
    BY <1>1 DEF Keeps
  <1>. QED  BY <1>1, <1>3, <1>4 DEF a

\* What an update from m makes of a list, the broken paths included.
LEMMA UpdateApplied ==
    ASSUME NEW list \in List, NEW m \in Nodes, NEW pairs \in Pairs
    PROVE  LET r == update_broken_paths(ApplyUpdate(list, m, pairs))
           IN  /\ r \in List
               /\ Keeps(list, r)
               /\ \A t \in Nodes : ~list[t].known /\ r[t].known =>
                    /\ pairs[t].known
                    /\ r[t].next_mip = m
                    /\ r[t].hops = pairs[t].hops + 1
  <1> DEFINE a == ApplyUpdate(list, m, pairs)
             r == update_broken_paths(a)
  <1>1. /\ a \in List
        /\ Keeps(list, a)
        /\ \A t \in Nodes : ~list[t].known /\ a[t].known =>
                /\ pairs[t].known
                /\ a[t].next_mip = m
                /\ a[t].hops = pairs[t].hops + 1
    BY PairsApplied
  <1>. HIDE DEF a
  <1>2. /\ r \in List
        /\ Keeps(a, r)
        /\ \A t \in Nodes : ~a[t].known => ~r[t].known
    BY <1>1, BrokenPathsUpdated
  <1>3. Keeps(list, r)
    BY <1>1, <1>2 DEF Keeps
  <1>4. ASSUME NEW t \in Nodes, ~list[t].known, r[t].known
        PROVE  /\ pairs[t].known
               /\ r[t].next_mip = m
               /\ r[t].hops = pairs[t].hops + 1
    <2>1. a[t].known
      BY <1>2, <1>4
    <2>. QED  BY <1>1, <1>2, <1>4, <2>1 DEF Keeps
  <1>. QED  BY <1>2, <1>3, <1>4 DEF a

\* update_broken_paths leaves no path through a broken target: what hangs on
\* one is in every closed set, and so is broken too.
LEMMA BrokenShunned ==
    ASSUME NEW list \in List, NEW t \in Nodes,
           NEW x \in lookup(update_broken_paths(list), t)
    PROVE  ~IsBroken(update_broken_paths(list)[x])
  <1> DEFINE r == update_broken_paths(list)
             Kn == {y \in Nodes : list[y].known}
             Closed(S) == \A y \in Kn :
                IsBroken(list[y]) \/ list[y].next_mip \in S => y \in S
  <1>1. /\ r[t].known /\ r[t].distance # MAX_DISTANCE /\ x = r[t].next_mip
    BY DEF lookup
  <1>2. /\ Keeps(list, r) /\ r \in List
        /\ \A y \in Nodes : ~list[y].known => ~r[y].known
    BY BrokenPathsUpdated
  <1>3. t \in Kn /\ x = list[t].next_mip
    BY <1>1, <1>2 DEF Keeps
  <1>4. x \in Nodes
    <2>1. list[t] \in Known
      BY <1>3, EntryCases DEF List
    <2>. QED  BY <1>3, <2>1 DEF Known
  <1>5. t \notin Broken(list)
    <2>. SUFFICES ASSUME t \in Broken(list) PROVE FALSE
      OBVIOUS
    <2>1. list[t] \in Known
      BY <1>3, EntryCases DEF List
    <2>2. r[t] = [list[t] EXCEPT !.distance = MAX_DISTANCE]
      BY DEF update_broken_paths
    <2>3. r[t].distance = MAX_DISTANCE
      BY <2>1, <2>2 DEF Known
    <2>. QED  BY <1>1, <2>3
  <1>6. PICK S \in SUBSET Kn : Closed(S) /\ t \notin S
    BY <1>3, <1>5 DEF Broken
  <1>7. x \notin S
    BY <1>3, <1>6
  <1>8. x \notin Broken(list)
    BY <1>6, <1>7 DEF Broken
  <1>9. r[x] = list[x]
    BY <1>4, <1>8 DEF update_broken_paths
  <1>10. IsBroken(list[x]) => x \in S
    BY <1>4, <1>6 DEF IsBroken
  <1>. QED  BY <1>7, <1>9, <1>10

-----------------------------------------------------------------------------
(* Channels *)

Channels == [Nodes -> [Nodes -> Seq(Messages)]]

\* An update for a neighbour is a message (send_update, 172-243).
LEMMA UpdateTyped ==
    ASSUME NEW list \in List, NEW m \in Nodes
    PROVE  /\ update_for(list, m) \in Messages
           /\ update_for(list, m) # HLO
           /\ \A t \in Nodes : update_for(list, m).pairs[t].known =>
                /\ list[t].known
                /\ update_for(list, m).pairs[t].hops = list[t].hops
  <1> DEFINE u == update_for(list, m)
             pairs == [t \in Nodes |->
                IF list[t].known /\ t # m
                THEN [known |-> TRUE, distance |-> Announced(list[t], m),
                      hops |-> list[t].hops]
                ELSE NoEntry]
  <1>1. u = [type |-> "UPD", pairs |-> pairs]
    BY DEF update_for
  <1>2. ASSUME NEW t \in Nodes
        PROVE  /\ pairs[t] \in Pair \cup {NoEntry}
               /\ pairs[t].known => list[t].known /\ pairs[t].hops = list[t].hops
    <2>1. list[t] \in Known \cup {NoEntry}
      BY DEF List
    <2>2. CASE list[t].known /\ t # m
      <3>1. list[t] \in Known
        BY <2>1, <2>2, EntryCases
      <3>2. Announced(list[t], m) \in Distances /\ list[t].hops \in Nat
        <4>1. list[t].distance \in Distances /\ list[t].hops \in Nat
          BY <3>1 DEF Known
        <4>2. MAX_DISTANCE \in Distances
          BY DistanceAssumption DEF Distances
        <4>. QED  BY <4>1, <4>2 DEF Announced
      <3>3. pairs[t] = [known |-> TRUE, distance |-> Announced(list[t], m),
                        hops |-> list[t].hops]
        BY <2>2
      <3>4. pairs[t] \in Pair
        <4>. HIDE DEF pairs
        <4>. QED  BY <3>2, <3>3 DEF Pair
      <3>. QED  BY <2>2, <3>3, <3>4
    <2>3. CASE ~(list[t].known /\ t # m)
      <3>1. pairs[t] = NoEntry
        BY <2>3
      <3>2. ~pairs[t].known
        BY <3>1 DEF NoEntry
      <3>. QED  BY <3>1, <3>2
    <2>. QED  BY <2>2, <2>3
  <1>3. pairs \in [Nodes -> Pair \cup {NoEntry}]
    BY <1>2
  <1>. HIDE DEF pairs
  <1>4. u \in UPD /\ u.pairs = pairs
    BY <1>1, <1>3 DEF UPD
  <1>5. u # HLO
    BY <1>1 DEF HLO
  <1>. QED  BY <1>2, <1>4, <1>5 DEF Messages

\* On the links w are messages of the links c, and those n wrote in out.
Extends(w, c, n, out) ==
    \A a, b \in Nodes : \A i \in 1..Len(w[a][b]) :
        \/ \E j \in 1..Len(c[a][b]) : w[a][b][i] = c[a][b][j]
        \/ a = n /\ \E j \in 1..Len(out[b]) : w[a][b][i] = out[b][j]

\* What is on the links after n has written: what was there and what n wrote.
LEMMA Writing ==
    ASSUME NEW n \in Nodes, NEW c \in Channels, NEW out \in [Nodes -> Seq(Messages)],
           NEW w, w = Written(n, c, out)
    PROVE  w \in Channels /\ Extends(w, c, n, out)
  <1>1. ASSUME NEW a \in Nodes, NEW b \in Nodes
        PROVE  /\ w[a][b] = c[a][b] \/ (a = n /\ w[a][b] = c[a][b] \o out[b])
               /\ c[a][b] \in Seq(Messages) /\ out[b] \in Seq(Messages)
    BY DEF Written, Channels
  <1>2. w \in Channels
    <2>1. \A a, b \in Nodes : w[a][b] \in Seq(Messages)
      <3>. SUFFICES ASSUME NEW a \in Nodes, NEW b \in Nodes
                    PROVE  w[a][b] \in Seq(Messages)
        OBVIOUS
      <3>. DEFINE p == c[a][b]
                  q == out[b]
                  r == w[a][b]
      <3>1. p \in Seq(Messages) /\ q \in Seq(Messages) /\ (r = p \/ r = p \o q)
        BY <1>1
      <3>. HIDE DEF p, q, r
      <3>2. r \in Seq(Messages)
        BY <3>1, ConcatProperties
      <3>. QED  BY <3>2 DEF r
    <2>2. w = [a \in Nodes |-> [b \in Nodes |-> w[a][b]]]
      BY DEF Written, Channels
    <2>. QED  BY <2>1, <2>2 DEF Channels
  <1>3. ASSUME NEW a \in Nodes, NEW b \in Nodes, NEW i \in 1..Len(w[a][b])
        PROVE  \/ \E j \in 1..Len(c[a][b]) : w[a][b][i] = c[a][b][j]
               \/ a = n /\ \E j \in 1..Len(out[b]) : w[a][b][i] = out[b][j]
    <2>. DEFINE p == c[a][b]
                q == out[b]
    <2>1. p \in Seq(Messages) /\ q \in Seq(Messages)
      BY <1>1
    <2>2. CASE w[a][b] = p
      BY <2>2
    <2>3. CASE a = n /\ w[a][b] = p \o q
      <3>1. i \in 1..Len(p \o q) /\ w[a][b][i] = (p \o q)[i]
        BY <2>3
      <3>. HIDE DEF p, q
      <3>2. /\ Len(p) \in Nat /\ Len(q) \in Nat
            /\ Len(p \o q) = Len(p) + Len(q)
            /\ (p \o q)[i] = IF i <= Len(p) THEN p[i] ELSE q[i - Len(p)]
        BY <2>1, <3>1, ConcatProperties, LenProperties
      <3>3. CASE i <= Len(p)
        BY <3>1, <3>2, <3>3 DEF p
      <3>4. CASE ~(i <= Len(p))
        <4>1. i - Len(p) \in 1..Len(q)
          BY <3>1, <3>2, <3>4
        <4>. QED  BY <2>3, <3>1, <3>2, <3>4, <4>1 DEF q
      <3>. QED  BY <3>3, <3>4
    <2>. QED  BY <1>1, <2>2, <2>3
  <1>. QED  BY <1>2, <1>3 DEF Extends

\* Every message on a link was in c, or was written by n: a hello or an
\* update of the list.
SentOver(c, n, list) ==
    \A a, b \in Nodes : \A i \in 1..Len(chan'[a][b]) :
        \/ \E j \in 1..Len(c[a][b]) : chan'[a][b][i] = c[a][b][j]
        \/ a = n /\ chan'[a][b][i] \in {HLO, update_for(list, b)}

\* A sent message is a hello or the update of the list.
LEMMA Sending ==
    ASSUME NEW n \in Nodes, NEW c \in Channels, NEW list \in List,
           NEW before \in {<<>>, <<HLO>>}, up \in [Nodes -> BOOLEAN],
           send_update(n, c, before, list)
    PROVE  /\ chan' \in Channels
           /\ up' \in [Nodes -> BOOLEAN]
           /\ SentOver(c, n, list)
  <1> DEFINE Out(S) ==
            [m \in Nodes |->
                before \o (IF m \in S THEN <<update_for(list, m)>> ELSE <<>>)]
  <1>1. PICK S : chan' = Written(n, c, Out(S))
    BY DEF send_update
  <1>2. ASSUME NEW b \in Nodes
        PROVE  /\ Out(S)[b] \in Seq(Messages)
               /\ \A j \in 1..Len(Out(S)[b]) : Out(S)[b][j] \in {HLO, update_for(list, b)}
    <2>. DEFINE u == update_for(list, b)
    <2>1. u \in Messages
      BY UpdateTyped
    <2>2. HLO \in Messages
      BY DEF Messages
    <2>. DEFINE x == IF b \in S THEN <<u>> ELSE <<>>
    <2>3. /\ before \in Seq(Messages) /\ x \in Seq(Messages)
          /\ \A k \in 1..Len(before) : before[k] = HLO
          /\ \A k \in 1..Len(x) : x[k] = u
          /\ Len(before) \in Nat /\ Len(x) \in Nat
      <3>. HIDE DEF u
      <3>1. ASSUME NEW y \in Messages
            PROVE  /\ <<y>> \in Seq(Messages) /\ Len(<<y>>) \in Nat
                   /\ \A k \in 1..Len(<<y>>) : <<y>>[k] = y
        OBVIOUS
      <3>2. /\ <<>> \in Seq(Messages) /\ Len(<<>>) \in Nat
            /\ \A y : \A k \in 1..Len(<<>>) : <<>>[k] = y
        OBVIOUS
      <3>3. /\ before \in Seq(Messages) /\ Len(before) \in Nat
            /\ \A k \in 1..Len(before) : before[k] = HLO
        BY <2>2, <3>1, <3>2, Zenon
      <3>4. /\ x \in Seq(Messages) /\ Len(x) \in Nat
            /\ \A k \in 1..Len(x) : x[k] = u
        BY <2>1, <3>1, <3>2, Zenon
      <3>. QED  BY <3>3, <3>4
    <2>. HIDE DEF u
    <2>4. Out(S)[b] = before \o x
      BY DEF u
    <2>. HIDE DEF x, Out
    <2>5. /\ Out(S)[b] \in Seq(Messages)
          /\ Len(Out(S)[b]) = Len(before) + Len(x)
          /\ \A k \in 1..Len(before) + Len(x) :
                Out(S)[b][k] = IF k <= Len(before) THEN before[k] ELSE x[k - Len(before)]
      BY <2>3, <2>4, ConcatProperties
    <2>6. ASSUME NEW k \in 1..Len(Out(S)[b])
          PROVE  Out(S)[b][k] \in {HLO, u}
      <3>1. CASE k <= Len(before)
        BY <2>3, <2>5, <3>1
      <3>2. CASE ~(k <= Len(before))
        <4>1. k - Len(before) \in 1..Len(x)
          BY <2>3, <2>5, <3>2
        <4>. QED  BY <2>3, <2>5, <3>2, <4>1
      <3>. QED  BY <3>1, <3>2
    <2>. QED  BY <2>5, <2>6 DEF u
  <1>3. Out(S) \in [Nodes -> Seq(Messages)]
    BY <1>2
  <1>4. up' \in [Nodes -> BOOLEAN]
    BY DEF send_update
  <1>. HIDE DEF Out
  <1>5. chan' \in Channels /\ Extends(chan', c, n, Out(S))
    BY <1>1, <1>3, Writing
  <1>6. ASSUME NEW a \in Nodes, NEW b \in Nodes, NEW i \in 1..Len(chan'[a][b])
        PROVE  \/ \E j \in 1..Len(c[a][b]) : chan'[a][b][i] = c[a][b][j]
               \/ a = n /\ chan'[a][b][i] \in {HLO, update_for(list, b)}
    <2>1. \/ \E j \in 1..Len(c[a][b]) : chan'[a][b][i] = c[a][b][j]
          \/ a = n /\ \E j \in 1..Len(Out(S)[b]) : chan'[a][b][i] = Out(S)[b][j]
      BY <1>5, Zenon DEF Extends
    <2>. QED  BY <1>2, <2>1, Zenon
  <1>. QED  BY <1>4, <1>5, <1>6 DEF SentOver

\* Taking the first message off a link leaves messages that were there.
LEMMA Taking ==
    ASSUME chan \in Channels, NEW m \in Nodes, NEW n \in Nodes, chan[m][n] # <<>>
    PROVE  LET c == [chan EXCEPT ![m][n] = Tail(@)]
           IN  /\ c \in Channels
               /\ \A a, b \in Nodes : \A i \in 1..Len(c[a][b]) :
                    \E j \in 1..Len(chan[a][b]) : c[a][b][i] = chan[a][b][j]
  <1> DEFINE c == [chan EXCEPT ![m][n] = Tail(@)]
             q == chan[m][n]
  <1>1. q \in Seq(Messages) /\ q # <<>>
    BY DEF Channels
  <1>. HIDE DEF q
  <1>2. /\ Tail(q) \in Seq(Messages)
        /\ Len(q) \in Nat /\ Len(q) >= 1 /\ Len(Tail(q)) = Len(q) - 1
        /\ \A i \in 1..Len(Tail(q)) : Tail(q)[i] = q[i + 1]
    BY <1>1, HeadTailProperties
  <1>3. ASSUME NEW a \in Nodes, NEW b \in Nodes
        PROVE  /\ c[a][b] = IF a = m /\ b = n THEN Tail(q) ELSE chan[a][b]
               /\ c[a][b] \in Seq(Messages)
    BY <1>2 DEF q, Channels
  <1>4. c \in Channels
    <2>1. c = [a \in Nodes |-> [b \in Nodes |-> c[a][b]]]
      BY DEF Channels
    <2>. HIDE DEF c
    <2>. QED  BY <1>3, <2>1 DEF Channels
  <1>5. ASSUME NEW a \in Nodes, NEW b \in Nodes, NEW i \in 1..Len(c[a][b])
        PROVE  \E j \in 1..Len(chan[a][b]) : c[a][b][i] = chan[a][b][j]
    <2>. HIDE DEF c
    <2>1. CASE a = m /\ b = n
      <3>1. c[a][b] = Tail(q)
        BY <1>3, <2>1
      <3>2. i \in 1..Len(Tail(q)) /\ c[a][b][i] = Tail(q)[i]
        BY <3>1
      <3>3. i + 1 \in 1..Len(q) /\ c[a][b][i] = q[i + 1]
        BY <1>2, <3>2
      <3>4. chan[a][b] = q
        BY <2>1 DEF q
      <3>. QED  BY <3>3, <3>4
    <2>2. CASE ~(a = m /\ b = n)
      <3>1. c[a][b] = chan[a][b]
        BY <1>3, <2>2
      <3>. QED  BY <3>1
    <2>. QED  BY <2>1, <2>2
  <1>. QED  BY <1>4, <1>5

-----------------------------------------------------------------------------
(* Steps *)

\* Every message on a link was there before, or was written by n.
SentBy(n, list) == SentOver(chan, n, list)

\* The entries of n's new list that were not there are led to their target.
NewLead(n, list) ==
    \A t \in Nodes : ~routing_list[n][t].known /\ list[t].known =>
        LET x == list[t].next_mip
        IN  \/ x = t
            \/ /\ routing_list[x][t].known
               /\ routing_list[x][t].hops < list[t].hops

\* A step of n that keeps its entries, and adds only entries that lead to
\* their target, preserves the invariant.
LEMMA Preserved ==
    ASSUME RouteInv, NEW n \in Nodes, NEW list \in List,
           routing_list' = [routing_list EXCEPT ![n] = list],
           Keeps(routing_list[n], list), NewLead(n, list),
           chan' \in Channels, SentBy(n, list)
    PROVE  ListsLead' /\ MessagesLead'
  <1>1. routing_list \in [Nodes -> List] /\ routing_list' \in [Nodes -> List]
    BY DEF RouteInv, TypeOK, List
  <1>2. ASSUME NEW m \in Nodes, NEW t \in Nodes, routing_list[m][t].known
        PROVE  /\ routing_list'[m][t].known
               /\ routing_list'[m][t].next_mip = routing_list[m][t].next_mip
               /\ routing_list'[m][t].hops = routing_list[m][t].hops
    <2>1. CASE m = n
      <3>1. routing_list'[m] = list
        BY <1>1, <2>1
      <3>. QED  BY <1>2, <2>1, <3>1 DEF Keeps
    <2>2. CASE m # n
      <3>1. routing_list'[m] = routing_list[m]
        BY <1>1, <2>2
      <3>. QED  BY <1>2, <3>1
    <2>. QED  BY <2>1, <2>2
  <1>3. ASSUME NEW m \in Nodes, NEW t \in Nodes, routing_list'[m][t].known
        PROVE  LET x == routing_list'[m][t].next_mip
               IN  \/ x = t
                   \/ /\ routing_list'[x][t].known
                      /\ routing_list'[x][t].hops < routing_list'[m][t].hops
    <2>. DEFINE x == routing_list'[m][t].next_mip
    <2>1. routing_list'[m][t] \in Known
      BY <1>1, <1>3, EntryCases DEF List
    <2>2. x \in Nodes
      BY <2>1 DEF Known
    <2>3. CASE routing_list[m][t].known
      <3>1. x = routing_list[m][t].next_mip
        BY <1>2, <2>3
      <3>2. x = t \/ (routing_list[x][t].known
                       /\ routing_list[x][t].hops < routing_list[m][t].hops)
        BY <2>3, <3>1 DEF RouteInv, ListsLead, Leads
      <3>. HIDE DEF x
      <3>3. CASE routing_list[x][t].known
                 /\ routing_list[x][t].hops < routing_list[m][t].hops
        <4>1. /\ routing_list'[x][t].known
              /\ routing_list'[x][t].hops = routing_list[x][t].hops
          BY <1>2, <2>2, <3>3
        <4>2. routing_list'[m][t].hops = routing_list[m][t].hops
          BY <1>2, <2>3
        <4>. QED  BY <3>3, <4>1, <4>2 DEF x
      <3>. QED  BY <3>2, <3>3 DEF x
    <2>4. CASE ~routing_list[m][t].known
      <3>1. m = n /\ routing_list'[m] = list
        BY <1>1, <1>3, <2>4
      <3>2. x = t \/ (routing_list[x][t].known
                       /\ routing_list[x][t].hops < routing_list'[m][t].hops)
        BY <1>3, <2>4, <3>1 DEF NewLead
      <3>. HIDE DEF x
      <3>3. CASE routing_list[x][t].known
                 /\ routing_list[x][t].hops < routing_list'[m][t].hops
        <4>1. /\ routing_list'[x][t].known
              /\ routing_list'[x][t].hops = routing_list[x][t].hops
          BY <1>2, <2>2, <3>3
        <4>. QED  BY <3>3, <4>1 DEF x
      <3>. QED  BY <3>2, <3>3 DEF x
    <2>. QED  BY <2>3, <2>4
  <1>4. ListsLead'
    BY <1>3 DEF ListsLead, Leads
  <1>5. ASSUME NEW a \in Nodes, NEW b \in Nodes, NEW i \in 1..Len(chan'[a][b]),
               chan'[a][b][i] # HLO, NEW t \in Nodes, chan'[a][b][i].pairs[t].known
        PROVE  /\ routing_list'[a][t].known
               /\ routing_list'[a][t].hops = chan'[a][b][i].pairs[t].hops
    <2>1. CASE \E j \in 1..Len(chan[a][b]) : chan'[a][b][i] = chan[a][b][j]
      <3>1. /\ routing_list[a][t].known
            /\ routing_list[a][t].hops = chan'[a][b][i].pairs[t].hops
        BY <1>5, <2>1 DEF RouteInv, MessagesLead, Announces
      <3>. QED  BY <1>2, <3>1
    <2>2. CASE a = n /\ chan'[a][b][i] \in {HLO, update_for(list, b)}
      <3>1. chan'[a][b][i] = update_for(list, b)
        BY <1>5, <2>2
      <3>2. list[t].known /\ chan'[a][b][i].pairs[t].hops = list[t].hops
        BY <1>5, <3>1, UpdateTyped
      <3>3. routing_list'[a] = list
        BY <1>1, <2>2
      <3>. QED  BY <3>2, <3>3
    <2>. QED  BY <2>1, <2>2 DEF SentBy, SentOver
  <1>6. MessagesLead'
    BY <1>5 DEF MessagesLead, Announces
  <1>. QED  BY <1>4, <1>6

\* A step that makes list the list of n, and only writes messages of it.
StepOf(n, list) ==
    /\ list \in List
    /\ routing_list' = [routing_list EXCEPT ![n] = list]
    /\ chan' \in Channels
    /\ SentBy(n, list)
    /\ TypeOK'

\* The type invariant gives every node a list and every link its messages.
LEMMA Typed ==
    ASSUME TypeOK
    PROVE  /\ routing_list \in [Nodes -> List]
           /\ chan \in Channels
           /\ up \in [Nodes -> BOOLEAN]
           /\ cached \in [Nodes -> SUBSET Nodes]
  BY DEF TypeOK, List, Channels, Messages

\* Whatever sends updates of the new list of n is a step of n.
LEMMA SendStep ==
    ASSUME TypeOK, NEW n \in Nodes, NEW list \in List, NEW c \in Channels,
           NEW before \in {<<>>, <<HLO>>},
           \A a, b \in Nodes : \A i \in 1..Len(c[a][b]) :
                \E j \in 1..Len(chan[a][b]) : c[a][b][i] = chan[a][b][j],
           routing_list' = [routing_list EXCEPT ![n] = list],
           cached' \in [Nodes -> SUBSET Nodes],
           send_update(n, c, before, list)
    PROVE  StepOf(n, list)
  <1>1. /\ chan' \in Channels
        /\ up' \in [Nodes -> BOOLEAN]
        /\ SentOver(c, n, list)
    BY Typed, Sending
  <1>2. SentBy(n, list)
    <2>. SUFFICES ASSUME NEW a \in Nodes, NEW b \in Nodes, NEW i \in 1..Len(chan'[a][b])
                  PROVE  \/ \E j \in 1..Len(chan[a][b]) : chan'[a][b][i] = chan[a][b][j]
                         \/ a = n /\ chan'[a][b][i] \in {HLO, update_for(list, b)}
      BY DEF SentBy, SentOver
    <2>1. CASE \E j \in 1..Len(c[a][b]) : chan'[a][b][i] = c[a][b][j]
      BY <2>1
    <2>2. CASE a = n /\ chan'[a][b][i] \in {HLO, update_for(list, b)}
      BY <2>2
    <2>. QED  BY <1>1, <2>1, <2>2 DEF SentOver
  <1>3. routing_list' \in [Nodes -> List]
    BY Typed
  <1>. QED  BY <1>1, <1>2, <1>3 DEF StepOf, TypeOK, List, Channels, Messages

\* Reading a message and acting on it is a step of the reader.
LEMMA ConcludeStep ==
    ASSUME TypeOK, NEW n \in Nodes, NEW m \in Nodes, NEW list \in List,
           NEW change, Reads(n, m), Conclude(n, m, list, change)
    PROVE  StepOf(n, list)
  <1> DEFINE taken == [chan EXCEPT ![m][n] = Tail(@)]
  <1>1. cached' \in [Nodes -> SUBSET Nodes] /\ chan[m][n] # <<>>
    BY Typed DEF Reads
  <1>2. /\ taken \in Channels
        /\ \A a, b \in Nodes : \A i \in 1..Len(taken[a][b]) :
                \E j \in 1..Len(chan[a][b]) : taken[a][b][i] = chan[a][b][j]
    BY <1>1, Typed, Taking
  <1>3. routing_list' = [routing_list EXCEPT ![n] = list]
    BY DEF Conclude
  <1>4. CASE change
    <2>1. send_update(n, taken, <<>>, list)
      BY <1>4 DEF Conclude
    <2>. HIDE DEF taken
    <2>. QED  BY <1>1, <1>2, <1>3, <2>1, SendStep
  <1>5. CASE ~change
    <2>1. chan' = taken /\ up' = up
      BY <1>5 DEF Conclude
    <2>. HIDE DEF taken
    <2>2. chan' \in Channels /\ SentBy(n, list)
      BY <1>2, <2>1 DEF SentBy, SentOver
    <2>3. routing_list' \in [Nodes -> List] /\ up' \in [Nodes -> BOOLEAN]
      BY <1>3, <2>1, Typed
    <2>. QED  BY <1>1, <1>3, <2>2, <2>3 DEF StepOf, TypeOK, List, Channels, Messages
  <1>. QED  BY <1>4, <1>5

\* Links that are left alone hold messages that were there.
LEMMA SameLinks ==
    ASSUME chan \in Channels
    PROVE  \A a, b \in Nodes : \A i \in 1..Len(chan[a][b]) :
                \E j \in 1..Len(chan[a][b]) : chan[a][b][i] = chan[a][b][j]
  OBVIOUS

\* The list of a node after a hello from m (handle_hello, 111-137).
HelloList(n, m) ==
    IF routing_list[n][m].known
    THEN [routing_list[n] EXCEPT ![m].distance = 1]
    ELSE [routing_list[n] EXCEPT ![m] = Entry(1, m, 1)]

\* The list of a node after it took t for broken (identify_broken_path, 434).
SilentList(n, t) == [routing_list[n] EXCEPT ![t].distance = MAX_DISTANCE]

\* A hello sets a distance or adds an entry that leads to its target.
LEMMA HelloListKeeps ==
    ASSUME TypeOK, NEW n \in Nodes, NEW m \in Nodes
    PROVE  /\ HelloList(n, m) \in List
           /\ Keeps(routing_list[n], HelloList(n, m))
           /\ NewLead(n, HelloList(n, m))
  <1> DEFINE old == routing_list[n]
             new == HelloList(n, m)
  <1>1. old \in List /\ old[m] \in Known \cup {NoEntry}
    BY Typed DEF List
  <1>2. 1 \in Distances /\ 1 \in Nat
    BY DistanceAssumption DEF Distances
  <1>3. CASE old[m].known
    <2>1. old[m] \in Known
      BY <1>1, <1>3, EntryCases
    <2>2. new = [old EXCEPT ![m] = [old[m] EXCEPT !.distance = 1]]
      BY <1>3 DEF HelloList
    <2>3. /\ [old[m] EXCEPT !.distance = 1] \in Known
          /\ [old[m] EXCEPT !.distance = 1].next_mip = old[m].next_mip
          /\ [old[m] EXCEPT !.distance = 1].hops = old[m].hops
      BY <1>2, <2>1, DistanceChanged
    <2>. DEFINE e == [old[m] EXCEPT !.distance = 1]
    <2>4. e.known
      BY <2>3 DEF Known
    <2>. HIDE DEF e, new, old
    <2>5. new \in List /\ \A t \in Nodes : new[t] = IF t = m THEN e ELSE old[t]
      BY <1>1, <2>2, <2>3 DEF List, e
    <2>6. Keeps(old, new)
      BY <2>3, <2>4, <2>5 DEF Keeps, e
    <2>7. \A t \in Nodes : ~old[t].known => ~new[t].known
      BY <1>3, <2>5
    <2>. QED  BY <2>5, <2>6, <2>7 DEF NewLead, old, new
  <1>4. CASE ~old[m].known
    <2>. DEFINE e == Entry(1, m, 1)
    <2>1. new = [old EXCEPT ![m] = e]
      BY <1>4 DEF HelloList
    <2>2. e \in Known /\ e.next_mip = m
      BY <1>2, EntryTyped
    <2>. HIDE DEF e, new, old
    <2>3. new \in List /\ \A t \in Nodes : new[t] = IF t = m THEN e ELSE old[t]
      BY <1>1, <2>1, <2>2 DEF List
    <2>4. Keeps(old, new)
      BY <1>4, <2>3 DEF Keeps
    <2>5. \A t \in Nodes : ~old[t].known /\ new[t].known => new[t].next_mip = t
      BY <2>2, <2>3
    <2>. QED  BY <2>3, <2>4, <2>5 DEF NewLead, old, new
  <1>. QED  BY <1>3, <1>4

\* A silent neighbour has its distance set.
LEMMA SilentListKeeps ==
    ASSUME TypeOK, NEW n \in Nodes, NEW t \in Nodes, routing_list[n][t].known
    PROVE  /\ SilentList(n, t) \in List
           /\ Keeps(routing_list[n], SilentList(n, t))
           /\ NewLead(n, SilentList(n, t))
  <1> DEFINE old == routing_list[n]
             new == SilentList(n, t)
             e == [old[t] EXCEPT !.distance = MAX_DISTANCE]
  <1>1. old \in List /\ old[t] \in Known
    BY Typed, EntryCases DEF List
  <1>2. MAX_DISTANCE \in Distances
    BY DistanceAssumption DEF Distances
  <1>3. new = [old EXCEPT ![t] = e]
    BY DEF SilentList
  <1>4. e \in Known /\ e.next_mip = old[t].next_mip /\ e.hops = old[t].hops
    BY <1>1, <1>2, DistanceChanged
  <1>5. e.known
    BY <1>4 DEF Known
  <1>6. old[t].known
    OBVIOUS
  <1>. HIDE DEF e, new, old
  <1>7. new \in List /\ \A x \in Nodes : new[x] = IF x = t THEN e ELSE old[x]
    BY <1>1, <1>3, <1>4 DEF List
  <1>8. Keeps(old, new)
    BY <1>4, <1>5, <1>7 DEF Keeps
  <1>9. \A x \in Nodes : ~old[x].known => ~new[x].known
    BY <1>6, <1>7
  <1>. QED  BY <1>7, <1>8, <1>9 DEF NewLead, old, new

-----------------------------------------------------------------------------
(* Actions *)

\* A due hello leaves the list alone.
LEMMA HelloStep ==
    ASSUME TypeOK, NEW n \in Nodes, Hello(n)
    PROVE  StepOf(n, routing_list[n])
  <1>1. routing_list[n] \in List /\ chan \in Channels
    BY Typed
  <1>2. routing_list' = [routing_list EXCEPT ![n] = routing_list[n]]
    BY Typed DEF Hello
  <1>3. cached' \in [Nodes -> SUBSET Nodes]
    BY Typed DEF Hello
  <1>4. send_update(n, chan, <<HLO>>, routing_list[n])
    BY DEF Hello
  <1>. QED  BY <1>1, <1>2, <1>3, <1>4, SameLinks, SendStep

\* A silent neighbour.
LEMMA SilentStep ==
    ASSUME TypeOK, NEW n \in Nodes, NEW t \in Nodes, identify_broken_path(n, t)
    PROVE  routing_list[n][t].known /\ StepOf(n, SilentList(n, t))
  <1>1. routing_list[n][t].known
    BY DEF identify_broken_path, AtDistance1
  <1>2. SilentList(n, t) \in List /\ chan \in Channels
    BY <1>1, Typed, SilentListKeeps
  <1>3. /\ routing_list' = [routing_list EXCEPT ![n] = SilentList(n, t)]
        /\ send_update(n, chan, <<>>, SilentList(n, t))
    BY DEF identify_broken_path, SilentList
  <1>4. cached' \in [Nodes -> SUBSET Nodes]
    BY Typed DEF identify_broken_path
  <1>. QED  BY <1>1, <1>2, <1>3, <1>4, SameLinks, SendStep

\* A hello that is read.
LEMMA HandleHelloStep ==
    ASSUME TypeOK, NEW n \in Nodes, NEW m \in Nodes, handle_hello(n, m)
    PROVE  StepOf(n, HelloList(n, m))
  <1>1. HelloList(n, m) \in List
    BY HelloListKeeps
  <1>2. /\ Reads(n, m)
        /\ Conclude(n, m, HelloList(n, m), HelloList(n, m) # routing_list[n])
    BY DEF handle_hello, HelloList
  <1>. QED  BY <1>1, <1>2, ConcludeStep

\* The list of n after the first update from m.
UpdatedList(n, m) ==
    update_broken_paths(ApplyUpdate(routing_list[n], m, Head(chan[m][n]).pairs))

\* An update that is read is the first message on the link.
LEMMA UpdateReads ==
    ASSUME TypeOK, NEW n \in Nodes, NEW m \in Nodes, update_routing_list(n, m)
    PROVE  /\ 1 \in 1..Len(chan[m][n]) /\ chan[m][n][1] = Head(chan[m][n])
           /\ Head(chan[m][n]) # HLO
           /\ Head(chan[m][n]).pairs \in Pairs
  <1>1. chan[m][n] # <<>> /\ Head(chan[m][n]) # HLO
    BY DEF update_routing_list, Reads
  <1>. DEFINE q == chan[m][n]
  <1>2. q \in Seq(Messages) /\ q # <<>>
    BY <1>1, Typed DEF Channels
  <1>. HIDE DEF q
  <1>3. 1 \in 1..Len(q) /\ q[1] = Head(q) /\ Head(q) \in Messages
    BY <1>2
  <1>4. Head(q) # HLO
    BY <1>1 DEF q
  <1>5. Head(q).pairs \in Pairs
    BY <1>3, <1>4 DEF Messages, UPD, Pairs
  <1>. QED  BY <1>3, <1>4, <1>5 DEF q

\* An update that is read: what it announces is on the link.
LEMMA UpdateStep ==
    ASSUME TypeOK, NEW n \in Nodes, NEW m \in Nodes, update_routing_list(n, m)
    PROVE  /\ StepOf(n, UpdatedList(n, m))
           /\ Keeps(routing_list[n], UpdatedList(n, m))
           /\ MessagesLead => NewLead(n, UpdatedList(n, m))
  <1> DEFINE msg == Head(chan[m][n])
             pairs == msg.pairs
             list == UpdatedList(n, m)
  <1>1. msg # HLO
    BY UpdateReads
  <1>3. 1 \in 1..Len(chan[m][n]) /\ chan[m][n][1] = msg
    BY UpdateReads
  <1>4. pairs \in Pairs
    BY UpdateReads
  <1>5. routing_list[n] \in List
    BY Typed
  <1>6. /\ list \in List
        /\ Keeps(routing_list[n], list)
        /\ \A t \in Nodes : ~routing_list[n][t].known /\ list[t].known =>
                /\ pairs[t].known
                /\ list[t].next_mip = m
                /\ list[t].hops = pairs[t].hops + 1
    <2>. HIDE DEF pairs
    <2>. QED  BY <1>4, <1>5, UpdateApplied DEF UpdatedList, pairs
  <1>7. StepOf(n, list)
    <2>1. \E change : Conclude(n, m, list, change)
      BY DEF update_routing_list, UpdatedList
    <2>2. Reads(n, m)
      BY DEF update_routing_list
    <2>. QED  BY <1>6, <2>1, <2>2, ConcludeStep
  <1>8. ASSUME MessagesLead, NEW t \in Nodes, ~routing_list[n][t].known, list[t].known
        PROVE  LET x == list[t].next_mip
               IN  routing_list[x][t].known /\ routing_list[x][t].hops < list[t].hops
    <2>1. list[t].next_mip = m /\ pairs[t].known /\ list[t].hops = pairs[t].hops + 1
      BY <1>6, <1>8
    <2>2. routing_list[m][t].known /\ routing_list[m][t].hops = pairs[t].hops
      BY <1>1, <1>3, <1>8, <2>1 DEF MessagesLead, Announces
    <2>3. pairs[t].hops \in Nat
      <3>1. pairs[t] \in Pair \cup {NoEntry}
        BY <1>4 DEF Pairs
      <3>2. pairs[t] # NoEntry
        BY <2>1 DEF NoEntry
      <3>. QED  BY <3>1, <3>2 DEF Pair
    <2>. HIDE DEF list, pairs
    <2>. QED  BY <2>1, <2>2, <2>3
  <1>. QED  BY <1>6, <1>7, <1>8 DEF NewLead

\* A lost message.
LEMMA LoseStep ==
    ASSUME TypeOK, NEW n \in Nodes, NEW m \in Nodes, Lose(n, m)
    PROVE  StepOf(n, routing_list[n])
  <1> DEFINE taken == [chan EXCEPT ![n][m] = Tail(@)]
  <1>1. chan[n][m] # <<>> /\ chan' = taken
    BY DEF Lose
  <1>2. /\ taken \in Channels
        /\ \A a, b \in Nodes : \A i \in 1..Len(taken[a][b]) :
                \E j \in 1..Len(chan[a][b]) : taken[a][b][i] = chan[a][b][j]
    BY <1>1, Typed, Taking
  <1>. HIDE DEF taken
  <1>3. chan' \in Channels /\ SentBy(n, routing_list[n])
    <2>1. \A a, b \in Nodes : \A i \in 1..Len((chan')[a][b]) :
            \E j \in 1..Len(chan[a][b]) : (chan')[a][b][i] = chan[a][b][j]
      BY <1>1, <1>2
    <2>2. chan' \in Channels
      BY <1>1, <1>2
    <2>. QED  BY <2>1, <2>2 DEF SentBy, SentOver
  <1>4. /\ routing_list[n] \in List /\ routing_list' \in [Nodes -> List]
        /\ routing_list' = [routing_list EXCEPT ![n] = routing_list[n]]
        /\ up' \in [Nodes -> BOOLEAN] /\ cached' \in [Nodes -> SUBSET Nodes]
    BY Typed DEF Lose
  <1>. QED  BY <1>3, <1>4 DEF StepOf, TypeOK, List, Channels, Messages

\* A daemon that is started again.
LEMMA RestartTyped ==
    ASSUME TypeOK, NEW n \in Nodes, Restart(n)
    PROVE  TypeOK'
  <1> DEFINE out == [m \in Nodes |-> <<HLO>>]
  <1>1. out \in [Nodes -> Seq(Messages)]
    BY DEF Messages
  <1>2. chan' = Written(n, chan, out)
    BY DEF Restart
  <1>. HIDE DEF out
  <1>3. chan' \in Channels
    BY <1>1, <1>2, Typed, Writing
  <1>4. [t \in Nodes |-> NoEntry] \in List
    BY DEF List
  <1>5. routing_list' \in [Nodes -> List]
    BY <1>4, Typed DEF Restart
  <1>6. up' \in [Nodes -> BOOLEAN] /\ cached' \in [Nodes -> SUBSET Nodes]
    BY Typed DEF Restart
  <1>. QED  BY <1>3, <1>5, <1>6 DEF TypeOK, List, Channels, Messages

-----------------------------------------------------------------------------
(* Theorems *)

\* The lists and the messages on the links keep their types in every run of
\* the daemons, restarts included: distances stay in a byte because the sum
\* of an update wraps (routing_utils.c:330).
THEOREM TypeCorrect == Spec => []TypeOK
  <1>1. Init => TypeOK
    <2>. SUFFICES ASSUME Init PROVE TypeOK
      OBVIOUS
    <2>1. routing_list \in [Nodes -> List]
      BY DEF Init, List
    <2>2. chan \in Channels
      BY DEF Init, Channels
    <2>3. up \in [Nodes -> BOOLEAN] /\ cached \in [Nodes -> SUBSET Nodes]
      BY DEF Init
    <2>. QED  BY <2>1, <2>2, <2>3 DEF TypeOK, List, Channels, Messages
  <1>2. TypeOK /\ [Next]_vars => TypeOK'
    <2>. SUFFICES ASSUME TypeOK, [Next]_vars PROVE TypeOK'
      OBVIOUS
    <2>1. CASE \E n \in Nodes : Hello(n)
      BY <2>1, HelloStep DEF StepOf
    <2>2. CASE \E n, t \in Nodes : identify_broken_path(n, t)
      BY <2>2, SilentStep DEF StepOf
    <2>3. CASE \E n, m \in Nodes : handle_hello(n, m)
      BY <2>3, HandleHelloStep DEF StepOf
    <2>4. CASE \E n, m \in Nodes : update_routing_list(n, m)
      BY <2>4, UpdateStep DEF StepOf
    <2>5. CASE \E n \in Nodes : Restart(n)
      BY <2>5, RestartTyped
    <2>6. CASE \E n, m \in Nodes : Lose(n, m)
      BY <2>6, LoseStep DEF StepOf
    <2>7. CASE UNCHANGED vars
      BY <2>7 DEF vars, TypeOK
    <2>. QED  BY <2>1, <2>2, <2>3, <2>4, <2>5, <2>6, <2>7 DEF Next
  <1>. QED  BY <1>1, <1>2, PTL DEF Spec

\* A list that is left alone keeps its entries and adds none.
LEMMA SameListLeads ==
    ASSUME NEW n \in Nodes
    PROVE  Keeps(routing_list[n], routing_list[n]) /\ NewLead(n, routing_list[n])
  BY DEF Keeps, NewLead

\* Next hops have been there before, and lead on, as long as no daemon loses
\* its list: the invariant behind LoopFree.
THEOREM RouteInvariant ==
    ASSUME Restarting = {}
    PROVE  Spec => []RouteInv
  <1>1. Init => ListsLead /\ MessagesLead
    <2>. SUFFICES ASSUME Init PROVE ListsLead /\ MessagesLead
      OBVIOUS
    <2>1. \A n, t \in Nodes : ~routing_list[n][t].known
      BY DEF Init, NoEntry
    <2>2. \A m, n \in Nodes : Len(chan[m][n]) = 0
      BY DEF Init
    <2>. QED  BY <2>1, <2>2 DEF ListsLead, Leads, MessagesLead
  <1>2. TypeOK /\ TypeOK' /\ ListsLead /\ MessagesLead /\ [Next]_vars
            => ListsLead' /\ MessagesLead'
    <2>. SUFFICES ASSUME RouteInv, TypeOK', [Next]_vars
                  PROVE  ListsLead' /\ MessagesLead'
      BY DEF RouteInv
    <2>. TypeOK /\ MessagesLead
      BY DEF RouteInv
    <2>1. CASE \E n \in Nodes : Hello(n)
      <3>1. PICK n \in Nodes : Hello(n)
        BY <2>1
      <3>. QED  BY <3>1, HelloStep, SameListLeads, Preserved DEF StepOf
    <2>2. CASE \E n, t \in Nodes : identify_broken_path(n, t)
      <3>1. PICK n \in Nodes, t \in Nodes : identify_broken_path(n, t)
        BY <2>2
      <3>. QED  BY <3>1, SilentStep, SilentListKeeps, Preserved DEF StepOf
    <2>3. CASE \E n, m \in Nodes : handle_hello(n, m)
      <3>1. PICK n \in Nodes, m \in Nodes : handle_hello(n, m)
        BY <2>3
      <3>. QED  BY <3>1, HandleHelloStep, HelloListKeeps, Preserved DEF StepOf
    <2>4. CASE \E n, m \in Nodes : update_routing_list(n, m)
      <3>1. PICK n \in Nodes, m \in Nodes : update_routing_list(n, m)
        BY <2>4
      <3>. QED  BY <3>1, UpdateStep, Preserved DEF StepOf
    <2>5. CASE \E n \in Nodes : Restart(n)
      BY <2>5 DEF Restart
    <2>6. CASE \E n, m \in Nodes : Lose(n, m)
      <3>1. PICK n \in Nodes, m \in Nodes : Lose(n, m)
        BY <2>6
      <3>. QED  BY <3>1, LoseStep, SameListLeads, Preserved DEF StepOf
    <2>7. CASE UNCHANGED vars
      BY <2>7 DEF vars, RouteInv, ListsLead, Leads, MessagesLead, Announces
    <2>. QED  BY <2>1, <2>2, <2>3, <2>4, <2>5, <2>6, <2>7 DEF Next
  <1>. QED  BY <1>1, <1>2, TypeCorrect, PTL DEF Spec, RouteInv

\* A set of nodes in which everybody's next hop is in the set would have no
\* node with the fewest hops.
LEMMA LeadsNowhereInCircles ==
    ASSUME TypeOK, ListsLead
    PROVE  LoopFree
  <1>. SUFFICES ASSUME NEW t \in Nodes, NEW S \in SUBSET (Nodes \ {t}), S # {},
                       \A n \in S : lookup(routing_list[n], t) \cap S # {}
                PROVE  FALSE
    BY DEF LoopFree
  <1>. DEFINE Hops(n) == routing_list[n][t].hops
              H == {Hops(n) : n \in S}
  <1>1. ASSUME NEW n \in S
        PROVE  /\ Hops(n) \in Nat
               /\ \E x \in S : Hops(x) \in Nat /\ Hops(x) < Hops(n)
    <2>1. routing_list[n][t].known /\ routing_list[n][t].next_mip \in S
      BY DEF lookup
    <2>. DEFINE x == routing_list[n][t].next_mip
    <2>2. routing_list[n][t] \in Known
      BY <2>1, Typed, EntryCases DEF List
    <2>3. x # t /\ x \in Nodes
      BY <2>1
    <2>4. routing_list[x][t].known /\ Hops(x) < Hops(n)
      BY <2>1, <2>3 DEF ListsLead, Leads
    <2>5. routing_list[x][t] \in Known
      BY <2>3, <2>4, Typed, EntryCases DEF List
    <2>6. Hops(n) \in Nat /\ Hops(x) \in Nat
      BY <2>2, <2>5 DEF Known
    <2>. QED  BY <2>1, <2>4, <2>6
  <1>2. H \subseteq Nat /\ H # {}
    BY <1>1
  <1>3. PICK h \in H : \A k \in H : ~(<<k, h>> \in OpToRel(<, Nat))
    BY <1>2, NatLessThanWellFounded, WFMin, Zenon
  <1>4. PICK n \in S : h = Hops(n)
    OBVIOUS
  <1>5. PICK x \in S : Hops(x) \in Nat /\ Hops(x) < Hops(n)
    BY <1>1
  <1>6. <<Hops(x), h>> \in OpToRel(<, Nat)
    BY <1>1, <1>4, <1>5 DEF OpToRel
  <1>. QED  BY <1>3, <1>6

\* Next hops never lead in a circle, for every topology, every number of
\* nodes and every loss and silence, unless a daemon is started again.
THEOREM NeverInCircles ==
    ASSUME Restarting = {}
    PROVE  Spec => []LoopFree
  BY RouteInvariant, LeadsNowhereInCircles, PTL DEF RouteInv

-----------------------------------------------------------------------------
(* Broken paths *)

\* A daemon that has just worked on an update uses no path through a target
\* it takes for broken: update_broken_paths (routing_utils.c:245-286) runs
\* until nothing changes.
THEOREM BrokenPathsClosed == Spec => NoBrokenNextHop
  <1> DEFINE Shunned ==
        \A n, m \in Nodes : update_routing_list(n, m) =>
            \A t \in Nodes : \A x \in lookup(routing_list'[n], t) :
                ~IsBroken(routing_list'[n][x])
  <1>1. TypeOK => Shunned
    <2>. SUFFICES ASSUME TypeOK, NEW n \in Nodes, NEW m \in Nodes,
                         update_routing_list(n, m), NEW t \in Nodes,
                         NEW x \in lookup(routing_list'[n], t)
                  PROVE  ~IsBroken(routing_list'[n][x])
      OBVIOUS
    <2>. DEFINE a == ApplyUpdate(routing_list[n], m, Head(chan[m][n]).pairs)
    <2>1. a \in List
      BY UpdateReads, PairsApplied, Typed
    <2>2. routing_list'[n] = update_broken_paths(a)
      BY UpdateStep, Typed DEF StepOf, UpdatedList
    <2>. HIDE DEF a
    <2>. QED  BY <2>1, <2>2, BrokenShunned
  <1>. QED  BY <1>1, TypeCorrect, PTL DEF NoBrokenNextHop

-----------------------------------------------------------------------------
(* Addresses of next hops *)

\* A list whose entries keep their next hops, and whose new ones lead to a
\* node that was heard from.
Heard(n, list) ==
    /\ Keeps(routing_list[n], list)
    /\ \A t \in Nodes : ~routing_list[n][t].known /\ list[t].known =>
            list[t].next_mip \in cached'[n]

\* A step of n that makes such a list keeps the next hops cached.
LEMMA CachedStep ==
    ASSUME TypeOK, HopsCached, NEW n \in Nodes, NEW list \in List,
           routing_list' = [routing_list EXCEPT ![n] = list], Heard(n, list),
           \A m \in Nodes : cached[m] \subseteq cached'[m]
    PROVE  HopsCached'
  <1>. SUFFICES ASSUME NEW m \in Nodes, NEW t \in Nodes, routing_list'[m][t].known
                PROVE  routing_list'[m][t].next_mip \in cached'[m]
    BY DEF HopsCached
  <1>1. CASE m = n
    <2>1. routing_list'[m] = list
      BY <1>1, Typed
    <2>2. CASE routing_list[n][t].known
      BY <1>1, <2>1, <2>2 DEF HopsCached, Heard, Keeps
    <2>3. CASE ~routing_list[n][t].known
      BY <1>1, <2>1, <2>3 DEF Heard
    <2>. QED  BY <2>2, <2>3
  <1>2. CASE m # n
    <2>1. routing_list'[m] = routing_list[m]
      BY <1>2, Typed
    <2>. QED  BY <2>1 DEF HopsCached
  <1>. QED  BY <1>1, <1>2

\* What reading a message from m does to the cache: m is in it.
LEMMA ReadsCaches ==
    ASSUME TypeOK, NEW n \in Nodes, NEW m \in Nodes, Reads(n, m)
    PROVE  /\ m \in cached'[n]
           /\ \A k \in Nodes : cached[k] \subseteq cached'[k]
  BY Typed DEF Reads

\* A hello adds no entry but one for its sender, next hop included.
LEMMA HelloEntries ==
    ASSUME TypeOK, NEW n \in Nodes, NEW m \in Nodes, NEW t \in Nodes
    PROVE  /\ t # m => HelloList(n, m)[t] = routing_list[n][t]
           /\ HelloList(n, m)[m].known
           /\ HelloList(n, m)[m].distance = 1
           /\ ~routing_list[n][m].known =>
                /\ HelloList(n, m)[m].next_mip = m
                /\ HelloList(n, m)[m].hops = 1
  <1> DEFINE old == routing_list[n]
             new == HelloList(n, m)
  <1>1. old \in List /\ old[m] \in Known \cup {NoEntry}
    BY Typed DEF List
  <1>2. CASE old[m].known
    <2>. DEFINE e == [old[m] EXCEPT !.distance = 1]
    <2>1. new = [old EXCEPT ![m] = e]
      BY <1>2 DEF HelloList
    <2>2. old[m] \in Known
      BY <1>1, <1>2, EntryCases
    <2>3. e.known /\ e.distance = 1
      BY <2>2 DEF Known
    <2>. HIDE DEF e, new, old
    <2>. QED  BY <1>1, <1>2, <2>1, <2>3 DEF List, old, new
  <1>3. CASE ~old[m].known
    <2>. DEFINE e == Entry(1, m, 1)
    <2>1. new = [old EXCEPT ![m] = e]
      BY <1>3 DEF HelloList
    <2>2. e.known /\ e.distance = 1 /\ e.next_mip = m /\ e.hops = 1
      BY DEF Entry
    <2>. HIDE DEF e, new, old
    <2>. QED  BY <1>1, <1>3, <2>1, <2>2 DEF List, old, new
  <1>. QED  BY <1>2, <1>3

\* The MIP daemon has a link address for every next hop it is given, for
\* every topology and every pattern of losses, silences and restarts: an
\* update can only be read after its sender's address was kept, and an entry
\* keeps its next hop (routing_utils.c:311-333).
THEOREM NextHopsReachable == Spec => []NextHopsCached
  <1>1. Init => HopsCached
    BY DEF Init, HopsCached, NoEntry
  <1>2. TypeOK /\ HopsCached /\ [Next]_vars => HopsCached'
    <2>. SUFFICES ASSUME TypeOK, HopsCached, [Next]_vars
                  PROVE  HopsCached'
      OBVIOUS
    <2>1. ASSUME NEW n \in Nodes, Hello(n)
          PROVE  HopsCached'
      BY <2>1 DEF Hello, HopsCached
    <2>2. ASSUME NEW n \in Nodes, NEW t \in Nodes, identify_broken_path(n, t)
          PROVE  HopsCached'
      <3>1. /\ SilentList(n, t) \in List
            /\ Keeps(routing_list[n], SilentList(n, t))
            /\ routing_list' = [routing_list EXCEPT ![n] = SilentList(n, t)]
        BY <2>2, SilentStep, SilentListKeeps DEF StepOf
      <3>2. cached' = cached
        BY <2>2 DEF identify_broken_path
      <3>3. \A x \in Nodes : ~routing_list[n][x].known => ~SilentList(n, t)[x].known
        <4>1. routing_list[n][t].known
          BY <2>2, SilentStep
        <4>2. routing_list[n] \in List
          BY Typed
        <4>3. \A x \in Nodes \ {t} : SilentList(n, t)[x] = routing_list[n][x]
          BY <4>2 DEF SilentList, List
        <4>. QED  BY <4>1, <4>3
      <3>. QED  BY <3>1, <3>2, <3>3, CachedStep DEF Heard
    <2>3. ASSUME NEW n \in Nodes, NEW m \in Nodes, handle_hello(n, m)
          PROVE  HopsCached'
      <3>1. /\ HelloList(n, m) \in List
            /\ Keeps(routing_list[n], HelloList(n, m))
            /\ routing_list' = [routing_list EXCEPT ![n] = HelloList(n, m)]
        BY <2>3, HandleHelloStep, HelloListKeeps DEF StepOf
      <3>2. m \in cached'[n] /\ \A k \in Nodes : cached[k] \subseteq cached'[k]
        BY <2>3, ReadsCaches DEF handle_hello
      <3>3. Heard(n, HelloList(n, m))
        BY <3>1, <3>2, HelloEntries DEF Heard
      <3>. QED  BY <3>1, <3>2, <3>3, CachedStep
    <2>4. ASSUME NEW n \in Nodes, NEW m \in Nodes, update_routing_list(n, m)
          PROVE  HopsCached'
      <3>1. /\ UpdatedList(n, m) \in List
            /\ routing_list' = [routing_list EXCEPT ![n] = UpdatedList(n, m)]
        BY <2>4, UpdateStep DEF StepOf
      <3>2. m \in cached'[n] /\ \A k \in Nodes : cached[k] \subseteq cached'[k]
        BY <2>4, ReadsCaches DEF update_routing_list
      <3>3. /\ Keeps(routing_list[n], UpdatedList(n, m))
            /\ \A t \in Nodes : ~routing_list[n][t].known /\ UpdatedList(n, m)[t].known
                    => UpdatedList(n, m)[t].next_mip = m
        BY <2>4, UpdateReads, UpdateApplied, Typed DEF UpdatedList
      <3>4. Heard(n, UpdatedList(n, m))
        BY <3>2, <3>3 DEF Heard
      <3>. QED  BY <3>1, <3>2, <3>4, CachedStep
    <2>5. ASSUME NEW n \in Nodes, Restart(n)
          PROVE  HopsCached'
      <3>1. \A m \in Nodes :
                routing_list'[m] = IF m = n THEN [t \in Nodes |-> NoEntry]
                                            ELSE routing_list[m]
        BY <2>5, Typed DEF Restart
      <3>2. ~NoEntry.known /\ cached' = cached
        BY <2>5 DEF NoEntry, Restart
      <3>. QED  BY <3>1, <3>2 DEF HopsCached
    <2>6. ASSUME NEW n \in Nodes, NEW m \in Nodes, Lose(n, m)
          PROVE  HopsCached'
      BY <2>6 DEF Lose, HopsCached
    <2>7. CASE UNCHANGED vars
      BY <2>7 DEF vars, HopsCached
    <2>. QED  BY <2>1, <2>2, <2>3, <2>4, <2>5, <2>6, <2>7 DEF Next
  <1>3. HopsCached => NextHopsCached
    BY DEF HopsCached, NextHopsCached, lookup
  <1>. QED  BY <1>1, <1>2, <1>3, TypeCorrect, PTL DEF Spec

-----------------------------------------------------------------------------
(* Chains of hops *)

\* No update for m names m (send_update, routing_utils.c:205).
LEMMA UpdateOmits ==
    ASSUME NEW list \in List, NEW m \in Nodes
    PROVE  ~update_for(list, m).pairs[m].known
  BY DEF update_for, NoEntry

\* Nothing is written on a link of a node to itself.
LEMMA NotToItself ==
    ASSUME TypeOK, [Next]_vars, NEW a \in Nodes, chan[a][a] = <<>>
    PROVE  chan'[a][a] = <<>>
  <1>1. a \notin Neighbours(a)
    BY LinksAssumption DEF Neighbours
  <1>2. ASSUME NEW n \in Nodes, NEW c \in Channels, NEW out, c[a][a] = <<>>
        PROVE  Written(n, c, out)[a][a] = <<>>
    BY <1>1, <1>2 DEF Written, Channels
  <1>3. ASSUME NEW n \in Nodes, NEW c \in Channels, NEW before, NEW list,
               c[a][a] = <<>>, send_update(n, c, before, list)
        PROVE  chan'[a][a] = <<>>
    <2>1. \E out : chan' = Written(n, c, out)
      BY <1>3 DEF send_update
    <2>. QED  BY <1>2, <1>3, <2>1
  <1>4. chan \in Channels
    BY Typed
  <1>5. ASSUME NEW n \in Nodes, NEW m \in Nodes, chan[m][n] # <<>>
        PROVE  LET taken == [chan EXCEPT ![m][n] = Tail(@)]
               IN  taken \in Channels /\ taken[a][a] = <<>>
    <2>1. [chan EXCEPT ![m][n] = Tail(@)] \in Channels
      BY <1>4, <1>5, Taking
    <2>2. ~(a = m /\ a = n)
      BY <1>5
    <2>3. [chan EXCEPT ![m][n] = Tail(@)][a][a] = chan[a][a]
      BY <1>4, <2>2 DEF Channels
    <2>. QED  BY <2>1, <2>3
  <1>6. ASSUME NEW n \in Nodes, Hello(n)
        PROVE  chan'[a][a] = <<>>
    BY <1>3, <1>4, <1>6 DEF Hello
  <1>7. ASSUME NEW n \in Nodes, NEW t \in Nodes, identify_broken_path(n, t)
        PROVE  chan'[a][a] = <<>>
    BY <1>3, <1>4, <1>7 DEF identify_broken_path
  <1>8. ASSUME NEW n \in Nodes, NEW m \in Nodes, NEW list, NEW change,
               Reads(n, m), Conclude(n, m, list, change)
        PROVE  chan'[a][a] = <<>>
    <2>. DEFINE taken == [chan EXCEPT ![m][n] = Tail(@)]
    <2>1. taken \in Channels /\ taken[a][a] = <<>>
      BY <1>5, <1>8 DEF Reads
    <2>2. chan' = taken \/ send_update(n, taken, <<>>, list)
      BY <1>8 DEF Conclude
    <2>. HIDE DEF taken
    <2>. QED  BY <1>3, <2>1, <2>2
  <1>9. ASSUME NEW n \in Nodes, NEW m \in Nodes, handle_hello(n, m)
        PROVE  chan'[a][a] = <<>>
    BY <1>8, <1>9 DEF handle_hello
  <1>10. ASSUME NEW n \in Nodes, NEW m \in Nodes, update_routing_list(n, m)
         PROVE  chan'[a][a] = <<>>
    BY <1>8, <1>10 DEF update_routing_list
  <1>11. ASSUME NEW n \in Nodes, Restart(n)
         PROVE  chan'[a][a] = <<>>
    BY <1>2, <1>4, <1>11 DEF Restart
  <1>12. ASSUME NEW n \in Nodes, NEW m \in Nodes, Lose(n, m)
         PROVE  chan'[a][a] = <<>>
    BY <1>5, <1>12 DEF Lose
  <1>13. CASE UNCHANGED vars
    BY <1>13 DEF vars
  <1>. QED  BY <1>6, <1>7, <1>9, <1>10, <1>11, <1>12, <1>13 DEF Next

\* A step of n whose new list does not hold n.
LEMMA SelfStep ==
    ASSUME TypeOK, SelfUnknown, [Next]_vars, NEW n \in Nodes, NEW list \in List,
           StepOf(n, list), ~list[n].known
    PROVE  SelfUnknown'
  <1>1. \A a \in Nodes : ~routing_list'[a][a].known
    <2>1. \A a \in Nodes : routing_list'[a] = IF a = n THEN list ELSE routing_list[a]
      BY Typed DEF StepOf
    <2>. QED  BY <2>1 DEF SelfUnknown
  <1>2. \A a \in Nodes : chan'[a][a] = <<>>
    BY NotToItself DEF SelfUnknown
  <1>3. ASSUME NEW a \in Nodes, NEW b \in Nodes, NEW i \in 1..Len(chan'[a][b]),
               chan'[a][b][i] # HLO
        PROVE  ~chan'[a][b][i].pairs[b].known
    <2>1. CASE \E j \in 1..Len(chan[a][b]) : chan'[a][b][i] = chan[a][b][j]
      BY <1>3, <2>1 DEF SelfUnknown
    <2>2. CASE chan'[a][b][i] \in {HLO, update_for(list, b)}
      BY <1>3, <2>2, UpdateOmits
    <2>. QED  BY <2>1, <2>2 DEF StepOf, SentBy, SentOver
  <1>. QED  BY <1>1, <1>2, <1>3 DEF SelfUnknown

\* A step of n that keeps its entries, and adds only entries of targets that
\* were passed on once less often before.
LEMMA ChainedStep ==
    ASSUME TypeOK, ListsChained, NEW n \in Nodes, NEW list \in List,
           routing_list' = [routing_list EXCEPT ![n] = list],
           Keeps(routing_list[n], list),
           \A t \in Nodes : ~routing_list[n][t].known /\ list[t].known => Chained(list, t)
    PROVE  ListsChained'
  <1>1. \A a \in Nodes : routing_list'[a] = IF a = n THEN list ELSE routing_list[a]
    BY Typed
  <1>2. ASSUME NEW x \in Nodes, NEW t \in Nodes, routing_list[x][t].known
        PROVE  /\ routing_list'[x][t].known
               /\ routing_list'[x][t].hops = routing_list[x][t].hops
    BY <1>1, <1>2 DEF Keeps
  <1>3. ASSUME NEW a \in Nodes, NEW t \in Nodes, routing_list'[a][t].known
        PROVE  \E old : /\ Chained(old, t)
                        /\ old[t].hops = routing_list'[a][t].hops
    <2>1. CASE routing_list[a][t].known
      <3>1. Chained(routing_list[a], t)
        BY <2>1 DEF ListsChained
      <3>. QED  BY <1>2, <2>1, <3>1
    <2>2. CASE ~routing_list[a][t].known
      <3>1. a = n /\ routing_list'[a] = list
        BY <1>1, <1>3, <2>2
      <3>2. Chained(list, t)
        BY <1>3, <2>2, <3>1
      <3>. QED  BY <3>1, <3>2
    <2>. QED  BY <2>1, <2>2
  <1>4. ASSUME NEW a \in Nodes, NEW t \in Nodes, routing_list'[a][t].known
        PROVE  /\ routing_list'[a][t].hops >= 1
               /\ \/ routing_list'[a][t].hops = 1
                  \/ \E x \in Nodes :
                        /\ routing_list'[x][t].known
                        /\ routing_list'[x][t].hops = routing_list'[a][t].hops - 1
    <2>1. PICK old : Chained(old, t) /\ old[t].hops = routing_list'[a][t].hops
      BY <1>3, <1>4
    <2>2. old[t].hops >= 1
      BY <2>1 DEF Chained
    <2>3. CASE old[t].hops = 1
      BY <2>1, <2>3
    <2>4. CASE old[t].hops # 1
      <3>1. PICK x \in Nodes : routing_list[x][t].known
                               /\ routing_list[x][t].hops = old[t].hops - 1
        BY <2>1, <2>4 DEF Chained
      <3>2. /\ routing_list'[x][t].known
            /\ routing_list'[x][t].hops = old[t].hops - 1
        BY <1>2, <3>1
      <3>. QED  BY <2>1, <2>2, <3>2
    <2>. QED  BY <2>3, <2>4
  <1>. QED  BY <1>4 DEF ListsChained, Chained

\* No node is told of itself, and whoever has passed on a target h times has
\* it through one that passed it on h - 1 times, as long as no daemon loses
\* its list.
THEOREM ChainInvariant ==
    ASSUME Restarting = {}
    PROVE  Spec => [](SelfUnknown /\ ListsChained)
  <1>1. Init => SelfUnknown /\ ListsChained
    <2>. SUFFICES ASSUME Init PROVE SelfUnknown /\ ListsChained
      OBVIOUS
    <2>1. \A n, t \in Nodes : ~routing_list[n][t].known
      BY DEF Init, NoEntry
    <2>2. \A m, n \in Nodes : chan[m][n] = <<>>
      BY DEF Init
    <2>3. \A m, n \in Nodes : Len(chan[m][n]) = 0
      BY <2>2
    <2>. QED  BY <2>1, <2>2, <2>3 DEF SelfUnknown, ListsChained
  <1>2. RouteInv /\ SelfUnknown /\ ListsChained /\ [Next]_vars
            => SelfUnknown' /\ ListsChained'
    <2>. SUFFICES ASSUME RouteInv, SelfUnknown, ListsChained, [Next]_vars
                  PROVE  SelfUnknown' /\ ListsChained'
      OBVIOUS
    <2>. TypeOK /\ MessagesLead
      BY DEF RouteInv
    <2>1. ASSUME NEW n \in Nodes, StepOf(n, routing_list[n])
          PROVE  SelfUnknown' /\ ListsChained'
      <3>1. ~routing_list[n][n].known
        BY DEF SelfUnknown
      <3>2. SelfUnknown'
        BY <2>1, <3>1, SelfStep DEF StepOf
      <3>3. Keeps(routing_list[n], routing_list[n])
        BY SameListLeads
      <3>4. ListsChained'
        BY <2>1, <3>3, ChainedStep DEF StepOf
      <3>. QED  BY <3>2, <3>4
    <2>2. ASSUME NEW n \in Nodes, NEW t \in Nodes, identify_broken_path(n, t)
          PROVE  SelfUnknown' /\ ListsChained'
      <3>. DEFINE list == SilentList(n, t)
      <3>1. StepOf(n, list) /\ Keeps(routing_list[n], list)
        BY <2>2, SilentStep, SilentListKeeps
      <3>2. \A x \in Nodes : ~routing_list[n][x].known => ~list[x].known
        <4>1. routing_list[n][t].known
          BY <2>2, SilentStep
        <4>2. routing_list[n] \in List
          BY Typed
        <4>3. \A x \in Nodes \ {t} : list[x] = routing_list[n][x]
          BY <4>2 DEF SilentList, List
        <4>. QED  BY <4>1, <4>3
      <3>. HIDE DEF list
      <3>3. ~list[n].known
        BY <3>2 DEF SelfUnknown
      <3>4. SelfUnknown'
        BY <3>1, <3>3, SelfStep DEF StepOf
      <3>5. ListsChained'
        BY <3>1, <3>2, ChainedStep DEF StepOf
      <3>. QED  BY <3>4, <3>5
    <2>3. ASSUME NEW n \in Nodes, NEW m \in Nodes, handle_hello(n, m)
          PROVE  SelfUnknown' /\ ListsChained'
      <3>. DEFINE list == HelloList(n, m)
      <3>1. StepOf(n, list) /\ Keeps(routing_list[n], list)
        BY <2>3, HandleHelloStep, HelloListKeeps
      <3>2. m # n
        BY <2>3 DEF handle_hello, Reads, SelfUnknown
      <3>3. ~list[n].known
        BY <3>2, HelloEntries DEF SelfUnknown
      <3>4. \A t \in Nodes : ~routing_list[n][t].known /\ list[t].known => Chained(list, t)
        BY HelloEntries DEF Chained
      <3>. HIDE DEF list
      <3>5. SelfUnknown'
        BY <3>1, <3>3, SelfStep DEF StepOf
      <3>6. ListsChained'
        BY <3>1, <3>4, ChainedStep DEF StepOf
      <3>. QED  BY <3>5, <3>6
    <2>4. ASSUME NEW n \in Nodes, NEW m \in Nodes, update_routing_list(n, m)
          PROVE  SelfUnknown' /\ ListsChained'
      <3>. DEFINE list == UpdatedList(n, m)
                  pairs == Head(chan[m][n]).pairs
      <3>1. StepOf(n, list) /\ Keeps(routing_list[n], list)
        BY <2>4, UpdateStep
      <3>2. /\ pairs \in Pairs
            /\ \A t \in Nodes : ~routing_list[n][t].known /\ list[t].known =>
                    pairs[t].known /\ list[t].hops = pairs[t].hops + 1
        BY <2>4, UpdateReads, UpdateApplied, Typed DEF UpdatedList
      <3>3. ~pairs[n].known
        BY <2>4, UpdateReads DEF SelfUnknown
      <3>4. \A t \in Nodes : pairs[t].known =>
                routing_list[m][t].known /\ routing_list[m][t].hops = pairs[t].hops
        BY <2>4, UpdateReads DEF MessagesLead, Announces
      <3>. HIDE DEF list, pairs
      <3>5. ~list[n].known
        BY <3>2, <3>3 DEF SelfUnknown
      <3>6. ASSUME NEW t \in Nodes, ~routing_list[n][t].known, list[t].known
            PROVE  Chained(list, t)
        <4>1. pairs[t].known /\ list[t].hops = pairs[t].hops + 1
          BY <3>2, <3>6
        <4>2. pairs[t].hops \in Nat
          <5>1. pairs[t] # NoEntry
            BY <4>1 DEF NoEntry
          <5>. QED  BY <3>2, <5>1 DEF Pairs, Pair
        <4>3. list[t].hops >= 1 /\ list[t].hops - 1 = pairs[t].hops
          BY <4>1, <4>2
        <4>. QED  BY <3>4, <4>1, <4>3 DEF Chained
      <3>7. SelfUnknown'
        BY <3>1, <3>5, SelfStep DEF StepOf
      <3>8. ListsChained'
        BY <3>1, <3>6, ChainedStep DEF StepOf
      <3>. QED  BY <3>7, <3>8
    <2>5. CASE \E n \in Nodes : Hello(n)
      BY <2>1, <2>5, HelloStep
    <2>6. CASE \E n, m \in Nodes : Lose(n, m)
      BY <2>1, <2>6, LoseStep
    <2>7. CASE \E n \in Nodes : Restart(n)
      BY <2>7 DEF Restart
    <2>8. CASE UNCHANGED vars
      BY <2>8 DEF vars, SelfUnknown, ListsChained, Chained
    <2>. QED  BY <2>2, <2>3, <2>4, <2>5, <2>6, <2>7, <2>8 DEF Next
  <1>. QED  BY <1>1, <1>2, RouteInvariant, PTL DEF Spec

-----------------------------------------------------------------------------
(* Distances, while no neighbour falls silent and no daemon is restarted *)

\* Fewer nodes than distances: 255 addresses, and a byte for the distance.
FewNodes == IsFiniteSet(Nodes) /\ Cardinality(Nodes) <= MAX_DISTANCE

\* A chain of hops has no more nodes than there are: every number of hops up
\* to that of an entry is that of another node.
LEMMA HopsShort ==
    ASSUME TypeOK, SelfUnknown, ListsChained, FewNodes,
           NEW n \in Nodes, NEW t \in Nodes, routing_list[n][t].known
    PROVE  /\ routing_list[n][t].hops \in Nat
           /\ routing_list[n][t].hops < MAX_DISTANCE
  <1> DEFINE h == routing_list[n][t].hops
             S == Nodes \ {t}
             Has(x, k) == routing_list[x][t].known /\ routing_list[x][t].hops = k
             Missing == {k \in 1..h : ~\E x \in S : Has(x, k)}
             D == {h - k : k \in Missing}
  <1>1. h \in Nat /\ h >= 1
    <2>1. routing_list[n][t] \in Known
      BY Typed, EntryCases DEF List
    <2>. QED  BY <2>1 DEF Known, ListsChained, Chained
  <1>2. \A x \in Nodes, k \in Nat : Has(x, k) => x \in S
    BY DEF SelfUnknown
  <1>3. Has(n, h)
    OBVIOUS
  <1>4. \A x \in Nodes, k \in Nat : Has(x, k) /\ k > 1 => \E y \in Nodes : Has(y, k - 1)
    BY DEF ListsChained, Chained
  <1>. HIDE DEF h, S, Has
  <1>5. Missing = {}
    <2>. SUFFICES ASSUME Missing # {} PROVE FALSE
      OBVIOUS
    <2>1. D # {} /\ D \subseteq Nat
      BY <1>1
    <2>. HIDE DEF D
    <2>2. PICK d \in D : \A e \in D : ~(<<e, d>> \in OpToRel(<, Nat))
      BY <2>1, NatLessThanWellFounded, WFMin, Zenon
    <2>3. \A e \in D : ~(e < d)
      BY <2>1, <2>2 DEF OpToRel
    <2>4. PICK k \in Missing : d = h - k
      BY DEF D
    <2>5. k \in 1..h /\ ~\E x \in S : Has(x, k)
      BY <2>4
    <2>6. k # h
      BY <1>1, <1>2, <1>3, <2>5
    <2>7. k + 1 \in 1..h /\ h - (k + 1) < d
      BY <1>1, <2>4, <2>5, <2>6
    <2>8. k + 1 \notin Missing
      <3>. SUFFICES ASSUME k + 1 \in Missing PROVE FALSE
        OBVIOUS
      <3>1. h - (k + 1) \in D
        BY DEF D
      <3>. QED  BY <2>3, <2>7, <3>1
    <2>9. PICK x \in S : Has(x, k + 1)
      BY <2>7, <2>8
    <2>10. x \in Nodes
      BY DEF S
    <2>11. k + 1 \in Nat /\ k + 1 > 1 /\ (k + 1) - 1 = k /\ k \in Nat
      BY <1>1, <2>5
    <2>12. PICK y \in Nodes : Has(y, (k + 1) - 1)
      BY <1>4, <2>9, <2>10, <2>11
    <2>13. Has(y, k)
      BY <2>11, <2>12
    <2>. QED  BY <1>2, <2>5, <2>11, <2>13
  <1>. DEFINE f == [k \in 1..h |-> CHOOSE x \in S : Has(x, k)]
  <1>6. ASSUME NEW k \in 1..h
        PROVE  f[k] \in S /\ Has(f[k], k)
    <2>1. \E x \in S : Has(x, k)
      BY <1>5
    <2>. QED  BY <2>1
  <1>7. \A x, j, k : Has(x, j) /\ Has(x, k) => j = k
    BY DEF Has
  <1>8. f \in [1..h -> S]
    BY <1>6
  <1>. HIDE DEF f
  <1>9. f \in Injection(1..h, S)
    BY <1>6, <1>7, <1>8 DEF Injection, IsInjective
  <1>10. IsFiniteSet(S) /\ Cardinality(S) = Cardinality(Nodes) - 1
    BY FS_RemoveElement DEF FewNodes, S
  <1>11. Cardinality(1..h) <= Cardinality(S)
    BY <1>9, <1>10, FS_Injection
  <1>12. Cardinality(1..h) = h
    BY <1>1, FS_Interval
  <1>13. Cardinality(Nodes) \in Nat /\ Cardinality(Nodes) <= MAX_DISTANCE
    BY FS_CardinalityType DEF FewNodes
  <1>14. h < MAX_DISTANCE
    BY <1>1, <1>10, <1>11, <1>12, <1>13, DistanceAssumption
  <1>. QED  BY <1>1, <1>14 DEF h

\* A distance that an update brings is that of a path one hop longer.
LEMMA NearPair ==
    ASSUME NEW e \in Known \cup {NoEntry}, NEW m \in Nodes, NEW pair \in Pair,
           e.known => e.distance \in 1..e.hops,
           \/ pair.distance \in 1..pair.hops
           \/ pair.distance = MAX_DISTANCE /\ e.known /\ e.next_mip # m,
           pair.hops < MAX_DISTANCE
    PROVE  LET r == ApplyPair(e, m, pair)
           IN  /\ r.distance \in 1..r.hops
               /\ r.distance = 1 => e.known /\ e.distance = 1
  <1> DEFINE r == ApplyPair(e, m, pair)
             p == pair.distance
             g == pair.hops
             max == MAX_DISTANCE
  <1>1. p \in Nat /\ p <= max /\ g \in Nat /\ g < max /\ max \in Nat
    BY DistanceAssumption DEF Pair, Distances
  <1>2. CASE ~e.known
    <2>1. r = Entry(Plus1(p), m, g + 1)
      BY <1>2 DEF ApplyPair
    <2>2. r.distance = Plus1(p) /\ r.hops = g + 1
      BY <2>1 DEF Entry
    <2>3. p \in 1..g
      BY <1>2
    <2>4. Plus1(p) = (p + 1) % (max + 1)
      BY DEF Plus1
    <2>. HIDE DEF p, g, max, r
    <2>5. (p + 1) % (max + 1) = p + 1
      BY <1>1, <2>3
    <2>. QED  BY <1>1, <2>2, <2>3, <2>4, <2>5 DEF r
  <1>3. CASE e.known
    <2>1. e \in Known
      BY <1>3, EntryCases
    <2>. DEFINE d == e.distance
                h == e.hops
    <2>2. d \in 1..h /\ h \in Nat /\ d <= max
      BY <1>3, <2>1, DistanceAssumption DEF Known, Distances
    <2>3. CASE p \in 1..g
      <3>1. p # max
        BY <1>1, <2>3
      <3>2. CASE d > p + 1
        <4>1. r = [e EXCEPT !.distance = p + 1]
          BY <1>3, <3>1, <3>2 DEF ApplyPair
        <4>2. r.distance = p + 1 /\ r.hops = h
          BY <2>1, <4>1 DEF Known
        <4>. HIDE DEF p, g, d, h, r
        <4>3. p + 1 \in 1..h /\ p + 1 # 1
          BY <1>1, <2>2, <2>3, <3>2
        <4>. QED  BY <4>2, <4>3 DEF r
      <3>3. CASE ~(d > p + 1)
        <4>1. r = e
          BY <1>3, <3>1, <3>3 DEF ApplyPair
        <4>. QED  BY <1>3, <2>2, <4>1
      <3>. QED  BY <3>2, <3>3
    <2>4. CASE p = max /\ e.next_mip # m
      <3>1. ~(d > p + 1)
        <4>. HIDE DEF p, d, h, max
        <4>. QED  BY <1>1, <2>2, <2>4
      <3>2. r = e
        BY <1>3, <2>4, <3>1 DEF ApplyPair
      <3>. QED  BY <1>3, <2>2, <3>2
    <2>. QED  BY <2>3, <2>4
  <1>. QED  BY <1>2, <1>3, EntryCases

\* Where no target is broken, update_broken_paths changes nothing.
LEMMA NoneBroken ==
    ASSUME NEW list \in List, \A t \in Nodes : ~IsBroken(list[t])
    PROVE  update_broken_paths(list) = list
  <1>1. Broken(list) = {}
    <2>. SUFFICES ASSUME NEW t \in Broken(list) PROVE FALSE
      OBVIOUS
    <2>. DEFINE Kn == {y \in Nodes : list[y].known}
                Closed(S) == \A y \in Kn :
                    IsBroken(list[y]) \/ list[y].next_mip \in S => y \in S
    <2>1. \A S \in SUBSET Kn : Closed(S) => t \in S
      BY DEF Broken
    <2>2. Closed({})
      OBVIOUS
    <2>. HIDE DEF Closed, Kn
    <2>. QED  BY <2>1, <2>2
  <1>2. update_broken_paths(list) = [t \in Nodes |-> list[t]]
    BY <1>1 DEF update_broken_paths
  <1>. QED  BY <1>2 DEF List

\* An update that is read leaves distances of paths.
LEMMA NearUpdate ==
    ASSUME TypeOK, MessagesLead, ListsNear, MessagesNear,
           NEW n \in Nodes, NEW m \in Nodes, update_routing_list(n, m),
           \A x, t \in Nodes : routing_list[x][t].known =>
                routing_list[x][t].hops < MAX_DISTANCE,
           \A t \in Nodes : UpdatedList(n, m)[t].known =>
                UpdatedList(n, m)[t].hops < MAX_DISTANCE
    PROVE  Near(UpdatedList(n, m), cached[n])
  <1> DEFINE old == routing_list[n]
             pairs == Head(chan[m][n]).pairs
             a == ApplyUpdate(old, m, pairs)
             list == UpdatedList(n, m)
  <1>1. old \in List /\ pairs \in Pairs
    BY Typed, UpdateReads
  <1>2. \A t \in Nodes : old[t].known =>
            /\ old[t].distance \in 1..old[t].hops
            /\ old[t].distance = 1 => t \in cached[n]
    BY DEF ListsNear, Near
  <1>3. \A t \in Nodes : pairs[t].known =>
            \/ pairs[t].distance \in 1..pairs[t].hops
            \/ pairs[t].distance = MAX_DISTANCE /\ old[t].known /\ old[t].next_mip # m
    BY UpdateReads DEF MessagesNear
  <1>4. \A t \in Nodes : pairs[t].known => pairs[t].hops < MAX_DISTANCE
    <2>. SUFFICES ASSUME NEW t \in Nodes, pairs[t].known
                  PROVE  pairs[t].hops < MAX_DISTANCE
      OBVIOUS
    <2>1. routing_list[m][t].known /\ routing_list[m][t].hops = pairs[t].hops
      BY UpdateReads DEF MessagesLead, Announces
    <2>. QED  BY <2>1
  <1>5. list = update_broken_paths(a)
    BY DEF UpdatedList
  <1>6. \A t \in Nodes :
            a[t] = IF pairs[t].known THEN ApplyPair(old[t], m, pairs[t]) ELSE old[t]
    BY DEF ApplyUpdate
  <1>7. a \in List
    BY <1>1, PairsApplied
  <1>8. \A t \in Nodes : list[t].known => list[t].hops < MAX_DISTANCE
    OBVIOUS
  <1>. HIDE DEF old, pairs, a, list
  <1>9. ASSUME NEW t \in Nodes, a[t].known
        PROVE  /\ a[t].distance \in 1..a[t].hops
               /\ a[t].distance = 1 => t \in cached[n]
    <2>1. CASE pairs[t].known
      <3>1. pairs[t] \in Pair
        <4>1. pairs[t] # NoEntry
          BY <2>1 DEF NoEntry
        <4>. QED  BY <1>1, <4>1 DEF Pairs
      <3>2. old[t] \in Known \cup {NoEntry}
        BY <1>1 DEF List
      <3>3. a[t] = ApplyPair(old[t], m, pairs[t])
        BY <1>6, <2>1
      <3>4. /\ a[t].distance \in 1..a[t].hops
            /\ a[t].distance = 1 => old[t].known /\ old[t].distance = 1
        <4>. DEFINE e == old[t]
                    pair == pairs[t]
        <4>1. /\ e \in Known \cup {NoEntry} /\ pair \in Pair
              /\ e.known => e.distance \in 1..e.hops
              /\ \/ pair.distance \in 1..pair.hops
                 \/ pair.distance = MAX_DISTANCE /\ e.known /\ e.next_mip # m
              /\ pair.hops < MAX_DISTANCE
          BY <1>2, <1>3, <1>4, <2>1, <3>1, <3>2
        <4>. HIDE DEF e, pair
        <4>2. LET r == ApplyPair(e, m, pair)
              IN  /\ r.distance \in 1..r.hops
                  /\ r.distance = 1 => e.known /\ e.distance = 1
          BY <4>1, NearPair
        <4>. QED  BY <3>3, <4>2 DEF e, pair
      <3>. QED  BY <1>2, <3>4
    <2>2. CASE ~pairs[t].known
      <3>1. a[t] = old[t]
        BY <1>6, <2>2
      <3>. QED  BY <1>2, <1>9, <3>1
    <2>. QED  BY <2>1, <2>2
  <1>10. Keeps(a, list)
    BY <1>5, <1>7, BrokenPathsUpdated
  <1>11. ASSUME NEW t \in Nodes
         PROVE  ~IsBroken(a[t])
    <2>. SUFFICES ASSUME a[t].known, a[t].distance = MAX_DISTANCE PROVE FALSE
      BY DEF IsBroken
    <2>1. a[t].hops < MAX_DISTANCE /\ MAX_DISTANCE \in 1..a[t].hops
      BY <1>8, <1>9, <1>10 DEF Keeps
    <2>2. a[t].hops \in Nat
      <3>1. a[t] \in Known
        BY <1>7, EntryCases DEF List
      <3>. QED  BY <3>1 DEF Known
    <2>. QED  BY <2>1, <2>2, DistanceAssumption
  <1>12. list = a
    BY <1>5, <1>7, <1>11, NoneBroken
  <1>13. Near(list, cached[n])
    BY <1>9, <1>12 DEF Near
  <1>. QED  BY <1>13 DEF list

\* The distance announced to m (send_update, routing_utils.c:205-218).
LEMMA UpdateDistance ==
    ASSUME NEW list \in List, NEW m \in Nodes, NEW t \in Nodes,
           update_for(list, m).pairs[t].known
    PROVE  /\ t # m /\ list[t].known
           /\ update_for(list, m).pairs[t].distance = Announced(list[t], m)
           /\ update_for(list, m).pairs[t].hops = list[t].hops
  BY DEF update_for, NoEntry

\* A step of n to a list with distances of paths: also what n announces is.
LEMMA NearStep ==
    ASSUME TypeOK, TypeOK', ListsLead', SelfUnknown', ListsNear, MessagesNear,
           NEW n \in Nodes, NEW list, StepOf(n, list), Keeps(routing_list[n], list),
           Near(list, cached'[n]), \A x \in Nodes : cached[x] \subseteq cached'[x]
    PROVE  ListsNear' /\ MessagesNear'
  <1>1. \A x \in Nodes : routing_list'[x] = IF x = n THEN list ELSE routing_list[x]
    BY Typed DEF StepOf
  <1>2. ListsNear'
    <2>. SUFFICES ASSUME NEW x \in Nodes, NEW t \in Nodes, routing_list'[x][t].known
                  PROVE  /\ routing_list'[x][t].distance \in 1..routing_list'[x][t].hops
                         /\ routing_list'[x][t].distance = 1 => t \in cached'[x]
      BY DEF ListsNear, Near
    <2>1. CASE x = n
      BY <1>1, <2>1 DEF Near
    <2>2. CASE x # n
      <3>1. routing_list'[x] = routing_list[x]
        BY <1>1, <2>2
      <3>2. Near(routing_list[x], cached[x])
        BY DEF ListsNear
      <3>. QED  BY <3>1, <3>2 DEF Near
    <2>. QED  BY <2>1, <2>2
  <1>3. ASSUME NEW x \in Nodes, NEW t \in Nodes, routing_list[x][t].known
        PROVE  /\ routing_list'[x][t].known
               /\ routing_list'[x][t].next_mip = routing_list[x][t].next_mip
    BY <1>1, <1>3 DEF Keeps
  <1>4. ASSUME NEW a \in Nodes, NEW b \in Nodes, NEW i \in 1..Len(chan'[a][b]),
               chan'[a][b][i] # HLO, NEW t \in Nodes, chan'[a][b][i].pairs[t].known
        PROVE  \/ chan'[a][b][i].pairs[t].distance \in 1..chan'[a][b][i].pairs[t].hops
               \/ /\ chan'[a][b][i].pairs[t].distance = MAX_DISTANCE
                  /\ routing_list'[b][t].known
                  /\ routing_list'[b][t].next_mip # a
    <2>1. CASE \E j \in 1..Len(chan[a][b]) : chan'[a][b][i] = chan[a][b][j]
      <3>. DEFINE pair == chan'[a][b][i].pairs[t]
      <3>1. \/ pair.distance \in 1..pair.hops
            \/ /\ pair.distance = MAX_DISTANCE
               /\ routing_list[b][t].known /\ routing_list[b][t].next_mip # a
        BY <1>4, <2>1 DEF MessagesNear
      <3>. QED  BY <1>3, <3>1
    <2>2. CASE a = n /\ chan'[a][b][i] \in {HLO, update_for(list, b)}
      <3>. DEFINE pair == chan'[a][b][i].pairs[t]
      <3>1. chan'[a][b][i] = update_for(list, b)
        BY <1>4, <2>2
      <3>2. /\ t # b /\ list[t].known /\ pair.hops = list[t].hops
            /\ pair.distance = Announced(list[t], b)
        BY <1>4, <3>1, UpdateDistance DEF StepOf
      <3>. HIDE DEF pair
      <3>3. CASE list[t].next_mip # b
        <4>1. pair.distance = list[t].distance
          BY <3>2, <3>3 DEF Announced
        <4>2. list[t].distance \in 1..list[t].hops
          BY <3>2 DEF Near
        <4>. QED  BY <3>2, <4>1, <4>2 DEF pair
      <3>4. CASE list[t].next_mip = b
        <4>1. pair.distance = MAX_DISTANCE
          BY <3>2, <3>4 DEF Announced
        <4>2. routing_list'[n] = list
          BY <1>1
        <4>3. /\ routing_list'[b][t].known
              /\ routing_list'[b][t].hops < routing_list'[n][t].hops
          BY <3>2, <3>4, <4>2 DEF ListsLead, Leads
        <4>4. n # t
          BY <3>2, <4>2 DEF SelfUnknown
        <4>5. routing_list'[b][t].next_mip # n
          <5>. SUFFICES ASSUME routing_list'[b][t].next_mip = n PROVE FALSE
            OBVIOUS
          <5>1. routing_list'[n][t].hops < routing_list'[b][t].hops
            BY <4>3, <4>4 DEF ListsLead, Leads
          <5>2. routing_list'[n][t] \in Known /\ routing_list'[b][t] \in Known
            <6>1. routing_list' \in [Nodes -> List]
              BY DEF TypeOK, List
            <6>. QED  BY <3>2, <4>2, <4>3, <6>1, EntryCases DEF List
          <5>3. routing_list'[n][t].hops \in Nat /\ routing_list'[b][t].hops \in Nat
            BY <5>2 DEF Known
          <5>. QED  BY <4>3, <5>1, <5>3
        <4>. QED  BY <2>2, <4>1, <4>3, <4>5 DEF pair
      <3>. QED  BY <3>3, <3>4
    <2>. QED  BY <2>1, <2>2 DEF StepOf, SentBy, SentOver
  <1>5. MessagesNear'
    BY <1>4 DEF MessagesNear
  <1>. QED  BY <1>2, <1>5

\* The MIP daemon has an address for everybody at distance 1.
LEMMA SendsToCached ==
    ASSUME NEW n \in Nodes, NEW c, NEW before, NEW list,
           Near(list, cached'[n]), send_update(n, c, before, list)
    PROVE  up' = up
  <1>1. AtDistance1(list) \subseteq cached'[n]
    BY DEF AtDistance1, Near
  <1>. QED  BY <1>1 DEF send_update

\* What holds while no neighbour falls silent: distances of paths, and nobody
\* stops.
NearInv == ListsNear /\ MessagesNear /\ AllUp

\* No MIP daemon is asked to send an update to a node it never heard from
\* (mip_daemon_utils.c:93-96), for every topology of up to 255 nodes and every
\* loss, while no neighbour falls silent and no routing daemon is started
\* again.  The distance of an update never wraps, because a chain of hops is
\* shorter than the number of nodes, so only nodes whose hello was read are
\* at distance 1.
THEOREM UpdatesReachNeighbours ==
    ASSUME FewNodes, Restarting = {}, Expiring = {}
    PROVE  Spec => []AllUp
  <1>1. Init => NearInv
    <2>. SUFFICES ASSUME Init PROVE NearInv
      OBVIOUS
    <2>1. \A n, t \in Nodes : ~routing_list[n][t].known
      BY DEF Init, NoEntry
    <2>2. \A m, n \in Nodes : Len(chan[m][n]) = 0
      BY DEF Init
    <2>3. AllUp
      BY DEF Init, AllUp
    <2>. QED  BY <2>1, <2>2, <2>3 DEF NearInv, ListsNear, Near, MessagesNear
  <1> DEFINE Short == \A x, t \in Nodes : routing_list[x][t].known =>
                        routing_list[x][t].hops < MAX_DISTANCE
             Ahead == RouteInv /\ SelfUnknown /\ ListsChained /\ Short
  <1>2. Ahead /\ Ahead' /\ NearInv /\ [Next]_vars => NearInv'
    <2>. SUFFICES ASSUME Ahead, Ahead', NearInv, [Next]_vars
                  PROVE  NearInv'
      OBVIOUS
    <2>. /\ TypeOK /\ MessagesLead /\ SelfUnknown /\ ListsChained
         /\ TypeOK' /\ ListsLead' /\ SelfUnknown' /\ ListsChained'
         /\ ListsNear /\ MessagesNear /\ AllUp /\ Short /\ Short'
      BY DEF RouteInv, NearInv
    <2>. HIDE DEF Ahead, Short
    <2>1. ASSUME NEW n \in Nodes, StepOf(n, routing_list[n]), cached' = cached, up' = up
          PROVE  NearInv'
      <3>1. Keeps(routing_list[n], routing_list[n])
        BY SameListLeads
      <3>2. Near(routing_list[n], cached'[n])
        BY <2>1 DEF ListsNear
      <3>3. ListsNear' /\ MessagesNear'
        BY <2>1, <3>1, <3>2, NearStep
      <3>. QED  BY <2>1, <3>3 DEF NearInv, AllUp
    <2>2. ASSUME NEW n \in Nodes, Hello(n)
          PROVE  NearInv'
      <3>1. cached' = cached /\ send_update(n, chan, <<HLO>>, routing_list[n])
        BY <2>2 DEF Hello
      <3>2. Near(routing_list[n], cached'[n])
        BY <3>1 DEF ListsNear
      <3>3. up' = up
        BY <3>1, <3>2, SendsToCached
      <3>. QED  BY <2>1, <2>2, <3>1, <3>3, HelloStep
    <2>3. ASSUME NEW n \in Nodes, NEW m \in Nodes, NEW list, NEW change,
                 Reads(n, m), Conclude(n, m, list, change), StepOf(n, list),
                 Keeps(routing_list[n], list), Near(list, cached'[n])
          PROVE  NearInv'
      <3>1. up' = up
        BY <2>3, SendsToCached DEF Conclude
      <3>2. \A x \in Nodes : cached[x] \subseteq cached'[x]
        BY <2>3, ReadsCaches
      <3>3. ListsNear' /\ MessagesNear'
        BY <2>3, <3>2, NearStep
      <3>. QED  BY <3>1, <3>3 DEF NearInv, AllUp
    <2>4. ASSUME NEW n \in Nodes, NEW m \in Nodes, handle_hello(n, m)
          PROVE  NearInv'
      <3>. DEFINE list == HelloList(n, m)
      <3>1. Reads(n, m) /\ \E change : Conclude(n, m, list, change)
        BY <2>4 DEF handle_hello, HelloList
      <3>2. /\ list \in List /\ StepOf(n, list) /\ Keeps(routing_list[n], list)
        BY <2>4, HandleHelloStep, HelloListKeeps
      <3>3. m \in cached'[n] /\ cached[n] \subseteq cached'[n]
        BY <3>1, ReadsCaches
      <3>4. /\ \A t \in Nodes : t # m => list[t] = routing_list[n][t]
            /\ list[m].distance = 1
            /\ ~routing_list[n][m].known => list[m].hops = 1
        BY HelloEntries
      <3>. HIDE DEF list
      <3>5. Near(routing_list[n], cached[n])
        BY DEF ListsNear
      <3>6. 1 \in 1..list[m].hops
        <4>1. CASE routing_list[n][m].known
          <5>1. list[m].hops = routing_list[n][m].hops
            BY <3>2, <4>1 DEF Keeps
          <5>2. routing_list[n][m].distance \in 1..routing_list[n][m].hops
            BY <3>5, <4>1 DEF Near
          <5>3. routing_list[n][m] \in Known
            BY <4>1, Typed, EntryCases DEF List
          <5>4. routing_list[n][m].hops \in Nat
            BY <5>3 DEF Known
          <5>. QED  BY <5>1, <5>2, <5>4
        <4>2. CASE ~routing_list[n][m].known
          BY <3>4, <4>2
        <4>. QED  BY <4>1, <4>2
      <3>7. Near(list, cached'[n])
        BY <3>3, <3>4, <3>5, <3>6 DEF Near
      <3>. QED  BY <2>3, <3>1, <3>2, <3>7
    <2>5. ASSUME NEW n \in Nodes, NEW m \in Nodes, update_routing_list(n, m)
          PROVE  NearInv'
      <3>. DEFINE list == UpdatedList(n, m)
      <3>1. Reads(n, m) /\ \E change : Conclude(n, m, list, change)
        BY <2>5 DEF update_routing_list, UpdatedList
      <3>2. StepOf(n, list) /\ Keeps(routing_list[n], list)
        BY <2>5, UpdateStep
      <3>3. \A x, t \in Nodes : routing_list[x][t].known =>
                routing_list[x][t].hops < MAX_DISTANCE
        BY DEF Short
      <3>4. \A x, t \in Nodes : routing_list'[x][t].known =>
                routing_list'[x][t].hops < MAX_DISTANCE
        BY DEF Short
      <3>5. routing_list'[n] = list
        BY <3>2, Typed DEF StepOf
      <3>6. \A t \in Nodes : list[t].known => list[t].hops < MAX_DISTANCE
        BY <3>4, <3>5
      <3>7. Near(list, cached[n])
        BY <2>5, <3>3, <3>6, NearUpdate
      <3>8. cached[n] \subseteq cached'[n]
        BY <3>1, ReadsCaches
      <3>9. Near(list, cached'[n])
        BY <3>7, <3>8 DEF Near
      <3>. QED  BY <2>3, <3>1, <3>2, <3>9
    <2>6. CASE \E n, m \in Nodes : Lose(n, m)
      BY <2>1, <2>6, LoseStep DEF Lose
    <2>7. CASE \/ \E n, t \in Nodes : identify_broken_path(n, t)
               \/ \E n \in Nodes : Restart(n)
      BY <2>7 DEF identify_broken_path, Restart
    <2>8. CASE UNCHANGED vars
      BY <2>8 DEF vars, NearInv, ListsNear, Near, MessagesNear, AllUp
    <2>. QED  BY <2>2, <2>4, <2>5, <2>6, <2>7, <2>8 DEF Next
  <1>3. NearInv => AllUp
    BY DEF NearInv
  <1>4. TypeOK /\ SelfUnknown /\ ListsChained => Short
    BY HopsShort
  <1>5. RouteInv => TypeOK
    BY DEF RouteInv
  <1>. QED  BY <1>1, <1>2, <1>3, <1>4, <1>5, RouteInvariant, ChainInvariant, PTL DEF Spec
=============================================================================
