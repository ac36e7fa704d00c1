------------------------------- MODULE Miptp -------------------------------
(***************************************************************************)
(* The data plane of the MIPTP transport daemon (miptp_daemon.c and        *)
(* miptp_utils.c): a go-back-N sender and a cumulative-order receiver per  *)
(* application port, over the unreliable MIP network below.                *)
(*                                                                         *)
(* A host is the daemon's struct host: an application that owns a port on  *)
(* a node.  The daemon of a node is one single-threaded poll loop, so each *)
(* handler is one atomic step:                                             *)
(*   forward_to_mip   an application hands over a message;                 *)
(*   Timeout          the oldest unacknowledged message is overdue and the *)
(*                    window is sent again;                                *)
(*   read_message     a packet arrives from the MIP daemon: an ack         *)
(*                    (AckMovesWindow, AckIgnored, AckCrashes) or data     *)
(*                    (DataIgnored, DataDelivered).                        *)
(*                                                                         *)
(* The MIP network is net[h], the packets host h has written that have not *)
(* arrived yet.  It loses packets when Lossy (the h2 topology of script.py *)
(* has 2% loss), and duplicates and reorders them when Duplicating and     *)
(* Reordering (the ARP queue of the MIP daemon resends what it sent, and   *)
(* routes change); packets between two hosts stay in order otherwise.      *)
(* Timers are abstract: an unacknowledged message may be overdue at any    *)
(* moment.                                                                 *)
(***************************************************************************)
EXTENDS Integers, Sequences, SequencesExt, FiniteSets

CONSTANTS
    Nodes,          \* machines, each running one MIPTP daemon
    Hosts,          \* applications that own a port
    NodeOf,         \* the node each host runs on
    Flows,          \* <<h, g>>: the application of h sends messages to g
    SeqLimit,       \* 1 << 14: sequence numbers have 14 bits on the wire
    Window,         \* 16: packets sent ahead of the oldest unacknowledged one
    StartSeqs,      \* what rand() % (1 << 14) may return for a new host
    Lossy, Duplicating, Reordering,  \* what the MIP network may do
    MaxMsgs,        \* bound: messages per application
    MaxInFlight     \* bound: packets in the network

ASSUME HostsAssumption ==
    /\ NodeOf \in [Hosts -> Nodes]
    /\ Flows \subseteq {f \in Hosts \X Hosts : f[1] # f[2]}

ASSUME NumbersAssumption ==
    /\ SeqLimit \in Nat \ {0}
    /\ Window \in Nat \ {0, 1}
    /\ StartSeqs \subseteq 0..(SeqLimit - 1)
    /\ MaxMsgs \in Nat
    /\ MaxInFlight \in Nat

ASSUME NetworkAssumption == {Lossy, Duplicating, Reordering} \subseteq BOOLEAN

VARIABLES
    up,             \* up[n]: the daemon of node n runs
    seq_send,       \* seq_send[h]: the number of the next message of h
    message_queue,  \* message_queue[h]: unacknowledged messages, oldest first
    seq_link,       \* seq_link[g][h]: the number g expects next from h
    net,            \* net[h]: packets written by h and still under way
    sent,           \* history: sent[h][n] is the destination of h's message n
    delivered       \* history: delivered[h][g] is what g was handed from h

vars == <<up, seq_send, message_queue, seq_link, net, sent, delivered>>

\* The entry of a sender that is not in the seq_link table.
NoLink == -1

\* A queued message and a packet.  The field id is a history field: the
\* message is the id-th of its host.  No handler reads it.
MessageNode == [dst : Hosts, seq : 0..(SeqLimit - 1), id : Nat]
Packet == [type : {"data", "ack"}, dst : Hosts, seq : 0..(SeqLimit - 1), id : Nat]

TypeOK ==
    /\ up \in [Nodes -> BOOLEAN]
    /\ seq_send \in [Hosts -> 0..SeqLimit]
    /\ message_queue \in [Hosts -> Seq(MessageNode)]
    /\ seq_link \in [Hosts -> [Hosts -> {NoLink} \cup 0..SeqLimit]]
    /\ net \in [Hosts -> Seq(Packet)]
    /\ sent \in [Hosts -> Seq(Hosts)]
    /\ delivered \in [Hosts -> [Hosts -> Seq(Nat)]]

\* Hosts are connected and have their ports.
Init ==
    /\ up = [n \in Nodes |-> TRUE]
    /\ seq_send \in [Hosts -> StartSeqs]
    /\ message_queue = [h \in Hosts |-> <<>>]
    /\ seq_link = [g \in Hosts |-> [h \in Hosts |-> NoLink]]
    /\ net = [h \in Hosts |-> <<>>]
    /\ sent = [h \in Hosts |-> <<>>]
    /\ delivered = [h \in Hosts |-> [g \in Hosts |-> <<>>]]

-----------------------------------------------------------------------------
(* Sequence numbers and packets *)

\* What the 14 bits of the header keep of a sequence number.
Wire(v) == v % SeqLimit

\* Mutant: the number is advanced as it stands in the header, shifted by two.
NextSeqShifted(v) == IF v = SeqLimit THEN 0 ELSE v + 4

\* The counters of both ends restart only after reaching 1 << 14 itself.
NextSeq(v) == IF v = SeqLimit THEN 0 ELSE v + 1

DataPacket(node) ==
    [type |-> "data", dst |-> node.dst, seq |-> node.seq, id |-> node.id]

send_ack(h, data) ==
    [type |-> "ack", dst |-> h, seq |-> data.seq, id |-> data.id]

\* Mutant: one message more than the window holds.
InWindowOneMore(seq, queue) == seq - queue[1].seq <= Window

\* A new message is sent at once if it is in the current window.
InWindow(seq, queue) == seq - queue[1].seq < Window

\* Mutant: the walk starts one node late and leaves out the oldest message.
resend_windowSkipsOldest(queue) ==
    [k \in 1..(IF Len(queue) > Window THEN Window ELSE Len(queue)) - 1 |->
        DataPacket(queue[k + 1])]

\* The first Window messages of the queue.
resend_window(queue) ==
    [k \in 1..(IF Len(queue) > Window THEN Window ELSE Len(queue)) |->
        DataPacket(queue[k])]

\* The loop counter i is never advanced, so that the test for the last
\* position of the window fails and nothing is sent.
send_next(queue) ==
    LET i == 0
    IN  IF i = Window - 1 THEN <<DataPacket(Last(queue))>> ELSE <<>>

-----------------------------------------------------------------------------
(* The network *)

\* The packets under way, as pairs of a writer and a position.
InTransit == UNION {{h} \X (1..Len(net[h])) : h \in Hosts}

HasRoom(k) == Cardinality(InTransit) + k <= MaxInFlight

\* Packet i of h is one the MIP daemon of its destination may hand over next.
Arrives(h, i) ==
    Reordering \/ \A j \in 1..(i - 1) : net[h][j].dst # net[h][i].dst

\* A packet is lost at the moment it would have arrived.
Lose(h) ==
    /\ Lossy
    /\ \E i \in 1..Len(net[h]) :
        /\ Arrives(h, i)
        /\ net' = [net EXCEPT ![h] = RemoveAt(@, i)]
    /\ UNCHANGED <<up, seq_send, message_queue, seq_link, sent, delivered>>

Duplicate(h) ==
    /\ Duplicating
    /\ HasRoom(1)
    /\ \E i \in 1..Len(net[h]) : net' = [net EXCEPT ![h] = Append(@, @[i])]
    /\ UNCHANGED <<up, seq_send, message_queue, seq_link, sent, delivered>>

-----------------------------------------------------------------------------
(* Sending *)

forward_to_mip(h, g) ==
    LET seq   == Wire(seq_send[h])
        node  == [dst |-> g, seq |-> seq, id |-> Len(sent[h]) + 1]
        queue == Append(message_queue[h], node)
    IN  /\ up[NodeOf[h]]
        /\ <<h, g>> \in Flows
        /\ Len(sent[h]) < MaxMsgs
        /\ HasRoom(1)
        /\ seq_send' = [seq_send EXCEPT ![h] = NextSeq(@)]
        /\ message_queue' = [message_queue EXCEPT ![h] = queue]
        /\ net' = IF InWindow(seq, queue)
                  THEN [net EXCEPT ![h] = Append(@, DataPacket(node))]
                  ELSE net
        /\ sent' = [sent EXCEPT ![h] = Append(@, g)]
        /\ UNCHANGED <<up, seq_link, delivered>>

\* The head of the loop of main: the oldest message of h is overdue.
Timeout(h) ==
    /\ up[NodeOf[h]]
    /\ message_queue[h] # <<>>
    /\ HasRoom(Len(resend_window(message_queue[h])))
    /\ net' = [net EXCEPT ![h] = @ \o resend_window(message_queue[h])]
    /\ UNCHANGED <<up, seq_send, message_queue, seq_link, sent, delivered>>

-----------------------------------------------------------------------------
(* Receiving: packet i of host h arrives at the daemon of host g *)

Takes(h, g, i, type) ==
    /\ net[h][i].type = type
    /\ net[h][i].dst = g
    /\ up[NodeOf[g]]
    /\ Arrives(h, i)

\* The daemon reads packet i of h, and host g writes the packets new.
Exchange(h, g, i, new) ==
    LET rest == [net EXCEPT ![h] = RemoveAt(@, i)]
    IN  net' = [rest EXCEPT ![g] = @ \o new]

\* Mutant: any ack moves the window.
AckIsExpectedAlways(seq, queue) == TRUE

AckIsExpected(seq, queue) == seq = Head(queue).seq

AckMovesWindow(h, g, i) ==
    /\ Takes(h, g, i, "ack")
    /\ message_queue[g] # <<>>
    /\ AckIsExpected(net[h][i].seq, message_queue[g])
    /\ message_queue' = [message_queue EXCEPT ![g] = Tail(@)]
    /\ Exchange(h, g, i, send_next(Tail(message_queue[g])))
    /\ UNCHANGED <<up, seq_send, seq_link, sent, delivered>>

AckIgnored(h, g, i) ==
    /\ Takes(h, g, i, "ack")
    /\ message_queue[g] # <<>>
    /\ ~AckIsExpected(net[h][i].seq, message_queue[g])
    /\ Exchange(h, g, i, <<>>)
    /\ UNCHANGED <<up, seq_send, message_queue, seq_link, sent, delivered>>

\* The test is old != NULL, of the dummy node that is always there; with no
\* message behind it the comparison reads through the null pointer next.
AckCrashes(h, g, i) ==
    /\ Takes(h, g, i, "ack")
    /\ message_queue[g] = <<>>
    /\ up' = [up EXCEPT ![NodeOf[g]] = FALSE]
    /\ Exchange(h, g, i, <<>>)
    /\ UNCHANGED <<seq_send, message_queue, seq_link, sent, delivered>>

\* Mutant: a packet at or beyond the expected number is taken.
SeqIsExpectedOrLater(seq, exp_seq) == exp_seq = NoLink \/ seq >= exp_seq

\* The first packet of a sender sets the number; later ones must match it.
SeqIsExpected(seq, exp_seq) == exp_seq = NoLink \/ seq = exp_seq

\* The ack goes out for every data packet, expected or not.
DataIgnored(h, g, i) ==
    LET p == net[h][i]
    IN  /\ Takes(h, g, i, "data")
        /\ ~SeqIsExpected(p.seq, seq_link[g][h])
        /\ Exchange(h, g, i, <<send_ack(h, p)>>)
        /\ UNCHANGED <<up, seq_send, message_queue, seq_link, sent, delivered>>

DataDelivered(h, g, i) ==
    LET p == net[h][i]
    IN  /\ Takes(h, g, i, "data")
        /\ SeqIsExpected(p.seq, seq_link[g][h])
        /\ Exchange(h, g, i, <<send_ack(h, p)>>)
        /\ seq_link' = [seq_link EXCEPT ![g][h] = NextSeq(p.seq)]
        /\ delivered' = [delivered EXCEPT ![h][g] = Append(@, p.id)]
        /\ UNCHANGED <<up, seq_send, message_queue, sent>>

read_message(h, g, i) ==
    \/ AckMovesWindow(h, g, i)
    \/ AckIgnored(h, g, i)
    \/ AckCrashes(h, g, i)
    \/ DataIgnored(h, g, i)
    \/ DataDelivered(h, g, i)

-----------------------------------------------------------------------------
(* The system *)

Next ==
    \/ \E h, g \in Hosts : forward_to_mip(h, g)
    \/ \E h \in Hosts : Timeout(h)
    \/ \E h, g \in Hosts : \E i \in 1..Len(net[h]) : read_message(h, g, i)
    \/ \E h \in Hosts : Lose(h)
    \/ \E h \in Hosts : Duplicate(h)

Spec == Init /\ [][Next]_vars

\* A packet of message n of kind type that h writes for g arrives.
Receives(h, g, type, n) ==
    \E i \in 1..Len(net[h]) :
        /\ net[h][i].type = type
        /\ net[h][i].id = n
        /\ read_message(h, g, i)

\* The loop of main comes back to the timeout check at least once a second,
\* and a packet that is sent again and again is not lost every time.
Fairness ==
    /\ \A h \in Hosts : WF_vars(Timeout(h))
    /\ \A f \in Flows : \A n \in 1..MaxMsgs :
        /\ SF_vars(Receives(f[1], f[2], "data", n))
        /\ SF_vars(Receives(f[2], f[1], "ack", n))

FairSpec == Spec /\ Fairness

-----------------------------------------------------------------------------
(* Properties *)

\* The messages of h that its daemon has released: the first Acked(h).
Acked(h) == Len(sent[h]) - Len(message_queue[h])

\* No counter passes 1 << 14 within the messages of one application.
NoWrap == \A s \in StartSeqs : s + MaxMsgs <= SeqLimit

\* Whatever the network does, an application is handed consecutive messages
\* of each sender: the sequence check of read_message (miptp_utils.c:301)
\* lets no gap, duplicate or reordering through.
InOrder ==
    \A h, g \in Hosts : \A k \in 1..(Len(delivered[h][g]) - 1) :
        delivered[h][g][k + 1] = delivered[h][g][k] + 1

\* No message beyond the window of its sender is under way: the test of
\* forward_to_mip (168) and the bound of resend_window (218) agree on the
\* window also while acks move it.
InFlightInWindow ==
    \A h \in Hosts : \A i \in 1..Len(net[h]) :
        net[h][i].type = "data" => net[h][i].id <= Acked(h) + Window

\* A stream begins within the first window of its sender: whatever packet is
\* the first to arrive sets the number (miptp_utils.c:305-313), but no message
\* is acknowledged before that, so that the messages skipped are fewer than a
\* window.
BeginsInFirstWindow ==
    \A f \in Flows :
        LET d == delivered[f[1]][f[2]]
        IN  d # <<>> => d[1] \in 1..Window

\* The number the first message of h was given.
Base(h) == seq_send[h] - Len(sent[h])

\* The node or packet m of h carries the number of the message it is for.
Numbered(h, m) ==
    /\ m.id \in 1..Len(sent[h])
    /\ m.seq = Base(h) + m.id - 1

CountersFit ==
    \A h \in Hosts :
        /\ Len(sent[h]) <= MaxMsgs
        /\ Base(h) >= 0 /\ Base(h) + MaxMsgs <= SeqLimit
        /\ Acked(h) >= 0

QueueNumbered ==
    \A h \in Hosts : \A k \in 1..Len(message_queue[h]) :
        /\ Numbered(h, message_queue[h][k])
        /\ message_queue[h][k].id = Acked(h) + k

PacketsNumbered ==
    \A h \in Hosts : \A i \in 1..Len(net[h]) :
        net[h][i].type = "data" => Numbered(h, net[h][i])

LinksNumbered ==
    \A h, g \in Hosts :
        IF delivered[h][g] = <<>>
        THEN seq_link[g][h] = NoLink
        ELSE seq_link[g][h] = Base(h) + delivered[h][g][Len(delivered[h][g])]

\* The copies of a sequence number agree while no counter wraps: the counter
\* of the sender (141-147), its queue (156-166), the packets under way, and
\* the link table of every receiver (297-321), whatever the network loses,
\* duplicates or reorders.
NumbersAgree ==
    CountersFit /\ QueueNumbered /\ PacketsNumbered /\ LinksNumbered

\* A message an application hands over is acknowledged in the end: the
\* timeout check of main (miptp_daemon.c:49-60) repeats the window until it
\* gets through, although send_next (226-246) never sends anything.
AllAcknowledged ==
    \A h \in Hosts : \A n \in 1..MaxMsgs :
        Len(sent[h]) >= n ~> Acked(h) >= n

\* "reply with acks to ensure reliability" (miptp_utils.c:417): a message
\* that was acknowledged, and is forgotten by the sender, has reached the
\* application it was for.
Reliable ==
    \A h \in Hosts : \A n \in 1..Acked(h) :
        n \in ToSet(delivered[h][sent[h][n]])
=============================================================================
