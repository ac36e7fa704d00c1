----------------------------- MODULE MiptpProof -----------------------------
(***************************************************************************)
(* Theorems about the MIPTP data plane, for any number of hosts, flows and *)
(* messages and any window:                                                *)
(*   TypeCorrect           the type invariant;                             *)
(*   StreamInOrder         every application is handed consecutive         *)
(*                         messages of each sender,                        *)
(*   WindowRespected       no sender runs ahead of its window, and         *)
(*   NumbersAgreeAlways    all copies of a number agree, over any network  *)
(*                         while no number wraps;                          *)
(*   FirstWindowBegins     a stream begins in the first window of a sender *)
(*                         that has one receiver, over any network;        *)
(*   FlowImplementsStream  over a network that keeps the order of packets, *)
(*                         a flow implements the abstract Stream.          *)
(* The second to fourth rest on SeqInv, the inductive invariant that ties  *)
(* the numbers in queues, packets and link tables to the messages they are *)
(* for; the fifth on BeginInv as well, which says that nothing is          *)
(* acknowledged before a stream begins; the last one on FlowInv, which     *)
(* relates the acks under way to how far the stream has got.               *)
(***************************************************************************)
EXTENDS MiptpStream, SequenceTheorems, SequenceFacts, TLAPS

-----------------------------------------------------------------------------
(* The sequences the network is made of *)

\* What removing packet i leaves (net' of every handler that reads a packet)
\* consists of packets that were there.
LEMMA RemoveAtKeeps ==
    ASSUME NEW S, NEW s \in Seq(S), NEW i \in 1..Len(s)
    PROVE  /\ RemoveAt(s, i) \in Seq(S)
           /\ \A j \in 1..Len(RemoveAt(s, i)) :
                \E k \in 1..Len(s) : RemoveAt(s, i)[j] = s[k]
<1> DEFINE l == SubSeq(s, 1, i - 1)
           r == SubSeq(s, i + 1, Len(s))
<1>1. l \in Seq(S) /\ Len(l) = i - 1 /\ \A j \in 1..Len(l) : l[j] = s[j]
  OBVIOUS
<1>2. /\ r \in Seq(S) /\ Len(r) = Len(s) - i
      /\ \A j \in 1..Len(r) : r[j] = s[i + j]
  OBVIOUS
<1>3. RemoveAt(s, i) = l \o r
  BY DEF RemoveAt
<1> HIDE DEF l, r
<1>4. l \o r \in Seq(S) /\ Len(l \o r) = Len(s) - 1
  <2>1. l \o r \in Seq(S) /\ Len(l \o r) = Len(l) + Len(r)
    BY <1>1, <1>2, ConcatProperties
  <2> QED
    BY <1>1, <1>2, <2>1
<1>5. ASSUME NEW j \in 1..Len(l \o r)
      PROVE  \E k \in 1..Len(s) : (l \o r)[j] = s[k]
  <2>1. CASE j <= i - 1
    <3>1. (l \o r)[j] = s[j]
      BY <1>1, <1>2, <2>1
    <3> QED
      BY <3>1, <2>1
  <2>2. CASE j > i - 1
    <3>1. j - Len(l) \in 1..Len(r) /\ i + (j - Len(l)) = j + 1
      BY <1>1, <1>2, <1>4, <2>2
    <3>2. (l \o r)[j] = r[j - Len(l)]
      BY <1>1, <1>2, <1>4, <2>2
    <3>3. r[j - Len(l)] = s[j + 1]
      BY <1>2, <3>1
    <3> QED
      BY <3>2, <3>3, <2>2, <1>4
  <2> QED
    BY <2>1, <2>2, <1>4
<1> QED
  BY <1>3, <1>4, <1>5

\* The numbers a leaf needs of the constants.
LEMMA Sizes == Window \in Nat /\ Window > 1 /\ SeqLimit \in Nat /\ MaxMsgs \in Nat
  BY NumbersAssumption

\* The counters of sender and receiver stay within 0 .. 1 << 14.
LEMMA NextSeqType ==
    ASSUME NEW v \in 0..SeqLimit
    PROVE  NextSeq(v) \in 0..SeqLimit
  BY NumbersAssumption DEF NextSeq

\* The number on the wire has 14 bits, and is the counter below the limit.
LEMMA WireType ==
    ASSUME NEW v \in 0..SeqLimit
    PROVE  /\ Wire(v) \in 0..(SeqLimit - 1)
           /\ v < SeqLimit => Wire(v) = v
  BY NumbersAssumption DEF Wire

\* resend_window writes the packets of the first messages of the queue.
LEMMA ResendType ==
    ASSUME NEW queue \in Seq(MessageNode)
    PROVE  /\ resend_window(queue) \in Seq(Packet)
           /\ \A j \in 1..Len(resend_window(queue)) :
                /\ j \in 1..Len(queue) /\ j <= Window
                /\ resend_window(queue)[j] = DataPacket(queue[j])
<1> DEFINE n == IF Len(queue) > Window THEN Window ELSE Len(queue)
<1>1. n \in Nat /\ n <= Len(queue) /\ n <= Window
  BY NumbersAssumption
<1>2. ASSUME NEW k \in 1..n
      PROVE  DataPacket(queue[k]) \in Packet
  <2>1. queue[k] \in MessageNode
    BY <1>1
  <2> QED
    BY <2>1 DEF DataPacket, MessageNode, Packet
<1>3. resend_window(queue) = [k \in 1..n |-> DataPacket(queue[k])]
  BY DEF resend_window
<1> HIDE DEF n
<1>4. resend_window(queue) \in Seq(Packet) /\ Len(resend_window(queue)) = n
  BY <1>1, <1>2, <1>3
<1>5. ASSUME NEW j \in 1..Len(resend_window(queue))
      PROVE  /\ j \in 1..Len(queue) /\ j <= Window
             /\ resend_window(queue)[j] = DataPacket(queue[j])
  <2>1. j \in 1..n
    BY <1>4
  <2>2. resend_window(queue)[j] = DataPacket(queue[j])
    BY <2>1, <1>3
  <2> QED
    BY <2>1, <2>2, <1>1, NumbersAssumption
<1> QED
  BY <1>4, <1>5

\* send_next never finds the last position of the window.
LEMMA SendNextNothing ==
    ASSUME NEW queue
    PROVE  send_next(queue) = <<>>
  BY NumbersAssumption DEF send_next

-----------------------------------------------------------------------------
(* Type correctness *)

\* What a handler that reads packet i of h and writes new leaves under way.
LEMMA ExchangeType ==
    ASSUME TypeOK, NEW h \in Hosts, NEW g \in Hosts, NEW i \in 1..Len(net[h]),
           NEW new \in Seq(Packet), Exchange(h, g, i, new)
    PROVE  /\ net' \in [Hosts -> Seq(Packet)]
           /\ \A x \in Hosts : \A j \in 1..Len(net'[x]) :
                \/ \E k \in 1..Len(net[x]) : net'[x][j] = net[x][k]
                \/ x = g /\ \E k \in 1..Len(new) : net'[x][j] = new[k]
<1> DEFINE rest == [net EXCEPT ![h] = RemoveAt(@, i)]
<1>1. net \in [Hosts -> Seq(Packet)]
  BY DEF TypeOK
<1>2. /\ RemoveAt(net[h], i) \in Seq(Packet)
      /\ \A j \in 1..Len(RemoveAt(net[h], i)) :
            \E k \in 1..Len(net[h]) : RemoveAt(net[h], i)[j] = net[h][k]
  BY <1>1, RemoveAtKeeps
<1>3. /\ rest \in [Hosts -> Seq(Packet)]
      /\ \A x \in Hosts : \A j \in 1..Len(rest[x]) :
            \E k \in 1..Len(net[x]) : rest[x][j] = net[x][k]
  BY <1>1, <1>2
<1>4. net' = [rest EXCEPT ![g] = @ \o new]
  BY DEF Exchange
<1> HIDE DEF rest
<1>5. net' \in [Hosts -> Seq(Packet)]
  BY <1>3, <1>4
<1>6. ASSUME NEW x \in Hosts, NEW j \in 1..Len(net'[x])
      PROVE  \/ \E k \in 1..Len(rest[x]) : net'[x][j] = rest[x][k]
             \/ x = g /\ \E k \in 1..Len(new) : net'[x][j] = new[k]
  <2>1. CASE x # g
    BY <1>3, <1>4, <1>6, <2>1
  <2>2. CASE x = g
    <3>1. net'[g] = rest[g] \o new
      BY <1>3, <1>4
    <3>2. rest[g] \in Seq(Packet)
      BY <1>3
    <3>3. CASE j <= Len(rest[g])
      BY <3>1, <3>2, <3>3, <1>6, <2>2
    <3>4. CASE j > Len(rest[g])
      <4>1. j - Len(rest[g]) \in 1..Len(new)
        BY <3>1, <3>2, <3>4, <1>6, <2>2
      <4>2. net'[g][j] = new[j - Len(rest[g])]
        BY <3>1, <3>2, <3>4, <1>6, <2>2
      <4> QED
        BY <4>1, <4>2, <2>2
    <3> QED
      BY <3>2, <3>3, <3>4, <1>6, <2>2
  <2> QED
    BY <2>1, <2>2
<1>7. ASSUME NEW x \in Hosts, NEW j \in 1..Len(net'[x])
      PROVE  \/ \E k \in 1..Len(net[x]) : net'[x][j] = net[x][k]
             \/ x = g /\ \E k \in 1..Len(new) : net'[x][j] = new[k]
  <2>1. CASE \E k \in 1..Len(rest[x]) : net'[x][j] = rest[x][k]
    BY <2>1, <1>3
  <2>2. CASE x = g /\ \E k \in 1..Len(new) : net'[x][j] = new[k]
    BY <2>2
  <2> QED
    BY <2>1, <2>2, <1>6
<1> QED
  BY <1>5, <1>7
\* The initial state has the right types.
LEMMA TypeInit == ASSUME Init PROVE TypeOK
<1>1. StartSeqs \subseteq 0..SeqLimit
  BY NumbersAssumption
<1>2. /\ up \in [Nodes -> BOOLEAN]
      /\ seq_send \in [Hosts -> 0..SeqLimit]
      /\ seq_link \in [Hosts -> [Hosts -> {NoLink} \cup 0..SeqLimit]]
  BY <1>1 DEF Init
<1>3. \A S : <<>> \in Seq(S)
  OBVIOUS
<1>4. /\ message_queue \in [Hosts -> Seq(MessageNode)]
      /\ net \in [Hosts -> Seq(Packet)]
      /\ sent \in [Hosts -> Seq(Hosts)]
  BY <1>3 DEF Init
<1>5. delivered \in [Hosts -> [Hosts -> Seq(Nat)]]
  BY <1>3 DEF Init
<1> QED
  BY <1>2, <1>4, <1>5 DEF TypeOK

\* Every step keeps the types.
LEMMA TypeStep ==
    ASSUME TypeOK, [Next]_vars
    PROVE  TypeOK'
<1> USE HostsAssumption, NumbersAssumption
<1>1. ASSUME NEW h \in Hosts, NEW g \in Hosts, forward_to_mip(h, g)
      PROVE  TypeOK'
  <2> DEFINE node == [dst |-> g, seq |-> Wire(seq_send[h]), id |-> Len(sent[h]) + 1]
  <2>1. node \in MessageNode /\ DataPacket(node) \in Packet
    BY WireType DEF TypeOK, MessageNode, Packet, DataPacket
  <2>2. NextSeq(seq_send[h]) \in 0..SeqLimit
    BY NextSeqType DEF TypeOK
  <2>3. message_queue' = [message_queue EXCEPT ![h] = Append(@, node)]
    BY <1>1 DEF forward_to_mip
  <2>4. \/ net' = net
        \/ net' = [net EXCEPT ![h] = Append(@, DataPacket(node))]
    BY <1>1 DEF forward_to_mip
  <2> HIDE DEF node
  <2>5. seq_send' \in [Hosts -> 0..SeqLimit]
    BY <1>1, <2>2 DEF forward_to_mip, TypeOK
  <2>6. message_queue' \in [Hosts -> Seq(MessageNode)]
    BY <2>1, <2>3 DEF TypeOK
  <2>7. net' \in [Hosts -> Seq(Packet)]
    <3>1. net \in [Hosts -> Seq(Packet)]
      BY DEF TypeOK
    <3>2. Append(net[h], DataPacket(node)) \in Seq(Packet)
      BY <2>1, <3>1
    <3> QED
      BY <2>4, <3>1, <3>2
  <2>8. sent' \in [Hosts -> Seq(Hosts)]
    BY <1>1 DEF forward_to_mip, TypeOK
  <2> QED
    BY <1>1, <2>5, <2>6, <2>7, <2>8 DEF forward_to_mip, TypeOK
<1>2. ASSUME NEW h \in Hosts, Timeout(h)
      PROVE  TypeOK'
  <2>1. resend_window(message_queue[h]) \in Seq(Packet)
    BY ResendType DEF TypeOK
  <2>2. net' \in [Hosts -> Seq(Packet)]
    BY <1>2, <2>1 DEF Timeout, TypeOK
  <2> QED
    BY <1>2, <2>2 DEF Timeout, TypeOK
<1>3. ASSUME NEW h \in Hosts, NEW g \in Hosts, NEW i \in 1..Len(net[h]),
             read_message(h, g, i)
      PROVE  TypeOK'
  <2>1. <<>> \in Seq(Packet)
    OBVIOUS
  <2>2. CASE AckMovesWindow(h, g, i)
    <3>1. Exchange(h, g, i, <<>>)
      BY <2>2, SendNextNothing DEF AckMovesWindow
    <3>2. net' \in [Hosts -> Seq(Packet)]
      BY <2>1, <3>1, ExchangeType
    <3>3. message_queue' \in [Hosts -> Seq(MessageNode)]
      BY <2>2 DEF AckMovesWindow, TypeOK
    <3> QED
      BY <2>2, <3>2, <3>3 DEF AckMovesWindow, TypeOK
  <2>3. CASE AckIgnored(h, g, i)
    <3>1. net' \in [Hosts -> Seq(Packet)]
      BY <2>1, <2>3, ExchangeType DEF AckIgnored
    <3> QED
      BY <2>3, <3>1 DEF AckIgnored, TypeOK
  <2>4. CASE AckCrashes(h, g, i)
    <3>1. net' \in [Hosts -> Seq(Packet)]
      BY <2>1, <2>4, ExchangeType DEF AckCrashes
    <3> QED
      BY <2>4, <3>1 DEF AckCrashes, TypeOK
  <2>5. net[h][i] \in Packet
    BY DEF TypeOK
  <2>6. <<send_ack(h, net[h][i])>> \in Seq(Packet)
    BY <2>5 DEF send_ack, Packet
  <2>7. CASE DataIgnored(h, g, i)
    <3>1. net' \in [Hosts -> Seq(Packet)]
      BY <2>6, <2>7, ExchangeType DEF DataIgnored
    <3> QED
      BY <2>7, <3>1 DEF DataIgnored, TypeOK
  <2>8. CASE DataDelivered(h, g, i)
    <3>1. net' \in [Hosts -> Seq(Packet)]
      BY <2>6, <2>8, ExchangeType DEF DataDelivered
    <3>2. /\ NextSeq(net[h][i].seq) \in 0..SeqLimit
          /\ net[h][i].id \in Nat
      BY <2>5, NextSeqType DEF Packet
    <3>3. seq_link' \in [Hosts -> [Hosts -> {NoLink} \cup 0..SeqLimit]]
      BY <2>8, <3>2 DEF DataDelivered, TypeOK
    <3>4. delivered' \in [Hosts -> [Hosts -> Seq(Nat)]]
      <4>1. /\ delivered \in [Hosts -> [Hosts -> Seq(Nat)]]
            /\ delivered' = [delivered EXCEPT ![h][g] = Append(@, net[h][i].id)]
        BY <2>8 DEF DataDelivered, TypeOK
      <4>2. Append(delivered[h][g], net[h][i].id) \in Seq(Nat)
        BY <3>2, <4>1
      <4> QED
        BY <4>1, <4>2
    <3> QED
      BY <2>8, <3>1, <3>3, <3>4 DEF DataDelivered, TypeOK
  <2> QED
    BY <1>3, <2>2, <2>3, <2>4, <2>7, <2>8 DEF read_message
<1>4. ASSUME NEW h \in Hosts, Lose(h)
      PROVE  TypeOK'
  <2>1. PICK i \in 1..Len(net[h]) : net' = [net EXCEPT ![h] = RemoveAt(@, i)]
    BY <1>4 DEF Lose
  <2>2. RemoveAt(net[h], i) \in Seq(Packet)
    BY RemoveAtKeeps DEF TypeOK
  <2>3. net' \in [Hosts -> Seq(Packet)]
    BY <2>1, <2>2 DEF TypeOK
  <2> QED
    BY <1>4, <2>3 DEF Lose, TypeOK
<1>5. ASSUME NEW h \in Hosts, Duplicate(h)
      PROVE  TypeOK'
  <2>1. PICK i \in 1..Len(net[h]) : net' = [net EXCEPT ![h] = Append(@, @[i])]
    BY <1>5 DEF Duplicate
  <2>2. net' \in [Hosts -> Seq(Packet)]
    BY <2>1 DEF TypeOK
  <2> QED
    BY <1>5, <2>2 DEF Duplicate, TypeOK
<1>6. CASE UNCHANGED vars
  BY <1>6 DEF vars, TypeOK
<1> QED
  BY <1>1, <1>2, <1>3, <1>4, <1>5, <1>6 DEF Next

\* The daemons of any number of hosts keep their data well typed: counters
\* within 0 .. 1 << 14, numbers in packets within their 14 bits
\* (forward_to_mip, read_message).
THEOREM TypeCorrect == Spec => []TypeOK
<1>1. Init => TypeOK
  BY TypeInit
<1>2. TypeOK /\ [Next]_vars => TypeOK'
  BY TypeStep
<1> QED
  BY <1>1, <1>2, PTL DEF Spec
-----------------------------------------------------------------------------
(* Order and window *)

\* The inductive invariant: NumbersAgree and InFlightInWindow spelled out in
\* the state of each host, and InOrder.
PacketRight(x, p) ==
    /\ p.id \in 1..Len(sent[x])
    /\ p.seq = (seq_send[x] - Len(sent[x])) + p.id - 1
    /\ p.id <= (Len(sent[x]) - Len(message_queue[x])) + Window

\* Queued message k of x carries the number of its place in the stream.
NodeRight(x, k, m) ==
    /\ m.id = (Len(sent[x]) - Len(message_queue[x])) + k
    /\ m.id \in 1..Len(sent[x])
    /\ m.seq = (seq_send[x] - Len(sent[x])) + m.id - 1

\* The counter of a sender is at the next message.
CountersRight ==
    \A x \in Hosts :
        /\ Len(sent[x]) <= MaxMsgs
        /\ Len(sent[x]) <= seq_send[x]
        /\ seq_send[x] + (MaxMsgs - Len(sent[x])) <= SeqLimit
        /\ Len(message_queue[x]) <= Len(sent[x])

\* Data packets under way carry the number of their message, in the window.
PacketsRight ==
    \A x \in Hosts : \A j \in 1..Len(net[x]) :
        net[x][j].type = "data" => PacketRight(x, net[x][j])

\* The queue is the end of what was sent.
QueueRight ==
    \A x \in Hosts : \A k \in 1..Len(message_queue[x]) :
        NodeRight(x, k, message_queue[x][k])

\* A receiver expects the message after the last one it took.
LinkRight(x, y) ==
    \/ delivered[x][y] = <<>> /\ seq_link[y][x] = NoLink
    \/ /\ delivered[x][y] # <<>>
       /\ seq_link[y][x] =
            (seq_send[x] - Len(sent[x])) + delivered[x][y][Len(delivered[x][y])]

LinksRight == \A x, y \in Hosts : LinkRight(x, y)

SeqInv ==
    /\ TypeOK
    /\ CountersRight /\ PacketsRight /\ QueueRight /\ LinksRight
    /\ InOrder

\* The data packets under way after a step are old ones.
NoNewData ==
    \A x \in Hosts : \A j \in 1..Len(net'[x]) :
        net'[x][j].type = "data" =>
            \E k \in 1..Len(net[x]) : net'[x][j] = net[x][k]

\* Reading a packet and answering with at most an ack brings no new data.
LEMMA ExchangeNoNewData ==
    ASSUME TypeOK, NEW h \in Hosts, NEW g \in Hosts, NEW i \in 1..Len(net[h]),
           NEW new \in Seq(Packet), \A k \in 1..Len(new) : new[k].type = "ack",
           Exchange(h, g, i, new)
    PROVE  NoNewData
<1> SUFFICES ASSUME NEW x \in Hosts, NEW j \in 1..Len(net'[x]),
                    net'[x][j].type = "data"
             PROVE  \E k \in 1..Len(net[x]) : net'[x][j] = net[x][k]
  BY DEF NoNewData
<1>1. \A y \in Hosts : \A l \in 1..Len(net'[y]) :
        \/ \E k \in 1..Len(net[y]) : net'[y][l] = net[y][k]
        \/ y = g /\ \E k \in 1..Len(new) : net'[y][l] = new[k]
  BY ExchangeType
<1>2. \A k \in 1..Len(new) : net'[x][j] # new[k]
  OBVIOUS
<1> QED
  BY <1>1, <1>2

\* What the type invariant says of the lengths and the counters of a host.
LEMMA HostTypes ==
    ASSUME TypeOK, NEW x \in Hosts
    PROVE  /\ Len(sent[x]) \in Nat /\ Len(message_queue[x]) \in Nat
           /\ Len(net[x]) \in Nat
           /\ seq_send[x] \in 0..SeqLimit
  BY DEF TypeOK

\* The numbers in a packet under way.
LEMMA PacketFields ==
    ASSUME TypeOK, NEW x \in Hosts, NEW j \in 1..Len(net[x])
    PROVE  net[x][j].id \in Nat /\ net[x][j].seq \in 0..(SeqLimit - 1)
<1>1. net[x][j] \in Packet
  BY DEF TypeOK
<1> QED
  BY <1>1 DEF Packet

\* Reading an ack and writing nothing brings no new data either.
LEMMA ExchangeEmpty ==
    ASSUME TypeOK, NEW h \in Hosts, NEW g \in Hosts, NEW i \in 1..Len(net[h]),
           Exchange(h, g, i, <<>>)
    PROVE  NoNewData
<1> DEFINE none == <<>>
<1>1. none \in Seq(Packet) /\ \A k \in 1..Len(none) : none[k].type = "ack"
  OBVIOUS
<1>2. Exchange(h, g, i, none)
  OBVIOUS
<1> HIDE DEF none
<1> QED
  BY <1>1, <1>2, ExchangeNoNewData

\* Neither does answering data with an ack.
LEMMA ExchangeAck ==
    ASSUME TypeOK, NEW h \in Hosts, NEW g \in Hosts, NEW i \in 1..Len(net[h]),
           Exchange(h, g, i, <<send_ack(h, net[h][i])>>)
    PROVE  NoNewData
<1> DEFINE ack == send_ack(h, net[h][i])
<1>1. net[h][i] \in Packet
  BY DEF TypeOK
<1>2. ack \in Packet /\ ack.type = "ack"
  BY <1>1 DEF send_ack, Packet
<1> HIDE DEF ack
<1>3. <<ack>> \in Seq(Packet) /\ \A k \in 1..Len(<<ack>>) : <<ack>>[k].type = "ack"
  BY <1>2
<1> QED
  BY <1>3, ExchangeNoNewData DEF ack

\* A bound that was met is met when fewer messages are queued.
LEMMA WindowGrows ==
    \A a, b, c, d, w \in Nat : a <= (b - c) + w /\ d <= c => a <= (b - d) + w
  OBVIOUS

\* Old data packets stay numbered and within the window of their sender.
LEMMA PacketsStay ==
    ASSUME SeqInv, TypeOK', NoNewData, UNCHANGED <<seq_send, sent>>,
           \A x \in Hosts : Len(message_queue'[x]) <= Len(message_queue[x])
    PROVE  PacketsRight'
<1> SUFFICES ASSUME NEW x \in Hosts, NEW j \in 1..Len(net'[x]),
                    net'[x][j].type = "data"
             PROVE  /\ net'[x][j].id \in 1..Len(sent'[x])
                    /\ net'[x][j].seq =
                         (seq_send'[x] - Len(sent'[x])) + net'[x][j].id - 1
                    /\ net'[x][j].id <=
                         (Len(sent'[x]) - Len(message_queue'[x])) + Window
  BY DEF PacketsRight, PacketRight
<1>1. PICK k \in 1..Len(net[x]) : net'[x][j] = net[x][k]
  BY DEF NoNewData
<1>2. PacketRight(x, net[x][k])
  BY <1>1 DEF SeqInv, PacketsRight
<1>3. net[x][k].id \in Nat
  BY PacketFields DEF SeqInv
<1>4. /\ Len(message_queue[x]) \in Nat /\ Len(sent[x]) \in Nat
      /\ seq_send[x] \in 0..SeqLimit
  BY HostTypes DEF SeqInv
<1>5. Len(message_queue'[x]) \in Nat
  BY DEF TypeOK
<1>6. seq_send'[x] = seq_send[x] /\ sent'[x] = sent[x]
  OBVIOUS
<1>7. net[x][k].id <= (Len(sent[x]) - Len(message_queue'[x])) + Window
  <2>1. net[x][k].id <= (Len(sent[x]) - Len(message_queue[x])) + Window
    BY <1>2 DEF PacketRight
  <2>2. Len(message_queue'[x]) <= Len(message_queue[x])
    OBVIOUS
  <2> QED
    BY <2>1, <2>2, <1>3, <1>4, <1>5, Sizes, WindowGrows, Zenon
<1> QED
  BY <1>1, <1>2, <1>6, <1>7 DEF PacketRight

\* A step that changes only packets, and adds no data, keeps the invariant.
LEMMA QuietStep ==
    ASSUME SeqInv, TypeOK', NoNewData,
           UNCHANGED <<seq_send, message_queue, seq_link, sent, delivered>>
    PROVE  SeqInv'
<1>1. PacketsRight'
  <2>1. \A x \in Hosts : Len(message_queue'[x]) <= Len(message_queue[x])
    BY HostTypes DEF SeqInv
  <2> QED
    BY <2>1, PacketsStay
<1>2. CountersRight' /\ QueueRight' /\ LinksRight' /\ InOrder'
  BY DEF SeqInv, CountersRight, QueueRight, NodeRight, LinksRight, LinkRight, InOrder
<1> QED
  BY <1>1, <1>2 DEF SeqInv

\* forward_to_mip gives the new message the number after the last one, and
\* sends it only inside the window.
LEMMA ForwardStep ==
    ASSUME SeqInv, TypeOK', NEW h \in Hosts, NEW g \in Hosts, forward_to_mip(h, g)
    PROVE  SeqInv'
<1> DEFINE n == Len(sent[h])
           l == Len(message_queue[h])
           v == seq_send[h]
           node == [dst |-> g, seq |-> Wire(v), id |-> n + 1]
           queue == Append(message_queue[h], node)
<1> USE Sizes
<1>1. /\ seq_send \in [Hosts -> 0..SeqLimit] /\ sent \in [Hosts -> Seq(Hosts)]
      /\ message_queue \in [Hosts -> Seq(MessageNode)]
      /\ net \in [Hosts -> Seq(Packet)]
      /\ TypeOK
  BY DEF SeqInv, TypeOK
<1>2. /\ n \in Nat /\ n < MaxMsgs /\ v \in Nat /\ n <= v
      /\ l \in Nat /\ l <= n
      /\ v + (MaxMsgs - n) <= SeqLimit
  <2>1. n < MaxMsgs
    BY DEF forward_to_mip
  <2>2. n \in Nat /\ v \in Nat /\ l \in Nat
    BY <1>1, HostTypes
  <2>3. n <= v /\ l <= n /\ v + (MaxMsgs - n) <= SeqLimit
    BY DEF SeqInv, CountersRight
  <2> QED
    BY <2>1, <2>2, <2>3
<1> HIDE DEF n, l, v
<1>3. v < SeqLimit
  BY <1>2
<1>4. Wire(v) = v
  BY <1>2, <1>3, WireType
<1>5. NextSeq(v) = v + 1
  BY <1>2, <1>3 DEF NextSeq
<1>6. node.seq = v /\ node.id = n + 1
  BY <1>4
<1>7. node \in MessageNode
  BY <1>2, <1>3, <1>4 DEF MessageNode
<1>8. DataPacket(node).seq = v /\ DataPacket(node).id = n + 1
  BY <1>6 DEF DataPacket
<1>9. /\ seq_send' = [seq_send EXCEPT ![h] = v + 1]
      /\ sent' = [sent EXCEPT ![h] = Append(@, g)]
      /\ message_queue' = [message_queue EXCEPT ![h] = queue]
      /\ seq_link' = seq_link /\ delivered' = delivered
  BY <1>5 DEF forward_to_mip, v, n
<1>10. net' = IF InWindow(v, queue)
              THEN [net EXCEPT ![h] = Append(@, DataPacket(node))]
              ELSE net
  BY <1>4 DEF forward_to_mip, v, n
<1> HIDE DEF node
<1>11. /\ seq_send'[h] = v + 1 /\ Len(sent'[h]) = n + 1
       /\ message_queue'[h] = queue /\ Len(queue) = l + 1
  BY <1>1, <1>7, <1>9 DEF n, l
<1>12. /\ \A k \in 1..l : queue[k] = message_queue[h][k]
       /\ queue[l + 1] = node
  BY <1>1, <1>7 DEF l
<1> HIDE DEF queue
<1>13. ASSUME NEW x \in Hosts, x # h
       PROVE  /\ seq_send'[x] = seq_send[x] /\ sent'[x] = sent[x]
              /\ message_queue'[x] = message_queue[x] /\ net'[x] = net[x]
  BY <1>1, <1>9, <1>10, <1>13
<1>14. (v + 1) - (n + 1) = v - n /\ (n + 1) - (l + 1) = n - l
  BY <1>2
<1>15. CountersRight'
  <2> SUFFICES ASSUME NEW x \in Hosts
               PROVE  /\ Len(sent'[x]) <= MaxMsgs
                      /\ Len(sent'[x]) <= seq_send'[x]
                      /\ seq_send'[x] + (MaxMsgs - Len(sent'[x])) <= SeqLimit
                      /\ Len(message_queue'[x]) <= Len(sent'[x])
    BY DEF CountersRight
  <2>1. CASE x = h
    <3>1. /\ n + 1 <= MaxMsgs /\ n + 1 <= v + 1 /\ l + 1 <= n + 1
          /\ (v + 1) + (MaxMsgs - (n + 1)) <= SeqLimit
      BY <1>2
    <3> QED
      BY <2>1, <3>1, <1>11
  <2>2. CASE x # h
    BY <2>2, <1>13 DEF SeqInv, CountersRight
  <2> QED
    BY <2>1, <2>2
<1>16. QueueRight'
  <2> SUFFICES ASSUME NEW x \in Hosts, NEW k \in 1..Len(message_queue'[x])
               PROVE  NodeRight(x, k, message_queue[x][k])'
    BY DEF QueueRight
  <2>1. CASE x # h
    <3>1. NodeRight(x, k, message_queue[x][k])
      BY <2>1, <1>13 DEF SeqInv, QueueRight
    <3> QED
      BY <3>1, <2>1, <1>13 DEF NodeRight
  <2>2. CASE x = h /\ k \in 1..l
    <3>1. NodeRight(h, k, queue[k])
      BY <1>12, <2>2 DEF SeqInv, QueueRight, l
    <3>2. /\ queue[k].id = (n - l) + k
          /\ queue[k].id \in 1..n
          /\ queue[k].seq = (v - n) + queue[k].id - 1
      BY <3>1 DEF NodeRight, n, l, v
    <3>3. queue[k].id \in 1..(n + 1)
      BY <3>2, <1>2
    <3> QED
      BY <3>2, <3>3, <2>2, <1>11, <1>14 DEF NodeRight
  <2>3. CASE x = h /\ k \notin 1..l
    <3>1. k = l + 1
      BY <1>2, <1>11, <2>3
    <3>2. message_queue'[h][k] = node
      BY <3>1, <1>11, <1>12
    <3>3. n + 1 = (n - l) + (l + 1) /\ n + 1 \in 1..(n + 1) /\ v = (v - n) + (n + 1) - 1
      BY <1>2
    <3> QED
      BY <3>1, <3>2, <3>3, <2>3, <1>6, <1>11, <1>14 DEF NodeRight
  <2> QED
    BY <2>1, <2>2, <2>3
<1>17. InWindow(v, queue) => n + 1 <= (n - l) + Window
  <2>1. CASE l = 0
    BY <1>2, <2>1
  <2>2. CASE l # 0
    <3>1. 1 \in 1..l
      BY <1>2, <2>2
    <3>2. NodeRight(h, 1, queue[1])
      BY <3>1, <1>12 DEF SeqInv, QueueRight, l
    <3>3. /\ queue[1].id = (n - l) + 1
          /\ queue[1].seq = (v - n) + queue[1].id - 1
      BY <3>2 DEF NodeRight, n, l, v
    <3>4. (v - n) + ((n - l) + 1) - 1 = v - l
      BY <1>2
    <3>5. queue[1].seq = v - l
      BY <3>3, <3>4
    <3>6. v - (v - l) < Window => n + 1 <= (n - l) + Window
      BY <1>2
    <3> QED
      BY <3>5, <3>6 DEF InWindow
  <2> QED
    BY <2>1, <2>2
<1>18. PacketsRight'
  <2> SUFFICES ASSUME NEW x \in Hosts, NEW j \in 1..Len(net'[x]),
                      net'[x][j].type = "data"
               PROVE  PacketRight(x, net[x][j])'
    BY DEF PacketsRight
  <2>1. CASE x # h
    <3>1. PacketRight(x, net[x][j])
      BY <2>1, <1>13 DEF SeqInv, PacketsRight
    <3> QED
      BY <3>1, <2>1, <1>13 DEF PacketRight
  <2>2. CASE x = h /\ j \in 1..Len(net[h])
    <3>1. net'[h][j] = net[h][j]
      BY <1>1, <1>10, <2>2
    <3>2. PacketRight(h, net[h][j])
      BY <3>1, <2>2 DEF SeqInv, PacketsRight
    <3>3. /\ net[h][j].id \in 1..n
          /\ net[h][j].seq = (v - n) + net[h][j].id - 1
          /\ net[h][j].id <= (n - l) + Window
      BY <3>2 DEF PacketRight, n, l, v
    <3>4. net[h][j].id \in 1..(n + 1)
      BY <3>3, <1>2
    <3> QED
      BY <3>1, <3>3, <3>4, <2>2, <1>11, <1>14 DEF PacketRight
  <2>3. CASE x = h /\ j \notin 1..Len(net[h])
    <3>1. InWindow(v, queue) /\ net'[h][j] = DataPacket(node)
      BY <1>1, <1>10, <2>3
    <3>2. n + 1 \in 1..(n + 1) /\ v = (v - n) + (n + 1) - 1
      BY <1>2
    <3> QED
      BY <3>1, <3>2, <2>3, <1>8, <1>11, <1>14, <1>17 DEF PacketRight
  <2> QED
    BY <2>1, <2>2, <2>3
<1>19. LinksRight' /\ InOrder'
  <2>1. InOrder'
    BY <1>9 DEF SeqInv, InOrder
  <2>2. \A x \in Hosts : seq_send'[x] - Len(sent'[x]) = seq_send[x] - Len(sent[x])
    BY <1>11, <1>13, <1>14 DEF n, v
  <2>3. LinksRight'
    BY <1>9, <2>2 DEF SeqInv, LinksRight, LinkRight
  <2> QED
    BY <2>1, <2>3
<1> QED
  BY <1>15, <1>16, <1>18, <1>19 DEF SeqInv

\* resend_window repeats messages of the queue, no further than the window.
LEMMA TimeoutStep ==
    ASSUME SeqInv, TypeOK', NEW h \in Hosts, Timeout(h)
    PROVE  SeqInv'
<1> DEFINE queue == message_queue[h]
           again == resend_window(queue)
<1>1. /\ net \in [Hosts -> Seq(Packet)] /\ queue \in Seq(MessageNode)
      /\ Len(sent[h]) \in Nat /\ Window \in Nat
  BY NumbersAssumption DEF SeqInv, TypeOK
<1>2. /\ net' = [net EXCEPT ![h] = @ \o again]
      /\ UNCHANGED <<seq_send, message_queue, seq_link, sent, delivered>>
  BY DEF Timeout
<1>3. /\ again \in Seq(Packet)
      /\ \A k \in 1..Len(again) :
            k \in 1..Len(queue) /\ k <= Window /\ again[k] = DataPacket(queue[k])
  BY <1>1, ResendType
<1> HIDE DEF again
<1>4. ASSUME NEW k \in 1..Len(again)
      PROVE  PacketRight(h, again[k])
  <2> DEFINE n == Len(sent[h])
             l == Len(queue)
  <2>1. /\ NodeRight(h, k, queue[k])
        /\ again[k] = DataPacket(queue[k]) /\ k \in Nat /\ k <= Window
    BY <1>3 DEF SeqInv, QueueRight
  <2>2. again[k].id = queue[k].id /\ again[k].seq = queue[k].seq
    BY <2>1 DEF DataPacket
  <2>3. n \in Nat /\ l \in Nat
    BY <1>1
  <2>4. queue[k].id = (n - l) + k
    BY <2>1 DEF NodeRight
  <2>5. (n - l) + k <= (n - l) + Window
    <3> HIDE DEF n, l
    <3> QED
      BY <2>1, <2>3, Sizes
  <2> QED
    BY <2>1, <2>2, <2>4, <2>5 DEF NodeRight, PacketRight
<1>5. PacketsRight'
  <2> SUFFICES ASSUME NEW x \in Hosts, NEW j \in 1..Len(net'[x]),
                      net'[x][j].type = "data"
               PROVE  PacketRight(x, net'[x][j])
    BY <1>2 DEF PacketsRight, PacketRight
  <2>1. CASE j \in 1..Len(net[x])
    <3>1. net'[x][j] = net[x][j]
      BY <1>1, <1>2, <1>3, <2>1
    <3> QED
      BY <3>1, <2>1 DEF SeqInv, PacketsRight
  <2>2. CASE j \notin 1..Len(net[x])
    <3>1. x = h /\ net'[h] = net[h] \o again /\ j > Len(net[h])
      BY <1>1, <1>2, <1>3, <2>2
    <3>2. /\ j - Len(net[h]) \in 1..Len(again)
          /\ net'[h][j] = again[j - Len(net[h])]
      BY <1>1, <1>3, <3>1
    <3> QED
      BY <3>1, <3>2, <1>4
  <2> QED
    BY <2>1, <2>2
<1>6. CountersRight' /\ QueueRight' /\ LinksRight' /\ InOrder'
  BY <1>2 DEF SeqInv, CountersRight, QueueRight, NodeRight, LinksRight, LinkRight, InOrder
<1> QED
  BY <1>5, <1>6 DEF SeqInv

\* An ack that releases the oldest message shifts the queue by one.
LEMMA AckStep ==
    ASSUME SeqInv, TypeOK', NEW h \in Hosts, NEW g \in Hosts,
           NEW i \in 1..Len(net[h]), AckMovesWindow(h, g, i)
    PROVE  SeqInv'
<1>1. /\ message_queue \in [Hosts -> Seq(MessageNode)] /\ message_queue[g] # <<>>
      /\ \A x \in Hosts : Len(sent[x]) \in Nat
      /\ message_queue' = [message_queue EXCEPT ![g] = Tail(@)]
      /\ UNCHANGED <<seq_send, seq_link, sent, delivered>>
  BY DEF SeqInv, TypeOK, AckMovesWindow
<1>2. Exchange(h, g, i, <<>>)
  BY SendNextNothing DEF AckMovesWindow
<1>3. NoNewData
  BY <1>2, ExchangeEmpty DEF SeqInv
<1>4. /\ Len(message_queue'[g]) = Len(message_queue[g]) - 1
      /\ Len(message_queue[g]) \in Nat
      /\ \A k \in 1..Len(message_queue'[g]) :
            /\ k + 1 \in 1..Len(message_queue[g])
            /\ message_queue'[g][k] = message_queue[g][k + 1]
  BY <1>1
<1>5. ASSUME NEW x \in Hosts, x # g
      PROVE  message_queue'[x] = message_queue[x]
  BY <1>1, <1>5
<1>6. PacketsRight'
  <2>1. \A x \in Hosts : Len(message_queue'[x]) <= Len(message_queue[x])
    BY <1>1, <1>4, <1>5
  <2> QED
    BY <1>1, <1>3, <2>1, PacketsStay
<1>7. QueueRight'
  <2> SUFFICES ASSUME NEW x \in Hosts, NEW k \in 1..Len(message_queue'[x])
               PROVE  NodeRight(x, k, message_queue[x][k])'
    BY DEF QueueRight
  <2>1. CASE x = g
    <3> DEFINE n == Len(sent[g])
               l == Len(message_queue[g])
    <3>1. NodeRight(g, k + 1, message_queue[g][k + 1])
      BY <1>4, <2>1 DEF SeqInv, QueueRight
    <3>2. message_queue[g][k + 1].id = (n - l) + (k + 1)
      BY <3>1 DEF NodeRight
    <3>3. n \in Nat /\ l \in Nat
      BY <1>1, <1>4
    <3>4. (n - l) + (k + 1) = (n - (l - 1)) + k
      <4> HIDE DEF n, l
      <4> QED
        BY <3>3
    <3> QED
      BY <2>1, <3>1, <3>2, <3>4, <1>1, <1>4 DEF NodeRight
  <2>2. CASE x # g
    <3>1. message_queue'[x] = message_queue[x]
      BY <1>5, <2>2
    <3> QED
      BY <3>1, <1>1 DEF SeqInv, QueueRight, NodeRight
  <2> QED
    BY <2>1, <2>2
<1>8. CountersRight'
  <2>1. \A x \in Hosts : Len(message_queue'[x]) <= Len(sent[x])
    BY <1>1, <1>4, <1>5 DEF SeqInv, CountersRight
  <2> QED
    BY <2>1, <1>1 DEF SeqInv, CountersRight
<1>9. LinksRight' /\ InOrder'
  BY <1>1 DEF SeqInv, LinksRight, LinkRight, InOrder
<1> QED
  BY <1>6, <1>7, <1>8, <1>9 DEF SeqInv

\* The packet handed over is the first of its sender or the next one.
LEMMA DeliverStep ==
    ASSUME SeqInv, TypeOK', NEW h \in Hosts, NEW g \in Hosts,
           NEW i \in 1..Len(net[h]), DataDelivered(h, g, i)
    PROVE  SeqInv'
<1> DEFINE p == net[h][i]
           d == delivered[h][g]
           b == seq_send[h] - Len(sent[h])
           e == seq_link[g][h]
<1>1. /\ seq_link \in [Hosts -> [Hosts -> {NoLink} \cup 0..SeqLimit]]
      /\ delivered \in [Hosts -> [Hosts -> Seq(Nat)]]
      /\ TypeOK
  BY DEF SeqInv, TypeOK
<1>2. /\ Exchange(h, g, i, <<send_ack(h, p)>>)
      /\ p.type = "data" /\ SeqIsExpected(p.seq, e)
      /\ seq_link' = [seq_link EXCEPT ![g][h] = NextSeq(p.seq)]
      /\ delivered' = [delivered EXCEPT ![h][g] = Append(@, p.id)]
      /\ UNCHANGED <<seq_send, message_queue, sent>>
  BY DEF DataDelivered, Takes
<1>3. PacketsRight'
  <2>1. NoNewData
    BY <1>1, <1>2, ExchangeAck
  <2>2. \A x \in Hosts : Len(message_queue'[x]) <= Len(message_queue[x])
    BY <1>1, <1>2, HostTypes
  <2> QED
    BY <1>2, <2>1, <2>2, PacketsStay
<1>4. CountersRight' /\ QueueRight'
  BY <1>2 DEF SeqInv, CountersRight, QueueRight, NodeRight
<1>5. /\ p.id \in Nat /\ p.seq \in 0..(SeqLimit - 1) /\ d \in Seq(Nat)
  BY <1>1, PacketFields
<1>6. b \in Nat
  <2>1. Len(sent[h]) \in Nat /\ seq_send[h] \in Nat /\ Len(sent[h]) <= seq_send[h]
    BY <1>1, HostTypes, Sizes DEF SeqInv, CountersRight
  <2> QED
    BY <2>1
<1>7. p.seq = b + p.id - 1
  BY <1>2 DEF SeqInv, PacketsRight, PacketRight
<1>8. LinkRight(h, g)
  BY DEF SeqInv, LinksRight
<1>9. d # <<>> => e = b + d[Len(d)] /\ d[Len(d)] \in Nat
  BY <1>5, <1>8 DEF LinkRight
<1>10. \A x, y \in Hosts :
        /\ delivered'[x][y] = IF x = h /\ y = g THEN Append(d, p.id) ELSE delivered[x][y]
        /\ seq_link'[y][x] = IF x = h /\ y = g THEN NextSeq(p.seq) ELSE seq_link[y][x]
  BY <1>1, <1>2
<1> HIDE DEF b, p, d, e
<1>11. NextSeq(p.seq) = b + p.id
  BY <1>5, <1>6, <1>7, Sizes DEF NextSeq
<1>12. d # <<>> => p.id = d[Len(d)] + 1
  <2> SUFFICES ASSUME d # <<>>
               PROVE  p.id = d[Len(d)] + 1
    OBVIOUS
  <2> DEFINE last == d[Len(d)]
             id == p.id
             seq == p.seq
  <2>1. e = b + last /\ last \in Nat /\ id \in Nat /\ seq \in Int /\ seq = b + id - 1
    BY <1>5, <1>7, <1>9, Sizes
  <2>2. e = NoLink \/ seq = e
    BY <1>2 DEF SeqIsExpected
  <2> HIDE DEF last, id, seq
  <2>3. id = last + 1
    BY <2>1, <2>2, <1>6 DEF NoLink
  <2> QED
    BY <2>3 DEF last, id
<1>13. LinksRight'
  <2> SUFFICES ASSUME NEW x \in Hosts, NEW y \in Hosts
               PROVE  LinkRight(x, y)'
    BY DEF LinksRight
  <2>1. CASE x = h /\ y = g
    <3>1. /\ Append(d, p.id) # <<>>
          /\ Append(d, p.id)[Len(Append(d, p.id))] = p.id
      BY <1>5
    <3>2. seq_send'[h] - Len(sent'[h]) = b
      BY <1>2 DEF b
    <3> QED
      BY <1>10, <1>11, <2>1, <3>1, <3>2 DEF LinkRight
  <2>2. CASE ~(x = h /\ y = g)
    <3>1. LinkRight(x, y)
      BY DEF SeqInv, LinksRight
    <3>2. delivered'[x][y] = delivered[x][y] /\ seq_link'[y][x] = seq_link[y][x]
      BY <1>10, <2>2
    <3> QED
      BY <1>2, <3>1, <3>2 DEF LinkRight
  <2> QED
    BY <2>1, <2>2
<1>14. InOrder'
  <2> SUFFICES ASSUME NEW x \in Hosts, NEW y \in Hosts,
                      NEW k \in 1..(Len(delivered'[x][y]) - 1)
               PROVE  delivered'[x][y][k + 1] = delivered'[x][y][k] + 1
    BY DEF InOrder
  <2>1. CASE x = h /\ y = g
    <3>1. delivered'[x][y] = Append(d, p.id)
      BY <1>10, <2>1
    <3>2. Len(Append(d, p.id)) = Len(d) + 1 /\ Len(d) \in Nat
      BY <1>5
    <3>3. k \in 1..Len(d)
      BY <3>1, <3>2
    <3>4. Append(d, p.id)[k] = d[k]
      BY <1>5, <3>3
    <3>5. CASE k = Len(d)
      <4>1. d # <<>> /\ Append(d, p.id)[k + 1] = p.id
        BY <1>5, <3>3, <3>5
      <4> QED
        BY <1>12, <3>1, <3>4, <3>5, <4>1
    <3>6. CASE k # Len(d)
      <4>1. k \in 1..(Len(d) - 1) /\ k + 1 \in 1..Len(d)
        BY <3>2, <3>3, <3>6
      <4>2. Append(d, p.id)[k + 1] = d[k + 1]
        BY <1>5, <4>1
      <4>3. d[k + 1] = d[k] + 1
        BY <4>1 DEF SeqInv, InOrder, d
      <4> QED
        BY <3>1, <3>4, <4>2, <4>3
    <3> QED
      BY <3>5, <3>6
  <2>2. CASE ~(x = h /\ y = g)
    <3>1. delivered'[x][y] = delivered[x][y]
      BY <1>10, <2>2
    <3> QED
      BY <3>1 DEF SeqInv, InOrder
  <2> QED
    BY <2>1, <2>2
<1> QED
  BY <1>3, <1>4, <1>13, <1>14 DEF SeqInv

\* Every step keeps the invariant of the sequence numbers.
LEMMA SeqStep ==
    ASSUME SeqInv, [Next]_vars
    PROVE  SeqInv'
<1>1. TypeOK'
  BY TypeStep DEF SeqInv
<1>2. ASSUME NEW h \in Hosts, NEW g \in Hosts, forward_to_mip(h, g)
      PROVE  SeqInv'
  BY <1>1, <1>2, ForwardStep
<1>3. ASSUME NEW h \in Hosts, Timeout(h)
      PROVE  SeqInv'
  BY <1>1, <1>3, TimeoutStep
<1>4. ASSUME NEW h \in Hosts, NEW g \in Hosts, NEW i \in 1..Len(net[h]),
             read_message(h, g, i)
      PROVE  SeqInv'
  <2>1. CASE AckMovesWindow(h, g, i)
    BY <1>1, <2>1, AckStep
  <2>2. CASE AckIgnored(h, g, i)
    <3>1. NoNewData
      BY <2>2, ExchangeEmpty DEF AckIgnored, SeqInv
    <3> QED
      BY <1>1, <2>2, <3>1, QuietStep DEF AckIgnored
  <2>3. CASE AckCrashes(h, g, i)
    <3>1. NoNewData
      BY <2>3, ExchangeEmpty DEF AckCrashes, SeqInv
    <3> QED
      BY <1>1, <2>3, <3>1, QuietStep DEF AckCrashes
  <2>4. CASE DataIgnored(h, g, i)
    <3>1. NoNewData
      BY <2>4, ExchangeAck DEF DataIgnored, SeqInv
    <3> QED
      BY <1>1, <2>4, <3>1, QuietStep DEF DataIgnored
  <2>5. CASE DataDelivered(h, g, i)
    BY <1>1, <2>5, DeliverStep
  <2> QED
    BY <1>4, <2>1, <2>2, <2>3, <2>4, <2>5 DEF read_message
<1>5. ASSUME NEW h \in Hosts, Lose(h)
      PROVE  SeqInv'
  <2>1. PICK i \in 1..Len(net[h]) : net' = [net EXCEPT ![h] = RemoveAt(@, i)]
    BY <1>5 DEF Lose
  <2>2. net \in [Hosts -> Seq(Packet)]
    BY DEF SeqInv, TypeOK
  <2>3. \A j \in 1..Len(RemoveAt(net[h], i)) :
          \E k \in 1..Len(net[h]) : RemoveAt(net[h], i)[j] = net[h][k]
    BY <2>2, RemoveAtKeeps
  <2>4. NoNewData
    BY <2>1, <2>2, <2>3 DEF NoNewData
  <2> QED
    BY <1>1, <1>5, <2>4, QuietStep DEF Lose
<1>6. ASSUME NEW h \in Hosts, Duplicate(h)
      PROVE  SeqInv'
  <2>1. PICK i \in 1..Len(net[h]) : net' = [net EXCEPT ![h] = Append(@, @[i])]
    BY <1>6 DEF Duplicate
  <2>2. net \in [Hosts -> Seq(Packet)]
    BY DEF SeqInv, TypeOK
  <2>3. \A j \in 1..Len(Append(net[h], net[h][i])) :
          \E k \in 1..Len(net[h]) : Append(net[h], net[h][i])[j] = net[h][k]
    BY <2>2
  <2>4. NoNewData
    BY <2>1, <2>2, <2>3 DEF NoNewData
  <2> QED
    BY <1>1, <1>6, <2>4, QuietStep DEF Duplicate
<1>7. CASE UNCHANGED vars
  <2>1. NoNewData
    BY <1>7 DEF vars, NoNewData
  <2> QED
    BY <1>1, <1>7, <2>1, QuietStep DEF vars
<1> QED
  BY <1>2, <1>3, <1>4, <1>5, <1>6, <1>7 DEF Next

\* It holds at the start.
LEMMA SeqInit == ASSUME NoWrap, Init PROVE SeqInv
<1>1. TypeOK
  BY TypeInit
<1>2. \A x \in Hosts :
        /\ Len(sent[x]) = 0 /\ Len(message_queue[x]) = 0 /\ Len(net[x]) = 0
        /\ seq_send[x] \in StartSeqs
  BY DEF Init
<1>3. \A v \in StartSeqs : v \in Nat /\ v + (MaxMsgs - 0) <= SeqLimit
  BY NumbersAssumption DEF NoWrap
<1>4. CountersRight
  BY <1>2, <1>3, Sizes DEF CountersRight
<1>5. QueueRight /\ PacketsRight
  BY <1>2 DEF QueueRight, PacketsRight
<1>6. LinksRight /\ InOrder
  BY DEF Init, LinksRight, LinkRight, InOrder
<1> QED
  BY <1>1, <1>4, <1>5, <1>6 DEF SeqInv

\* The invariant says what the runs check of the numbers and the window.
LEMMA SeqInvImplies ==
    ASSUME SeqInv
    PROVE  NumbersAgree /\ InFlightInWindow
<1>1. ASSUME NEW x \in Hosts
      PROVE  /\ Base(x) >= 0 /\ Base(x) + MaxMsgs <= SeqLimit
             /\ Acked(x) >= 0 /\ Len(sent[x]) <= MaxMsgs
  <2> DEFINE n == Len(sent[x])
             l == Len(message_queue[x])
             v == seq_send[x]
  <2>1. n \in Nat /\ l \in Nat /\ v \in Nat
    BY HostTypes DEF SeqInv
  <2>2. n <= MaxMsgs /\ n <= v /\ v + (MaxMsgs - n) <= SeqLimit /\ l <= n
    BY DEF SeqInv, CountersRight
  <2> HIDE DEF n, l, v
  <2>3. v - n >= 0 /\ (v - n) + MaxMsgs <= SeqLimit /\ n - l >= 0
    BY <2>1, <2>2, Sizes
  <2> QED
    BY <2>2, <2>3 DEF Base, Acked, n, l, v
<1>2. CountersFit
  BY <1>1 DEF CountersFit
<1>3. PacketsNumbered /\ InFlightInWindow
  BY DEF SeqInv, PacketsRight, PacketRight, PacketsNumbered, InFlightInWindow,
         Numbered, Base, Acked
<1>4. QueueNumbered
  BY DEF SeqInv, QueueRight, NodeRight, QueueNumbered, Numbered, Base, Acked
<1>5. LinksNumbered
  BY DEF SeqInv, LinksRight, LinkRight, LinksNumbered, Base
<1> QED
  BY <1>2, <1>3, <1>4, <1>5 DEF NumbersAgree

\* While no sequence number wraps, the invariant holds for ever.
THEOREM SeqInvariant == ASSUME NoWrap PROVE Spec => []SeqInv
<1>1. Init => SeqInv
  BY SeqInit
<1>2. SeqInv /\ [Next]_vars => SeqInv'
  BY SeqStep
<1> QED
  BY <1>1, <1>2, PTL DEF Spec

\* The sequence check of read_message (miptp_utils.c:301) is enough to hand
\* every application consecutive messages of each sender, over a network that
\* loses, duplicates and reorders at will.
THEOREM StreamInOrder == ASSUME NoWrap PROVE Spec => []InOrder
<1>1. SeqInv => InOrder
  BY DEF SeqInv
<1> QED
  BY <1>1, SeqInvariant, PTL

\* The window test of forward_to_mip (168) and the bound of resend_window
\* (218) never let a message beyond the window out.
THEOREM WindowRespected == ASSUME NoWrap PROVE Spec => []InFlightInWindow
<1>1. SeqInv => InFlightInWindow
  BY SeqInvImplies
<1> QED
  BY <1>1, SeqInvariant, PTL

\* Queue, packets and link tables agree on the number of every message.
THEOREM NumbersAgreeAlways == ASSUME NoWrap PROVE Spec => []NumbersAgree
<1>1. SeqInv => NumbersAgree
  BY SeqInvImplies
<1> QED
  BY <1>1, SeqInvariant, PTL
-----------------------------------------------------------------------------
(* The beginning of a stream *)

(***************************************************************************)
(* The first packet that arrives begins the stream, whichever it is.  It   *)
(* is one of the first window because nothing is acknowledged before: acks *)
(* are written for what came, and all that comes from a sender comes to    *)
(* the same receiver, whose stream has begun by then.                      *)
(***************************************************************************)

\* No application sends to two others.
OneReceiver == \A f, g \in Flows : f[1] = g[1] => f[2] = g[2]

\* The stream of x to its receiver has begun, with handed handed over.
Begun(x, handed) == \E y \in Hosts : <<x, y>> \in Flows /\ handed[x][y] # <<>>

\* Messages are for the receivers of their senders.
ToReceivers ==
    /\ \A x \in Hosts : \A k \in 1..Len(message_queue[x]) :
            <<x, message_queue[x][k].dst>> \in Flows
    /\ \A x \in Hosts : \A j \in 1..Len(net[x]) :
            net[x][j].type = "data" => <<x, net[x][j].dst>> \in Flows

\* Nothing is acknowledged before a stream has begun.
AcksBehind ==
    /\ \A x \in Hosts : \A j \in 1..Len(net[x]) :
            net[x][j].type = "ack" => Begun(net[x][j].dst, delivered)
    /\ \A x \in Hosts : Acked(x) = 0 \/ Begun(x, delivered)

BeginInv == ToReceivers /\ AcksBehind /\ BeginsInFirstWindow

\* A packet that a step of x may write: a message of its queue, or an ack for
\* a sender whose stream has begun.
Writable(x, p, handed) ==
    \/ p.type = "data" /\ <<x, p.dst>> \in Flows
    \/ p.type = "ack" /\ Begun(p.dst, handed)

\* A stream goes on from where it began, or begins in the first window.
GoesOn(old, new) ==
    /\ old # <<>> => new # <<>> /\ new[1] = old[1]
    /\ old = <<>> /\ new # <<>> => new[1] \in 1..Window

\* What a step has to do to keep the invariant.
LEMMA BeginKept ==
    ASSUME SeqInv, BeginInv,
           \A x, y \in Hosts : <<x, y>> \in Flows => GoesOn(delivered[x][y], delivered'[x][y]),
           \A x \in Hosts : \A j \in 1..Len(net'[x]) :
                \/ \E k \in 1..Len(net[x]) : net'[x][j] = net[x][k]
                \/ Writable(x, net'[x][j], delivered'),
           \A x \in Hosts : \A k \in 1..Len(message_queue'[x]) :
                <<x, message_queue'[x][k].dst>> \in Flows,
           \A x \in Hosts : Acked(x)' = Acked(x) \/ Begun(x, delivered)
    PROVE  BeginInv'
<1>1. \A f \in Flows : f = <<f[1], f[2]>> /\ f[1] \in Hosts /\ f[2] \in Hosts
  BY HostsAssumption
<1>2. ASSUME NEW x, Begun(x, delivered) PROVE Begun(x, delivered')
  <2> PICK y \in Hosts : <<x, y>> \in Flows /\ delivered[x][y] # <<>>
    BY <1>2 DEF Begun
  <2>1. x \in Hosts
    BY HostsAssumption
  <2>2. delivered'[x][y] # <<>>
    BY <2>1 DEF GoesOn
  <2> QED BY <2>2 DEF Begun
<1>3. ASSUME NEW x \in Hosts, NEW j \in 1..Len(net'[x])
      PROVE  /\ net'[x][j].type = "data" => <<x, net'[x][j].dst>> \in Flows
             /\ net'[x][j].type = "ack" => Begun(net'[x][j].dst, delivered')
  <2>1. CASE \E k \in 1..Len(net[x]) : net'[x][j] = net[x][k]
    <3> PICK k \in 1..Len(net[x]) : net'[x][j] = net[x][k]
      BY <2>1
    <3>1. /\ net[x][k].type = "data" => <<x, net[x][k].dst>> \in Flows
          /\ net[x][k].type = "ack" => Begun(net[x][k].dst, delivered)
      BY DEF BeginInv, ToReceivers, AcksBehind
    <3> QED BY <1>2, <3>1
  <2>2. CASE Writable(x, net'[x][j], delivered')
    BY <2>2 DEF Writable
  <2> QED BY <2>1, <2>2
<1>4. ToReceivers'
  BY <1>3 DEF ToReceivers
<1>5. ASSUME NEW x \in Hosts PROVE Acked(x)' = 0 \/ Begun(x, delivered')
  <2>1. Acked(x) = 0 \/ Begun(x, delivered)
    BY DEF BeginInv, AcksBehind
  <2>2. CASE Begun(x, delivered)
    BY <1>2, <2>2
  <2>3. CASE ~Begun(x, delivered)
    BY <2>1, <2>3
  <2> QED BY <2>2, <2>3
<1>6. AcksBehind'
  BY <1>3, <1>5 DEF AcksBehind
<1>7. BeginsInFirstWindow'
  <2> SUFFICES ASSUME NEW f \in Flows, delivered'[f[1]][f[2]] # <<>>
               PROVE  delivered'[f[1]][f[2]][1] \in 1..Window
    BY DEF BeginsInFirstWindow
  <2>1. GoesOn(delivered[f[1]][f[2]], delivered'[f[1]][f[2]])
    BY <1>1
  <2>2. delivered[f[1]][f[2]] # <<>> => delivered[f[1]][f[2]][1] \in 1..Window
    BY DEF BeginInv, BeginsInFirstWindow
  <2> QED BY <2>1, <2>2 DEF GoesOn
<1> QED BY <1>4, <1>6, <1>7 DEF BeginInv

\* A step that neither sends, nor hands over, nor releases a message.
LEMMA BeginQuiet ==
    ASSUME SeqInv, BeginInv, UNCHANGED <<message_queue, sent, delivered>>,
           \A x \in Hosts : \A j \in 1..Len(net'[x]) :
                \/ \E k \in 1..Len(net[x]) : net'[x][j] = net[x][k]
                \/ Writable(x, net'[x][j], delivered)
    PROVE  BeginInv'
<1>1. \A x, y \in Hosts : GoesOn(delivered[x][y], delivered'[x][y])
  BY DEF GoesOn
<1>2. \A x \in Hosts : \A k \in 1..Len(message_queue'[x]) : <<x, message_queue'[x][k].dst>> \in Flows
  BY DEF BeginInv, ToReceivers
<1>3. \A x \in Hosts : Acked(x)' = Acked(x)
  BY DEF Acked
<1>4. \A x \in Hosts : \A j \in 1..Len(net'[x]) :
        \/ \E k \in 1..Len(net[x]) : net'[x][j] = net[x][k]
        \/ Writable(x, net'[x][j], delivered')
  BY DEF Writable
<1> QED BY <1>1, <1>2, <1>3, <1>4, BeginKept

\* Reading a packet leaves old packets and the new ones.
LEMMA ExchangeOldOrNew ==
    ASSUME SeqInv, NEW h \in Hosts, NEW g \in Hosts, NEW i \in 1..Len(net[h]),
           NEW new \in Seq(Packet), Exchange(h, g, i, new)
    PROVE  \A x \in Hosts : \A j \in 1..Len(net'[x]) :
                \/ \E k \in 1..Len(net[x]) : net'[x][j] = net[x][k]
                \/ x = g /\ \E k \in 1..Len(new) : net'[x][j] = new[k]
<1>1. TypeOK
  BY DEF SeqInv
<1> QED BY <1>1, ExchangeType

\* An ack is written for data of a flow.
LEMMA AckWritable ==
    ASSUME SeqInv, BeginInv,
           NEW h \in Hosts, NEW g \in Hosts, NEW i \in 1..Len(net[h]), Takes(h, g, i, "data"),
           NEW handed, handed[h][g] # <<>>
    PROVE  /\ <<send_ack(h, net[h][i])>> \in Seq(Packet)
           /\ Writable(g, send_ack(h, net[h][i]), handed)
<1> PICK p : p = net[h][i]
  OBVIOUS
<1>1. p \in Packet /\ p.type = "data" /\ p.dst = g
  BY DEF SeqInv, TypeOK, Takes
<1>2. <<h, g>> \in Flows
  BY <1>1 DEF BeginInv, ToReceivers
<1>3. send_ack(h, p) \in Packet
  BY <1>1 DEF send_ack, Packet
<1>4. Writable(g, send_ack(h, p), handed)
  BY <1>2 DEF Writable, Begun, send_ack
<1> QED BY <1>2, <1>3, <1>4

\* A message is sent, or waits for the window.
LEMMA BeginForward ==
    ASSUME SeqInv, BeginInv, NEW h \in Hosts, NEW g \in Hosts, forward_to_mip(h, g)
    PROVE  BeginInv'
<1> DEFINE node == [dst |-> g, seq |-> Wire(seq_send[h]), id |-> Len(sent[h]) + 1]
           p == DataPacket(node)
<1>0. node \in MessageNode /\ node.dst = g
  <2>1. Wire(seq_send[h]) \in 0..(SeqLimit - 1) /\ Len(sent[h]) \in Nat
    BY WireType DEF SeqInv, TypeOK
  <2> QED BY <2>1 DEF MessageNode
<1>1. /\ message_queue' = [message_queue EXCEPT ![h] = Append(@, node)]
      /\ net' = net \/ net' = [net EXCEPT ![h] = Append(@, p)]
      /\ sent' = [sent EXCEPT ![h] = Append(@, g)]
      /\ delivered' = delivered
      /\ <<h, g>> \in Flows
  BY DEF forward_to_mip
<1>2. p \in Packet /\ p.type = "data" /\ p.dst = g
  <2>1. p = [type |-> "data", dst |-> node.dst, seq |-> node.seq, id |-> node.id]
    BY DEF DataPacket
  <2> HIDE DEF node, p
  <2> QED BY <1>0, <2>1 DEF MessageNode, Packet
<1> HIDE DEF node, p
<1>3. /\ sent \in [Hosts -> Seq(Hosts)]
      /\ message_queue \in [Hosts -> Seq(MessageNode)]
      /\ net \in [Hosts -> Seq(Packet)]
  BY DEF SeqInv, TypeOK
<1>4. \A x, y \in Hosts : GoesOn(delivered[x][y], delivered'[x][y])
  BY <1>1 DEF GoesOn
<1>5. \A x \in Hosts : \A j \in 1..Len(net'[x]) :
        \/ \E k \in 1..Len(net[x]) : net'[x][j] = net[x][k]
        \/ Writable(x, net'[x][j], delivered')
  <2> SUFFICES ASSUME NEW x \in Hosts, NEW j \in 1..Len(net'[x])
               PROVE  (\E k \in 1..Len(net[x]) : net'[x][j] = net[x][k]) \/ (x = h /\ net'[x][j] = p)
    BY <1>1, <1>2 DEF Writable
  <2>1. CASE net'[x] = net[x]
    BY <2>1
  <2>2. CASE x = h /\ net'[x] = Append(net[x], p)
    <3>1. /\ Len(net'[x]) = Len(net[x]) + 1 /\ Len(net[x]) \in Nat
          /\ \A k \in 1..Len(net[x]) : net'[x][k] = net[x][k]
          /\ net'[x][Len(net[x]) + 1] = p
      BY <1>2, <1>3, <2>2, AppendFacts
    <3>2. j \in 1..Len(net[x]) \/ j = Len(net[x]) + 1
      BY <3>1
    <3> QED BY <2>2, <3>1, <3>2
  <2>3. net'[x] = net[x] \/ (x = h /\ net'[x] = Append(net[x], p))
    BY <1>1, <1>3
  <2> QED BY <2>1, <2>2, <2>3
<1>6. ASSUME NEW x \in Hosts
      PROVE  /\ \A k \in 1..Len(message_queue'[x]) : <<x, message_queue'[x][k].dst>> \in Flows
             /\ Acked(x)' = Acked(x)
  <2>1. \A k \in 1..Len(message_queue[x]) : <<x, message_queue[x][k].dst>> \in Flows
    BY DEF BeginInv, ToReceivers
  <2>2. CASE x = h
    <3> PICK n \in Nat : n = Len(message_queue[x])
      BY <1>3
    <3> PICK m \in Nat : m = Len(sent[x])
      BY <1>3
    <3>1. /\ message_queue'[x] = Append(message_queue[x], node)
          /\ sent'[x] = Append(sent[x], g)
      BY <1>1, <1>3, <2>2
    <3>2. /\ Len(message_queue'[x]) = n + 1
          /\ \A k \in 1..n : message_queue'[x][k] = message_queue[x][k]
          /\ message_queue'[x][n + 1] = node
          /\ Len(sent'[x]) = m + 1
      BY <1>0, <1>3, <3>1, AppendFacts
    <3>3. (m + 1) - (n + 1) = m - n /\ \A k \in 1..n + 1 : k \in 1..n \/ k = n + 1
      OBVIOUS
    <3>4. Acked(x)' = Acked(x)
      BY <3>2, <3>3 DEF Acked
    <3> QED BY <1>0, <1>1, <2>1, <2>2, <3>2, <3>3, <3>4
  <2>3. CASE x # h
    <3>1. message_queue'[x] = message_queue[x] /\ sent'[x] = sent[x]
      BY <1>1, <1>3, <2>3
    <3> QED BY <2>1, <3>1 DEF Acked
  <2> QED BY <2>2, <2>3
<1> QED BY <1>4, <1>5, <1>6, BeginKept

\* An ack releases a message only when the stream of its sender has begun.
LEMMA BeginRelease ==
    ASSUME SeqInv, BeginInv,
           NEW h \in Hosts, NEW g \in Hosts, NEW i \in 1..Len(net[h]), AckMovesWindow(h, g, i)
    PROVE  BeginInv'
<1>1. /\ net[h][i].type = "ack" /\ net[h][i].dst = g
      /\ message_queue[g] # <<>>
      /\ message_queue' = [message_queue EXCEPT ![g] = Tail(@)]
      /\ Exchange(h, g, i, <<>>)
      /\ UNCHANGED <<sent, delivered>>
  BY SendNextNothing DEF AckMovesWindow, Takes
<1>2. Begun(g, delivered)
  BY <1>1 DEF BeginInv, AcksBehind
<1>3. message_queue \in [Hosts -> Seq(MessageNode)]
  BY DEF SeqInv, TypeOK
<1>4. \A x \in Hosts : \A j \in 1..Len(net'[x]) : \E k \in 1..Len(net[x]) : net'[x][j] = net[x][k]
  <2> DEFINE new == <<>>
  <2>1. new \in Seq(Packet) /\ Exchange(h, g, i, new) /\ \A k \in 1..Len(new) : FALSE
    BY <1>1
  <2> HIDE DEF new
  <2>2. \A x \in Hosts : \A j \in 1..Len(net'[x]) :
            \/ \E k \in 1..Len(net[x]) : net'[x][j] = net[x][k]
            \/ x = g /\ \E k \in 1..Len(new) : net'[x][j] = new[k]
    BY <2>1, ExchangeOldOrNew
  <2> QED BY <2>1, <2>2
<1>5. \A x, y \in Hosts : GoesOn(delivered[x][y], delivered'[x][y])
  BY <1>1 DEF GoesOn
<1>6. ASSUME NEW x \in Hosts
      PROVE  /\ \A k \in 1..Len(message_queue'[x]) : <<x, message_queue'[x][k].dst>> \in Flows
             /\ Acked(x)' = Acked(x) \/ Begun(x, delivered)
  <2>1. \A k \in 1..Len(message_queue[x]) : <<x, message_queue[x][k].dst>> \in Flows
    BY DEF BeginInv, ToReceivers
  <2>2. CASE x = g
    <3> PICK q \in Seq(MessageNode) : q = message_queue[x]
      BY <1>3
    <3>1. message_queue'[x] = Tail(q) /\ q # <<>>
      BY <1>1, <1>3, <2>2
    <3>2. \A k \in 1..Len(Tail(q)) : k + 1 \in 1..Len(q) /\ Tail(q)[k] = q[k + 1]
      BY <3>1, TailFacts
    <3> QED BY <1>2, <2>1, <2>2, <3>1, <3>2
  <2>3. CASE x # g
    <3>1. message_queue'[x] = message_queue[x] /\ sent'[x] = sent[x]
      BY <1>1, <1>3, <2>3
    <3> QED BY <2>1, <3>1 DEF Acked
  <2> QED BY <2>2, <2>3
<1> QED BY <1>4, <1>5, <1>6, BeginKept

\* What is acknowledged and thrown away comes behind the beginning.
LEMMA BeginIgnored ==
    ASSUME SeqInv, BeginInv,
           NEW h \in Hosts, NEW g \in Hosts, NEW i \in 1..Len(net[h]), DataIgnored(h, g, i)
    PROVE  BeginInv'
<1>1. /\ Takes(h, g, i, "data")
      /\ ~SeqIsExpected(net[h][i].seq, seq_link[g][h])
      /\ Exchange(h, g, i, <<send_ack(h, net[h][i])>>)
      /\ UNCHANGED <<message_queue, sent, delivered>>
  BY DEF DataIgnored
<1>2. delivered[h][g] # <<>>
  <2>1. LinkRight(h, g)
    BY DEF SeqInv, LinksRight
  <2> QED BY <1>1, <2>1 DEF SeqIsExpected, LinkRight
<1> DEFINE ack == send_ack(h, net[h][i])
           new == <<ack>>
<1>4. new \in Seq(Packet) /\ Writable(g, ack, delivered)
  BY <1>1, <1>2, AckWritable
<1>5. \A k \in 1..Len(new) : new[k] = ack
  OBVIOUS
<1>6. Exchange(h, g, i, new)
  BY <1>1
<1> HIDE DEF ack, new
<1>3. \A x \in Hosts : \A j \in 1..Len(net'[x]) :
        \/ \E k \in 1..Len(net[x]) : net'[x][j] = net[x][k]
        \/ Writable(x, net'[x][j], delivered)
  BY <1>4, <1>5, <1>6, ExchangeOldOrNew
<1> QED BY <1>1, <1>3, BeginQuiet

\* The first message that is handed over is of the first window: none of its
\* sender is acknowledged yet.
LEMMA BeginDelivered ==
    ASSUME OneReceiver, SeqInv, BeginInv,
           NEW h \in Hosts, NEW g \in Hosts, NEW i \in 1..Len(net[h]), DataDelivered(h, g, i)
    PROVE  BeginInv'
<1> PICK p : p = net[h][i]
  OBVIOUS
<1>1. /\ Takes(h, g, i, "data")
      /\ Exchange(h, g, i, <<send_ack(h, p)>>)
      /\ delivered' = [delivered EXCEPT ![h][g] = Append(@, p.id)]
      /\ UNCHANGED <<message_queue, sent>>
  BY DEF DataDelivered
<1>2. delivered \in [Hosts -> [Hosts -> Seq(Nat)]]
  BY DEF SeqInv, TypeOK
<1>3. p.id \in Nat
  BY PacketFields DEF SeqInv
<1> PICK d \in Seq(Nat) : d = delivered[h][g]
  BY <1>2
<1>4. delivered'[h][g] = Append(d, p.id)
  BY <1>1, <1>2
<1>5. /\ Append(d, p.id) # <<>>
      /\ d = <<>> => Append(d, p.id)[1] = p.id
      /\ d # <<>> => Append(d, p.id)[1] = d[1]
  <2>1. /\ Append(d, p.id) # <<>> /\ Len(d) \in Nat
        /\ \A k \in 1..Len(d) : Append(d, p.id)[k] = d[k]
        /\ Append(d, p.id)[Len(d) + 1] = p.id
    BY <1>3, AppendFacts
  <2>2. d = <<>> <=> Len(d) = 0
    BY EmptyFacts
  <2>3. d # <<>> => 1 \in 1..Len(d)
    BY <2>1, <2>2
  <2>4. d = <<>> => Len(d) + 1 = 1
    BY <2>2
  <2> QED BY <2>1, <2>3, <2>4
<1>6. <<h, g>> \in Flows
  BY <1>1 DEF BeginInv, ToReceivers, Takes
<1> DEFINE ack == send_ack(h, p)
           new == <<ack>>
<1>12. new \in Seq(Packet) /\ Writable(g, ack, delivered')
  <2> PICK handed : handed = delivered'
    OBVIOUS
  <2>1. handed[h][g] # <<>>
    BY <1>4, <1>5
  <2>2. Writable(g, send_ack(h, net[h][i]), handed) /\ <<send_ack(h, net[h][i])>> \in Seq(Packet)
    BY <1>1, <2>1, AckWritable
  <2> QED BY <2>2
<1>13. \A k \in 1..Len(new) : new[k] = ack
  OBVIOUS
<1>14. Exchange(h, g, i, new)
  BY <1>1
<1> HIDE DEF ack, new
<1>7. \A x \in Hosts : \A j \in 1..Len(net'[x]) :
        \/ \E k \in 1..Len(net[x]) : net'[x][j] = net[x][k]
        \/ Writable(x, net'[x][j], delivered')
  BY <1>12, <1>13, <1>14, ExchangeOldOrNew
<1>8. d = <<>> => p.id \in 1..Window
  <2> SUFFICES ASSUME d = <<>> PROVE p.id \in 1..Window
    OBVIOUS
  <2>1. ~Begun(h, delivered)
    <3> SUFFICES ASSUME NEW y \in Hosts, <<h, y>> \in Flows PROVE delivered[h][y] = <<>>
      BY DEF Begun
    <3>1. <<h, y>>[1] = <<h, g>>[1] => <<h, y>>[2] = <<h, g>>[2]
      BY <1>6 DEF OneReceiver
    <3> QED BY <3>1
  <2>2. Acked(h) = 0
    BY <2>1 DEF BeginInv, AcksBehind
  <2>3. PacketRight(h, p)
    BY <1>1 DEF SeqInv, PacketsRight, Takes
  <2>4. p.id \in 1..Len(sent[h]) /\ p.id <= 0 + Window
    BY <2>2, <2>3 DEF PacketRight, Acked
  <2> QED BY <1>3, <2>4, Sizes
<1>9. \A x, y \in Hosts : GoesOn(delivered[x][y], delivered'[x][y])
  <2> SUFFICES ASSUME NEW x \in Hosts, NEW y \in Hosts
               PROVE  GoesOn(delivered[x][y], delivered'[x][y])
    OBVIOUS
  <2>1. CASE x = h /\ y = g
    BY <1>4, <1>5, <1>8, <2>1 DEF GoesOn
  <2>2. CASE ~(x = h /\ y = g)
    <3>1. delivered'[x][y] = delivered[x][y]
      BY <1>1, <1>2, <2>2
    <3> QED BY <3>1 DEF GoesOn
  <2> QED BY <2>1, <2>2
<1>10. \A x \in Hosts : \A k \in 1..Len(message_queue'[x]) : <<x, message_queue'[x][k].dst>> \in Flows
  BY <1>1 DEF BeginInv, ToReceivers
<1>11. \A x \in Hosts : Acked(x)' = Acked(x)
  BY <1>1 DEF Acked
<1> QED BY <1>7, <1>9, <1>10, <1>11, BeginKept

\* Every step keeps the invariant.
LEMMA BeginStep ==
    ASSUME OneReceiver, SeqInv, BeginInv, [Next]_vars
    PROVE  BeginInv'
<1>0. net \in [Hosts -> Seq(Packet)] /\ message_queue \in [Hosts -> Seq(MessageNode)]
  BY DEF SeqInv, TypeOK
<1>1. ASSUME NEW h \in Hosts, NEW g \in Hosts, forward_to_mip(h, g)
      PROVE  BeginInv'
  BY <1>1, BeginForward
<1>2. ASSUME NEW h \in Hosts, Timeout(h)
      PROVE  BeginInv'
  <2> PICK again \in Seq(Packet) :
        /\ net' = [net EXCEPT ![h] = @ \o again]
        /\ \A k \in 1..Len(again) : Writable(h, again[k], delivered)
    <3> PICK queue \in Seq(MessageNode) : queue = message_queue[h]
      BY <1>0
    <3>1. /\ resend_window(queue) \in Seq(Packet)
          /\ \A k \in 1..Len(resend_window(queue)) :
                k \in 1..Len(queue) /\ resend_window(queue)[k] = DataPacket(queue[k])
      BY ResendType
    <3>2. \A k \in 1..Len(queue) : Writable(h, DataPacket(queue[k]), delivered)
      BY DEF BeginInv, ToReceivers, Writable, DataPacket
    <3> QED BY <1>2, <3>1, <3>2 DEF Timeout
  <2>1. UNCHANGED <<message_queue, sent, delivered>>
    BY <1>2 DEF Timeout
  <2>2. ASSUME NEW x \in Hosts, NEW j \in 1..Len(net'[x])
        PROVE  \/ \E k \in 1..Len(net[x]) : net'[x][j] = net[x][k]
               \/ Writable(x, net'[x][j], delivered)
    <3>1. CASE x = h
      <4> PICK q \in Seq(Packet) : q = net[x]
        BY <1>0
      <4>1. net'[x] = q \o again
        BY <1>0, <3>1
      <4>2. /\ Len(q) \in Nat /\ Len(again) \in Nat /\ Len(q \o again) = Len(q) + Len(again)
            /\ \A k \in 1..Len(q) + Len(again) :
                (q \o again)[k] = IF k <= Len(q) THEN q[k] ELSE again[k - Len(q)]
        BY ConcatProperties
      <4>3. j \in 1..Len(q) \/ (~(j <= Len(q)) /\ j - Len(q) \in 1..Len(again))
        BY <4>1, <4>2
      <4> QED BY <3>1, <4>1, <4>2, <4>3
    <3>2. CASE x # h
      BY <1>0, <3>2
    <3> QED BY <3>1, <3>2
  <2> QED BY <2>1, <2>2, BeginQuiet
<1>3. ASSUME NEW h \in Hosts, NEW g \in Hosts, NEW i \in 1..Len(net[h]),
             read_message(h, g, i)
      PROVE  BeginInv'
  <2>1. CASE AckMovesWindow(h, g, i)
    BY <2>1, BeginRelease
  <2>2. CASE AckIgnored(h, g, i) \/ AckCrashes(h, g, i)
    <3> DEFINE new == <<>>
    <3>1. /\ new \in Seq(Packet) /\ Exchange(h, g, i, new) /\ \A k \in 1..Len(new) : FALSE
          /\ UNCHANGED <<message_queue, sent, delivered>>
      BY <2>2 DEF AckIgnored, AckCrashes
    <3> HIDE DEF new
    <3>2. \A x \in Hosts : \A j \in 1..Len(net'[x]) :
            \/ \E k \in 1..Len(net[x]) : net'[x][j] = net[x][k]
            \/ x = g /\ \E k \in 1..Len(new) : net'[x][j] = new[k]
      BY <3>1, ExchangeOldOrNew
    <3>3. \A x \in Hosts : \A j \in 1..Len(net'[x]) : \E k \in 1..Len(net[x]) : net'[x][j] = net[x][k]
      BY <3>1, <3>2
    <3> QED BY <3>1, <3>3, BeginQuiet
  <2>3. CASE DataIgnored(h, g, i)
    BY <2>3, BeginIgnored
  <2>4. CASE DataDelivered(h, g, i)
    BY <2>4, BeginDelivered
  <2> QED BY <1>3, <2>1, <2>2, <2>3, <2>4 DEF read_message
<1>4. ASSUME NEW h \in Hosts, Lose(h)
      PROVE  BeginInv'
  <2> PICK i \in 1..Len(net[h]) : net' = [net EXCEPT ![h] = RemoveAt(@, i)]
    BY <1>4 DEF Lose
  <2>1. \A j \in 1..Len(RemoveAt(net[h], i)) :
            \E k \in 1..Len(net[h]) : RemoveAt(net[h], i)[j] = net[h][k]
    BY <1>0, RemoveAtKeeps
  <2>2. \A x \in Hosts : net'[x] = IF x = h THEN RemoveAt(net[h], i) ELSE net[x]
    BY <1>0
  <2>3. \A x \in Hosts : \A j \in 1..Len(net'[x]) : \E k \in 1..Len(net[x]) : net'[x][j] = net[x][k]
    BY <2>1, <2>2
  <2>4. UNCHANGED <<message_queue, sent, delivered>>
    BY <1>4 DEF Lose
  <2> QED BY <2>3, <2>4, BeginQuiet
<1>5. ASSUME NEW h \in Hosts, Duplicate(h)
      PROVE  BeginInv'
  <2> PICK i \in 1..Len(net[h]) : net' = [net EXCEPT ![h] = Append(@, @[i])]
    BY <1>5 DEF Duplicate
  <2> PICK q \in Seq(Packet) : q = net[h]
    BY <1>0
  <2> PICK p \in Packet : p = q[i]
    BY <1>0
  <2>1. /\ Len(q) \in Nat /\ Len(Append(q, p)) = Len(q) + 1
        /\ \A k \in 1..Len(q) : Append(q, p)[k] = q[k]
        /\ Append(q, p)[Len(q) + 1] = p
    BY AppendFacts
  <2>2. \A x \in Hosts : net'[x] = IF x = h THEN Append(q, p) ELSE net[x]
    BY <1>0
  <2>3. \A j \in 1..Len(Append(q, p)) : j \in 1..Len(q) \/ j = Len(q) + 1
    BY <2>1
  <2>4. \A x \in Hosts : \A j \in 1..Len(net'[x]) : \E k \in 1..Len(net[x]) : net'[x][j] = net[x][k]
    BY <2>1, <2>2, <2>3
  <2>5. UNCHANGED <<message_queue, sent, delivered>>
    BY <1>5 DEF Duplicate
  <2> QED BY <2>4, <2>5, BeginQuiet
<1>6. CASE UNCHANGED vars
  BY <1>6, BeginQuiet DEF vars
<1> QED BY <1>1, <1>2, <1>3, <1>4, <1>5, <1>6 DEF Next

\* A stream skips fewer messages than a window holds: over any network, the
\* first packet that arrives (miptp_utils.c:305-313) is one of the first window,
\* and what is handed over after it has no gap (StreamInOrder).
THEOREM FirstWindowBegins ==
    ASSUME NoWrap, OneReceiver
    PROVE  Spec => []BeginsInFirstWindow
<1>1. Init => BeginInv
  <2> SUFFICES ASSUME Init PROVE BeginInv
    OBVIOUS
  <2>1. \A x \in Hosts : net[x] = <<>> /\ message_queue[x] = <<>> /\ sent[x] = <<>>
    BY DEF Init
  <2>2. \A x \in Hosts : Acked(x) = 0
    BY <2>1 DEF Acked
  <2>3. \A f \in Flows : delivered[f[1]][f[2]] = <<>>
    BY HostsAssumption DEF Init
  <2>4. ToReceivers /\ AcksBehind
    BY <2>1, <2>2 DEF ToReceivers, AcksBehind
  <2> QED BY <2>3, <2>4 DEF BeginInv, BeginsInFirstWindow
<1>2. SeqInv /\ BeginInv /\ [Next]_vars => BeginInv'
  BY BeginStep
<1>3. BeginInv => BeginsInFirstWindow
  BY DEF BeginInv
<1> QED BY <1>1, <1>2, <1>3, SeqInvariant, PTL DEF Spec

-----------------------------------------------------------------------------
(* The abstract stream *)

(***************************************************************************)
(* The daemon of Dst acknowledges what it throws away as well, so that an  *)
(* ack may be under way for a message Dst was not handed.  What keeps Src  *)
(* from forgetting that message is the order of the acks.  When an ack is  *)
(* written, the stream at Dst has reached some message, its stage; the ack *)
(* is not for the message right behind its stage, because that one is      *)
(* taken.  Stages only grow, and Src has released no more than the first   *)
(* of them, so that the ack Src waits for is one for a message of the run. *)
(* This needs a network that keeps the order and sends nothing twice.      *)
(***************************************************************************)

\* An ack for the sender of the flow.
ForSrc(p) == p.type = "ack" /\ p.dst = Src

\* s gives the stages of the acks in q, of which the sender has released a
\* messages, and the stream has reached message l.
Staged(q, s, a, l) ==
    \A j \in 1..Len(q) : ForSrc(q[j]) =>
        /\ a <= s[j] /\ s[j] <= l
        /\ q[j].id # s[j] + 1
        /\ \A k \in 1..j : ForSrc(q[k]) => s[k] <= s[j]

InStages(q, a, l) == \E s \in [1..Len(q) -> Nat] : Staged(q, s, a, l)

\* Before the stream begins nothing is acknowledged, and afterwards the sender
\* is never ahead of it.
InStep(d, a, q) ==
    /\ d = <<>> => a = 0 /\ \A j \in 1..Len(q) : ~ForSrc(q[j])
    /\ d # <<>> => a <= d[Len(d)] /\ InStages(q, a, d[Len(d)])

\* Acks for the sender come from the receiver, with the numbers of messages.
AcksRight ==
    \A x \in Hosts : \A j \in 1..Len(net[x]) : ForSrc(net[x][j]) =>
        /\ x = Dst
        /\ net[x][j].id \in 1..Len(sent[Src])
        /\ net[x][j].seq = (seq_send[Src] - Len(sent[Src])) + net[x][j].id - 1

\* What the sender writes goes to the receiver.
OneWay ==
    /\ \A j \in 1..Len(net[Src]) : net[Src][j].type = "data" => net[Src][j].dst = Dst
    /\ \A k \in 1..Len(message_queue[Src]) : message_queue[Src][k].dst = Dst

FlowInv == AcksRight /\ OneWay /\ InStep(delivered[Src][Dst], Acked(Src), net[Dst])

\* The network and the flows the refinement is about.
InOrderNetwork ==
    /\ ~Reordering /\ ~Duplicating
    /\ \A f \in Flows : f[1] = Src => f[2] = Dst

\* Where the packets are after packet i was taken out.
LEMMA RemoveAtPlaces ==
    ASSUME NEW S, NEW s \in Seq(S), NEW i \in 1..Len(s)
    PROVE  /\ RemoveAt(s, i) \in Seq(S)
           /\ Len(RemoveAt(s, i)) = Len(s) - 1
           /\ \A j \in 1..Len(s) - 1 : RemoveAt(s, i)[j] = s[IF j < i THEN j ELSE j + 1]
<1> DEFINE l == SubSeq(s, 1, i - 1)
           r == SubSeq(s, i + 1, Len(s))
<1>1. l \in Seq(S) /\ Len(l) = i - 1 /\ \A j \in 1..Len(l) : l[j] = s[j]
  OBVIOUS
<1>2. /\ r \in Seq(S) /\ Len(r) = Len(s) - i
      /\ \A j \in 1..Len(r) : r[j] = s[i + j]
  OBVIOUS
<1>3. RemoveAt(s, i) = l \o r
  BY DEF RemoveAt
<1> HIDE DEF l, r
<1>4. /\ l \o r \in Seq(S) /\ Len(l \o r) = Len(l) + Len(r)
      /\ \A j \in 1..Len(l) + Len(r) :
            (l \o r)[j] = IF j <= Len(l) THEN l[j] ELSE r[j - Len(l)]
  BY <1>1, <1>2, ConcatProperties
<1>5. ASSUME NEW j \in 1..Len(s) - 1
      PROVE  (l \o r)[j] = s[IF j < i THEN j ELSE j + 1]
  <2>1. CASE j < i
    BY <1>1, <1>2, <1>4, <2>1
  <2>2. CASE ~(j < i)
    <3>1. j - Len(l) \in 1..Len(r) /\ i + (j - Len(l)) = j + 1 /\ ~(j <= Len(l))
      BY <1>1, <1>2, <2>2
    <3>2. j \in 1..Len(l) + Len(r)
      BY <1>1, <1>2
    <3> QED BY <1>2, <1>4, <2>2, <3>1, <3>2
  <2> QED BY <2>1, <2>2
<1> QED BY <1>1, <1>2, <1>3, <1>4, <1>5

\* An ack that is lost, or is not the one the sender waits for.
LEMMA StagesRemove ==
    ASSUME NEW S, NEW q \in Seq(S), NEW i \in 1..Len(q), NEW a \in Nat, NEW l \in Nat,
           InStages(q, a, l)
    PROVE  InStages(RemoveAt(q, i), a, l)
<1> PICK s \in [1..Len(q) -> Nat] : Staged(q, s, a, l)
  BY DEF InStages
<1> PICK n : n = Len(q)
  OBVIOUS
<1> DEFINE place(j) == IF j < i THEN j ELSE j + 1
           t == [j \in 1..n - 1 |-> s[place(j)]]
           r == RemoveAt(q, i)
<1>1. /\ n \in Nat /\ i \in 1..n
      /\ Len(r) = n - 1
      /\ \A j \in 1..n - 1 : r[j] = q[place(j)]
  BY RemoveAtPlaces
<1>2. /\ \A j \in 1..n - 1 : place(j) \in 1..n
      /\ \A j \in 1..n - 1 : \A k \in 1..j : place(k) \in 1..place(j) /\ k \in 1..n - 1
  BY <1>1
<1>3. t \in [1..n - 1 -> Nat] /\ \A j \in 1..n - 1 : t[j] = s[place(j)]
  BY <1>2
<1> HIDE DEF place, t, r
<1>4. ASSUME NEW j \in 1..n - 1, ForSrc(r[j])
      PROVE  /\ a <= t[j] /\ t[j] <= l
             /\ r[j].id # t[j] + 1
             /\ \A k \in 1..j : ForSrc(r[k]) => t[k] <= t[j]
  <2>1. r[j] = q[place(j)] /\ t[j] = s[place(j)] /\ place(j) \in 1..n
    BY <1>1, <1>2, <1>3
  <2>2. /\ a <= s[place(j)] /\ s[place(j)] <= l
        /\ q[place(j)].id # s[place(j)] + 1
        /\ \A k \in 1..place(j) : ForSrc(q[k]) => s[k] <= s[place(j)]
    BY <1>4, <2>1 DEF Staged
  <2>3. ASSUME NEW k \in 1..j, ForSrc(r[k]) PROVE t[k] <= t[j]
    <3>1. place(k) \in 1..place(j) /\ k \in 1..n - 1
      BY <1>2
    <3>2. r[k] = q[place(k)] /\ t[k] = s[place(k)]
      BY <1>1, <1>3, <3>1
    <3> QED BY <2>1, <2>2, <2>3, <3>1, <3>2
  <2> QED BY <2>1, <2>2, <2>3
<1>5. Staged(r, t, a, l)
  BY <1>1, <1>4 DEF Staged
<1> QED BY <1>1, <1>3, <1>5 DEF InStages, r

\* Packets are written behind the others; acks among them are not for the
\* message behind the one the stream has reached.
LEMMA StagesConcat ==
    ASSUME NEW S, NEW q \in Seq(S), NEW new \in Seq(S), NEW a \in Nat, NEW l \in Nat,
           a <= l, InStages(q, a, l),
           \A k \in 1..Len(new) : ForSrc(new[k]) => new[k].id # l + 1
    PROVE  InStages(q \o new, a, l)
<1> PICK s \in [1..Len(q) -> Nat] : Staged(q, s, a, l)
  BY DEF InStages
<1> PICK n : n = Len(q)
  OBVIOUS
<1> PICK m : m = Len(new)
  OBVIOUS
<1> DEFINE t == [j \in 1..n + m |-> IF j <= n THEN s[j] ELSE l]
           r == q \o new
<1>1. /\ n \in Nat /\ m \in Nat /\ Len(r) = n + m
      /\ \A j \in 1..n : r[j] = q[j]
      /\ \A j \in n + 1..n + m : r[j] = new[j - n] /\ j - n \in 1..m
  BY ConcatProperties
<1>2. /\ t \in [1..n + m -> Nat]
      /\ \A j \in 1..n : t[j] = s[j] /\ s[j] \in Nat
      /\ \A j \in n + 1..n + m : t[j] = l
  <2>1. /\ \A j \in 1..n : s[j] \in Nat
        /\ \A j \in 1..n + m : j \in 1..n \/ j \in n + 1..n + m
        /\ \A j \in 1..n : j <= n /\ j \in 1..n + m
        /\ \A j \in n + 1..n + m : ~(j <= n) /\ j \in 1..n + m
    BY <1>1
  <2>2. \A j \in 1..n + m : (IF j <= n THEN s[j] ELSE l) \in Nat
    BY <2>1
  <2>3. t \in [1..n + m -> Nat]
    BY <2>2
  <2>4. \A j \in 1..n : t[j] = s[j]
    BY <2>1
  <2>5. \A j \in n + 1..n + m : t[j] = l
    BY <2>1
  <2> QED BY <2>1, <2>3, <2>4, <2>5
<1> HIDE DEF t, r
<1>3. ASSUME NEW j \in 1..n + m, ForSrc(r[j])
      PROVE  /\ a <= t[j] /\ t[j] <= l
             /\ r[j].id # t[j] + 1
             /\ \A k \in 1..j : ForSrc(r[k]) => t[k] <= t[j]
  <2>1. CASE j \in 1..n
    <3>1. /\ a <= s[j] /\ s[j] <= l
          /\ q[j].id # s[j] + 1
          /\ \A k \in 1..j : ForSrc(q[k]) => s[k] <= s[j]
      BY <1>1, <1>3, <2>1 DEF Staged
    <3>2. \A k \in 1..j : k \in 1..n
      BY <1>1, <2>1
    <3> QED BY <1>1, <1>2, <2>1, <3>1, <3>2
  <2>2. CASE j \in n + 1..n + m
    <3>1. r[j].id # l + 1
      BY <1>1, <1>3, <2>2
    <3>2. ASSUME NEW k \in 1..j, ForSrc(r[k]) PROVE t[k] <= l
      <4>1. CASE k \in 1..n
        <5>1. s[k] <= l
          BY <1>1, <3>2, <4>1 DEF Staged
        <5> QED BY <1>2, <4>1, <5>1
      <4>2. CASE k \in n + 1..n + m
        BY <1>2, <4>2
      <4> QED BY <1>1, <2>2, <4>1, <4>2
    <3> QED BY <1>2, <2>2, <3>1, <3>2
  <2> QED BY <1>1, <2>1, <2>2
<1>4. Staged(r, t, a, l)
  BY <1>1, <1>3 DEF Staged
<1> QED BY <1>1, <1>2, <1>4 DEF InStages, r

\* The stream has got further.
LEMMA StagesRaise ==
    ASSUME NEW S, NEW q \in Seq(S), NEW a \in Nat, NEW l \in Nat, NEW m \in Nat, l <= m,
           InStages(q, a, l)
    PROVE  InStages(q, a, m)
<1> PICK s \in [1..Len(q) -> Nat] : Staged(q, s, a, l)
  BY DEF InStages
<1>1. ASSUME NEW j \in 1..Len(q), ForSrc(q[j]) PROVE s[j] <= m
  <2>1. s[j] <= l /\ s[j] \in Nat
    BY <1>1 DEF Staged
  <2> QED BY <2>1
<1> QED BY <1>1 DEF InStages, Staged

\* The first ack under way is the one the sender waits for: it is for a message
\* of the run, and the sender is not ahead of the acks behind it either.
LEMMA StagesAcked ==
    ASSUME NEW S, NEW q \in Seq(S), NEW i \in 1..Len(q), NEW a \in Nat, NEW l \in Nat,
           InStages(q, a, l), ForSrc(q[i]), q[i].id = a + 1,
           \A j \in 1..i - 1 : ~ForSrc(q[j])
    PROVE  a + 1 <= l /\ InStages(RemoveAt(q, i), a + 1, l)
<1> PICK s \in [1..Len(q) -> Nat] : Staged(q, s, a, l)
  BY DEF InStages
<1>1. Len(q) \in Nat /\ \A j \in 1..Len(q) : s[j] \in Nat
  OBVIOUS
<1>2. a <= s[i] /\ s[i] <= l /\ a # s[i]
  BY <1>1 DEF Staged
<1>3. ASSUME NEW j \in 1..Len(q), ForSrc(q[j]) PROVE a + 1 <= s[j]
  <2>1. i \in 1..j
    BY <1>1, <1>3
  <2>2. s[i] <= s[j]
    BY <1>3, <2>1 DEF Staged
  <2> QED BY <1>1, <1>2, <2>2
<1>4. InStages(q, a + 1, l)
  BY <1>3 DEF InStages, Staged
<1>5. a + 1 <= l
  BY <1>1, <1>2
<1> QED BY <1>4, <1>5, StagesRemove

\* A packet leaves the queue of packets.
LEMMA InStepRemove ==
    ASSUME NEW S, NEW d \in Seq(Nat), NEW a \in Nat, NEW q \in Seq(S), NEW i \in 1..Len(q),
           InStep(d, a, q)
    PROVE  InStep(d, a, RemoveAt(q, i))
<1>1. ASSUME d = <<>> PROVE a = 0 /\ \A j \in 1..Len(RemoveAt(q, i)) : ~ForSrc(RemoveAt(q, i)[j])
  <2>1. a = 0 /\ \A j \in 1..Len(q) : ~ForSrc(q[j])
    BY <1>1 DEF InStep
  <2>2. \A j \in 1..Len(RemoveAt(q, i)) : \E k \in 1..Len(q) : RemoveAt(q, i)[j] = q[k]
    BY RemoveAtKeeps
  <2> QED BY <2>1, <2>2
<1>2. ASSUME d # <<>> PROVE a <= d[Len(d)] /\ InStages(RemoveAt(q, i), a, d[Len(d)])
  <2>1. d[Len(d)] \in Nat
    BY <1>2
  <2>2. a <= d[Len(d)] /\ InStages(q, a, d[Len(d)])
    BY <1>2 DEF InStep
  <2> QED BY <2>1, <2>2, StagesRemove
<1> QED BY <1>1, <1>2 DEF InStep

\* Packets are written, and what was handed over stays.
LEMMA InStepConcat ==
    ASSUME NEW S, NEW d \in Seq(Nat), NEW a \in Nat, NEW q \in Seq(S), NEW new \in Seq(S),
           InStep(d, a, q),
           \A k \in 1..Len(new) : ForSrc(new[k]) => d # <<>> /\ new[k].id # d[Len(d)] + 1
    PROVE  InStep(d, a, q \o new)
<1>1. ASSUME d = <<>> PROVE a = 0 /\ \A j \in 1..Len(q \o new) : ~ForSrc((q \o new)[j])
  <2>1. /\ a = 0 /\ \A j \in 1..Len(q) : ~ForSrc(q[j])
        /\ \A k \in 1..Len(new) : ~ForSrc(new[k])
    BY <1>1 DEF InStep
  <2> DEFINE r == q \o new
  <2>2. \A j \in 1..Len(r) : (\E k \in 1..Len(q) : r[j] = q[k]) \/ (\E k \in 1..Len(new) : r[j] = new[k])
    <3>1. /\ Len(q) \in Nat /\ Len(new) \in Nat /\ Len(r) = Len(q) + Len(new)
          /\ \A j \in 1..Len(r) : r[j] = IF j <= Len(q) THEN q[j] ELSE new[j - Len(q)]
      BY ConcatProperties
    <3> HIDE DEF r
    <3>2. \A j \in 1..Len(r) : j <= Len(q) => j \in 1..Len(q)
      BY <3>1
    <3>3. \A j \in 1..Len(r) : ~(j <= Len(q)) => j - Len(q) \in 1..Len(new)
      BY <3>1
    <3> QED BY <3>1, <3>2, <3>3
  <2> HIDE DEF r
  <2>3. \A j \in 1..Len(r) : ~ForSrc(r[j])
    BY <2>1, <2>2
  <2> QED BY <2>1, <2>3 DEF r
<1>2. ASSUME d # <<>> PROVE a <= d[Len(d)] /\ InStages(q \o new, a, d[Len(d)])
  <2>1. d[Len(d)] \in Nat
    BY <1>2
  <2>2. a <= d[Len(d)] /\ InStages(q, a, d[Len(d)])
    BY <1>2 DEF InStep
  <2>3. \A k \in 1..Len(new) : ForSrc(new[k]) => new[k].id # d[Len(d)] + 1
    OBVIOUS
  <2> QED BY <2>1, <2>2, <2>3, StagesConcat
<1> QED BY <1>1, <1>2 DEF InStep

\* The message handed over last.
LEMMA LastOfAppend ==
    ASSUME NEW d \in Seq(Nat), NEW l \in Nat
    PROVE  Append(d, l) # <<>> /\ Append(d, l)[Len(Append(d, l))] = l
<1>1. Len(Append(d, l)) = Len(d) + 1 /\ Append(d, l)[Len(d) + 1] = l
  BY AppendFacts
<1>2. Append(d, l) # <<>>
  BY AppendFacts
<1> QED BY <1>1, <1>2

\* A message is handed over and acknowledged: the first one, or the next one.
LEMMA InStepTaken ==
    ASSUME NEW S, NEW d \in Seq(Nat), NEW a \in Nat, NEW q \in Seq(S), NEW p \in S,
           InStep(d, a, q), p.id \in Nat,
           d # <<>> => p.id = d[Len(d)] + 1
    PROVE  InStep(Append(d, p.id), a, q \o <<p>>)
<1> PICK l \in Nat : l = p.id
  OBVIOUS
<1>1. a <= l /\ InStages(q, a, l)
  <2>1. CASE d = <<>>
    <3>1. a = 0 /\ \A j \in 1..Len(q) : ~ForSrc(q[j])
      BY <2>1 DEF InStep
    <3>2. [j \in 1..Len(q) |-> 0] \in [1..Len(q) -> Nat]
      OBVIOUS
    <3>3. InStages(q, a, l)
      BY <3>1, <3>2 DEF InStages, Staged
    <3> QED BY <3>1, <3>3
  <2>2. CASE d # <<>>
    <3> PICK m \in Nat : m = d[Len(d)]
      BY <2>2
    <3>1. a <= m /\ InStages(q, a, m) /\ l = m + 1
      BY <2>2 DEF InStep
    <3> QED BY <3>1, StagesRaise
  <2> QED BY <2>1, <2>2
<1>2. InStages(q \o <<p>>, a, l)
  <2> DEFINE new == <<p>>
  <2>1. new \in Seq(S) /\ \A k \in 1..Len(new) : new[k].id # l + 1
    OBVIOUS
  <2> HIDE DEF new
  <2>2. InStages(q \o new, a, l)
    BY <1>1, <2>1, StagesConcat
  <2> QED BY <2>2 DEF new
<1>3. /\ Append(d, l) # <<>>
      /\ Append(d, l)[Len(Append(d, l))] = l
  BY LastOfAppend
<1>4. InStep(Append(d, l), a, q \o <<p>>)
  BY <1>1, <1>2, <1>3 DEF InStep
<1> QED BY <1>4

\* The two ends of the flow.
LEMMA FlowFacts ==
    ASSUME SeqInv
    PROVE  /\ Src \in Hosts /\ Dst \in Hosts /\ Src # Dst
           /\ sent[Src] \in Seq(Hosts) /\ Len(sent[Src]) \in Nat
           /\ message_queue[Src] \in Seq(MessageNode) /\ Len(message_queue[Src]) \in Nat
           /\ Acked(Src) \in Nat
           /\ seq_send[Src] \in Nat
           /\ delivered[Src][Dst] \in Seq(Nat)
           /\ \A x \in Hosts : net[x] \in Seq(Packet)
<1>1. Src \in Hosts /\ Dst \in Hosts /\ Src # Dst
  BY FlowAssumption, HostsAssumption
<1>2. /\ sent[Src] \in Seq(Hosts)
      /\ message_queue[Src] \in Seq(MessageNode)
      /\ delivered[Src][Dst] \in Seq(Nat)
      /\ seq_send[Src] \in 0..SeqLimit
      /\ \A x \in Hosts : net[x] \in Seq(Packet)
  BY <1>1 DEF SeqInv, TypeOK
<1>3. Len(message_queue[Src]) <= Len(sent[Src])
  BY <1>1 DEF SeqInv, CountersRight
<1> PICK n \in Nat : n = Len(sent[Src])
  BY <1>2
<1> PICK l \in Nat : l = Len(message_queue[Src])
  BY <1>2
<1>4. n - l \in Nat
  BY <1>3
<1>5. Acked(Src) \in Nat
  BY <1>4 DEF Acked
<1>6. seq_send[Src] \in Nat
  BY <1>2, Sizes
<1> QED BY <1>1, <1>2, <1>5, <1>6

\* A packet that a step may add to those under way from x.
Fits(x, p) ==
    /\ ForSrc(p) =>
        /\ x = Dst
        /\ p.id \in 1..Len(sent[Src])
        /\ p.seq = (seq_send[Src] - Len(sent[Src])) + p.id - 1
    /\ x = Src /\ p.type = "data" => p.dst = Dst

\* Such packets, and those that were there, keep AcksRight and OneWay.
LEMMA PacketsFit ==
    ASSUME SeqInv, AcksRight, OneWay,
           \A x \in Hosts : \A j \in 1..Len(net'[x]) :
                (\E k \in 1..Len(net[x]) : net'[x][j] = net[x][k]) \/ Fits(x, net'[x][j]),
           NEW n \in Nat, n = Len(sent'[Src]), Len(sent[Src]) <= n,
           seq_send'[Src] - n = seq_send[Src] - Len(sent[Src]),
           \A k \in 1..Len(message_queue'[Src]) : message_queue'[Src][k].dst = Dst
    PROVE  AcksRight' /\ OneWay'
<1>1. Src \in Hosts /\ Len(sent[Src]) \in Nat
  BY FlowFacts
<1>2. \A x \in Hosts : \A j \in 1..Len(net[x]) : Fits(x, net[x][j])
  BY <1>1 DEF AcksRight, OneWay, Fits
<1>3. \A x \in Hosts : \A j \in 1..Len(net'[x]) : Fits(x, net'[x][j])
  BY <1>2
<1>4. ASSUME NEW x \in Hosts, NEW j \in 1..Len(net'[x]), ForSrc(net'[x][j])
      PROVE  /\ x = Dst
             /\ net'[x][j].id \in 1..n
             /\ net'[x][j].seq = (seq_send'[Src] - n) + net'[x][j].id - 1
  <2>1. /\ x = Dst
        /\ net'[x][j].id \in 1..Len(sent[Src])
        /\ net'[x][j].seq = (seq_send[Src] - Len(sent[Src])) + net'[x][j].id - 1
    BY <1>3, <1>4 DEF Fits
  <2>2. net'[x][j].id \in 1..n
    BY <1>1, <2>1
  <2> QED BY <2>1, <2>2
<1>5. AcksRight'
  BY <1>4 DEF AcksRight, ForSrc
<1>6. OneWay'
  BY <1>1, <1>3 DEF OneWay, Fits
<1> QED BY <1>5, <1>6

\* What is under way from the receiver after a packet was read.
LEMMA ExchangeNet ==
    ASSUME SeqInv, NEW h \in Hosts, NEW g \in Hosts, NEW i \in 1..Len(net[h]),
           NEW new \in Seq(Packet), Exchange(h, g, i, new)
    PROVE  LET rest == IF h = Dst THEN RemoveAt(net[Dst], i) ELSE net[Dst]
           IN  net'[Dst] = IF g = Dst THEN rest \o new ELSE rest
<1> DEFINE rest == [net EXCEPT ![h] = RemoveAt(@, i)]
<1>1. net \in [Hosts -> Seq(Packet)] /\ Dst \in Hosts
  BY FlowFacts DEF SeqInv, TypeOK
<1>2. net' = [rest EXCEPT ![g] = @ \o new]
  BY DEF Exchange
<1>3. DOMAIN rest = Hosts /\ rest[Dst] = IF h = Dst THEN RemoveAt(net[Dst], i) ELSE net[Dst]
  BY <1>1
<1> HIDE DEF rest
<1>4. net'[Dst] = IF g = Dst THEN rest[Dst] \o new ELSE rest[Dst]
  BY <1>1, <1>2, <1>3
<1> QED BY <1>3, <1>4

\* A step as the abstract stream sees it.
FlowStep == [Flow!Next]_(Flow!vars)

\* The parts of FlowInv make it up again.
LEMMA FlowInvNext ==
    ASSUME AcksRight', OneWay',
           InStep(delivered'[Src][Dst], Acked(Src)', net'[Dst])
    PROVE  FlowInv'
  BY DEF FlowInv, InStep

\* The packets that a step leaves under way after one was read.
LEMMA ExchangeFits ==
    ASSUME SeqInv, NEW h \in Hosts, NEW g \in Hosts, NEW i \in 1..Len(net[h]),
           NEW new \in Seq(Packet), Exchange(h, g, i, new),
           \A k \in 1..Len(new) : Fits(g, new[k])
    PROVE  \A x \in Hosts : \A j \in 1..Len(net'[x]) :
                (\E k \in 1..Len(net[x]) : net'[x][j] = net[x][k]) \/ Fits(x, net'[x][j])
<1>1. \A x \in Hosts : \A j \in 1..Len(net'[x]) :
        \/ \E k \in 1..Len(net[x]) : net'[x][j] = net[x][k]
        \/ x = g /\ \E k \in 1..Len(new) : net'[x][j] = new[k]
  BY ExchangeType DEF SeqInv
<1> QED BY <1>1

\* A packet is read, and nothing is written that lets the stream get on.
LEMMA ExchangeInStep ==
    ASSUME SeqInv, NEW h \in Hosts, NEW g \in Hosts, NEW i \in 1..Len(net[h]),
           NEW new \in Seq(Packet), Exchange(h, g, i, new),
           NEW d \in Seq(Nat), NEW a \in Nat, InStep(d, a, net[Dst]),
           g = Dst => \A k \in 1..Len(new) :
                        ForSrc(new[k]) => d # <<>> /\ new[k].id # d[Len(d)] + 1
    PROVE  InStep(d, a, net'[Dst])
<1> DEFINE rest == IF h = Dst THEN RemoveAt(net[Dst], i) ELSE net[Dst]
<1>1. net[Dst] \in Seq(Packet)
  BY FlowFacts
<1>2. net'[Dst] = IF g = Dst THEN rest \o new ELSE rest
  BY ExchangeNet
<1>3. rest \in Seq(Packet) /\ InStep(d, a, rest)
  <2>1. CASE h = Dst
    BY <1>1, <2>1, RemoveAtPlaces, InStepRemove
  <2>2. CASE h # Dst
    BY <1>1, <2>2
  <2> QED BY <2>1, <2>2
<1> HIDE DEF rest
<1>4. CASE g = Dst
  BY <1>2, <1>3, <1>4, InStepConcat
<1>5. CASE g # Dst
  BY <1>2, <1>3, <1>5
<1> QED BY <1>4, <1>5

\* A step that leaves the messages alone is a stutter of the stream.
LEMMA QuietFlow ==
    ASSUME SeqInv, FlowInv,
           UNCHANGED <<seq_send, message_queue, sent>>,
           delivered'[Src][Dst] = delivered[Src][Dst],
           \A x \in Hosts : \A j \in 1..Len(net'[x]) :
                (\E k \in 1..Len(net[x]) : net'[x][j] = net[x][k]) \/ Fits(x, net'[x][j]),
           InStep(delivered[Src][Dst], Acked(Src), net'[Dst])
    PROVE  FlowInv' /\ FlowStep
<1> PICK n \in Nat : n = Len(sent[Src])
  BY FlowFacts
<1>1. /\ n = Len(sent'[Src]) /\ Len(sent[Src]) <= n
      /\ seq_send'[Src] - n = seq_send[Src] - Len(sent[Src])
  OBVIOUS
<1>2. \A k \in 1..Len(message_queue'[Src]) : message_queue'[Src][k].dst = Dst
  BY DEF FlowInv, OneWay
<1>3. AcksRight' /\ OneWay'
  BY <1>1, <1>2, PacketsFit DEF FlowInv
<1>4. Acked(Src)' = Acked(Src)
  BY DEF Acked
<1>5. FlowInv'
  BY <1>3, <1>4, FlowInvNext
<1>6. FlowStep
  BY <1>4 DEF FlowStep, Flow!vars
<1> QED BY <1>5, <1>6

\* forward_to_mip submits a message to the stream of its host.
LEMMA ForwardFlow ==
    ASSUME SeqInv, FlowInv, InOrderNetwork,
           NEW h \in Hosts, NEW g \in Hosts, forward_to_mip(h, g)
    PROVE  FlowInv' /\ FlowStep
<1> DEFINE node == [dst |-> g, seq |-> Wire(seq_send[h]), id |-> Len(sent[h]) + 1]
           p == DataPacket(node)
           queue == Append(message_queue[h], node)
           d == delivered[Src][Dst]
<1>1. /\ seq_send \in [Hosts -> 0..SeqLimit] /\ sent \in [Hosts -> Seq(Hosts)]
      /\ message_queue \in [Hosts -> Seq(MessageNode)]
      /\ net \in [Hosts -> Seq(Packet)]
      /\ Src \in Hosts /\ Dst \in Hosts
  BY FlowFacts DEF SeqInv, TypeOK
<1>2. /\ seq_send' = [seq_send EXCEPT ![h] = NextSeq(@)]
      /\ message_queue' = [message_queue EXCEPT ![h] = queue]
      /\ net' = net \/ net' = [net EXCEPT ![h] = Append(@, p)]
      /\ sent' = [sent EXCEPT ![h] = Append(@, g)]
      /\ delivered' = delivered
      /\ Len(sent[h]) < MaxMsgs
      /\ <<h, g>> \in Flows
  BY DEF forward_to_mip
<1>3. h = Src => g = Dst
  BY <1>2 DEF InOrderNetwork
<1>4. node \in MessageNode /\ node.dst = g
  <2>1. Wire(seq_send[h]) \in 0..(SeqLimit - 1) /\ Len(sent[h]) \in Nat
    BY <1>1, WireType
  <2> QED BY <2>1 DEF MessageNode
<1>5. p \in Packet /\ p.type = "data" /\ p.dst = g
  <2>1. p = [type |-> "data", dst |-> node.dst, seq |-> node.seq, id |-> node.id]
    BY DEF DataPacket
  <2> HIDE DEF node, p
  <2> QED BY <1>4, <2>1 DEF MessageNode, Packet
<1> HIDE DEF node, p
<1>6. NextSeq(seq_send[h]) = seq_send[h] + 1
  <2> PICK v \in Nat : v = seq_send[h]
    BY <1>1, Sizes
  <2> PICK n \in Nat : n = Len(sent[h])
    BY <1>1
  <2>1. n < MaxMsgs /\ v + (MaxMsgs - n) <= SeqLimit
    BY <1>2 DEF SeqInv, CountersRight
  <2>2. v # SeqLimit
    BY <2>1, Sizes
  <2> QED BY <2>2 DEF NextSeq
<1>7. /\ ~ForSrc(p)
      /\ \A x \in Hosts : \A j \in 1..Len(net'[x]) :
            (\E k \in 1..Len(net[x]) : net'[x][j] = net[x][k]) \/ Fits(x, net'[x][j])
  <2>1. ~ForSrc(p) /\ Fits(h, p)
    BY <1>3, <1>5 DEF ForSrc, Fits
  <2>2. CASE net' = net
    BY <2>1, <2>2
  <2>3. CASE net' = [net EXCEPT ![h] = Append(@, p)]
    <3> SUFFICES ASSUME NEW x \in Hosts, NEW j \in 1..Len(net'[x])
                 PROVE  (\E k \in 1..Len(net[x]) : net'[x][j] = net[x][k]) \/ Fits(x, net'[x][j])
      BY <2>1
    <3>1. CASE x = h
      <4>1. net'[x] = Append(net[x], p) /\ net[x] \in Seq(Packet)
        BY <1>1, <2>3, <3>1
      <4>2. CASE j \in 1..Len(net[x])
        BY <1>5, <4>1, <4>2, AppendFacts
      <4>3. CASE j \notin 1..Len(net[x])
        <5>1. Len(Append(net[x], p)) = Len(net[x]) + 1 /\ Len(net[x]) \in Nat
          BY <1>5, <4>1, AppendFacts
        <5>2. j = Len(net[x]) + 1
          BY <4>1, <4>3, <5>1
        <5>3. net'[x][j] = p
          BY <1>5, <4>1, <5>2, AppendFacts
        <5> QED BY <2>1, <3>1, <5>3
      <4> QED BY <4>2, <4>3
    <3>2. CASE x # h
      BY <1>1, <2>3, <3>2
    <3> QED BY <3>1, <3>2
  <2> QED BY <1>2, <2>2, <2>3
<1>8. InStep(d, Acked(Src), net'[Dst])
  <2>1. d \in Seq(Nat) /\ Acked(Src) \in Nat /\ net[Dst] \in Seq(Packet)
    BY FlowFacts
  <2>2. InStep(d, Acked(Src), net[Dst])
    BY DEF FlowInv
  <2> HIDE DEF d
  <2>3. CASE net'[Dst] = net[Dst]
    BY <2>2, <2>3
  <2>4. CASE net'[Dst] = Append(net[Dst], p)
    <3> DEFINE new == <<p>>
    <3>1. /\ new \in Seq(Packet) /\ \A k \in 1..Len(new) : ~ForSrc(new[k])
          /\ net'[Dst] = net[Dst] \o new
      BY <1>5, <1>7, <2>1, <2>4
    <3> HIDE DEF new
    <3> QED BY <2>1, <2>2, <3>1, InStepConcat
  <2>5. net'[Dst] = net[Dst] \/ net'[Dst] = Append(net[Dst], p)
    BY <1>1, <1>2
  <2> QED BY <2>3, <2>4, <2>5
<1> PICK n \in Nat : n = Len(sent[Src])
  BY FlowFacts
<1> PICK l \in Nat : l = Len(message_queue[Src])
  BY FlowFacts
<1>9. CASE h = Src
  <2>1. Len(sent'[Src]) = n + 1
    BY <1>1, <1>2, <1>9, AppendFacts
  <2>2. /\ message_queue'[Src] = queue
        /\ message_queue[Src] \in Seq(MessageNode)
        /\ queue = Append(message_queue[Src], node)
    BY <1>1, <1>2, <1>9
  <2>3. /\ Len(message_queue'[Src]) = l + 1
        /\ \A k \in 1..l : message_queue'[Src][k] = message_queue[Src][k]
        /\ message_queue'[Src][l + 1] = node
    BY <1>4, <2>2, AppendFacts
  <2>4. \A k \in 1..Len(message_queue'[Src]) : message_queue'[Src][k].dst = Dst
    <3>1. \A k \in 1..l : message_queue[Src][k].dst = Dst
      BY DEF FlowInv, OneWay
    <3>2. \A k \in 1..l + 1 : k \in 1..l \/ k = l + 1
      OBVIOUS
    <3> QED BY <1>3, <1>4, <1>9, <2>3, <3>1, <3>2
  <2>5. seq_send'[Src] = seq_send[Src] + 1 /\ seq_send[Src] \in Nat
    BY <1>1, <1>2, <1>6, <1>9, FlowFacts
  <2>6. seq_send'[Src] - (n + 1) = seq_send[Src] - n /\ n + 1 \in Nat /\ n <= n + 1
    <3>1. \A v \in Nat : (v + 1) - (n + 1) = v - n
      OBVIOUS
    <3>2. n + 1 \in Nat /\ n <= n + 1
      OBVIOUS
    <3> QED BY <2>5, <3>1, <3>2
  <2>7. AcksRight' /\ OneWay'
    BY <1>7, <2>1, <2>4, <2>6, PacketsFit DEF FlowInv
  <2>8. Acked(Src)' = Acked(Src)
    <3>1. (n + 1) - (l + 1) = n - l
      OBVIOUS
    <3> QED BY <2>1, <2>3, <3>1 DEF Acked
  <2>9. FlowInv'
    BY <1>2, <1>8, <2>7, <2>8, FlowInvNext
  <2>10. FlowStep
    BY <1>2, <2>1, <2>8 DEF FlowStep, Flow!Next, Flow!Submit
  <2> QED BY <2>9, <2>10
<1>10. CASE h # Src
  <2>1. /\ sent'[Src] = sent[Src] /\ message_queue'[Src] = message_queue[Src]
        /\ seq_send'[Src] = seq_send[Src]
    BY <1>1, <1>2, <1>10
  <2>2. /\ n = Len(sent'[Src]) /\ Len(sent[Src]) <= n
        /\ seq_send'[Src] - n = seq_send[Src] - Len(sent[Src])
    BY <2>1
  <2>3. \A k \in 1..Len(message_queue'[Src]) : message_queue'[Src][k].dst = Dst
    BY <2>1 DEF FlowInv, OneWay
  <2>4. AcksRight' /\ OneWay'
    BY <1>7, <2>2, <2>3, PacketsFit DEF FlowInv
  <2>5. Acked(Src)' = Acked(Src)
    BY <2>1 DEF Acked
  <2>6. FlowInv'
    BY <1>2, <1>8, <2>4, <2>5, FlowInvNext
  <2>7. FlowStep
    BY <1>2, <2>1, <2>5 DEF FlowStep, Flow!vars
  <2> QED BY <2>6, <2>7
<1> QED BY <1>9, <1>10

\* A step that writes at most data of the queue is a stutter of the stream.
LEMMA TimeoutFlow ==
    ASSUME SeqInv, FlowInv, NEW h \in Hosts, Timeout(h)
    PROVE  FlowInv' /\ FlowStep
<1> DEFINE queue == message_queue[h]
           again == resend_window(queue)
<1>1. /\ net \in [Hosts -> Seq(Packet)] /\ queue \in Seq(MessageNode)
      /\ Src \in Hosts /\ Dst \in Hosts
  BY FlowFacts DEF SeqInv, TypeOK
<1>2. /\ net' = [net EXCEPT ![h] = @ \o again]
      /\ UNCHANGED <<seq_send, message_queue, seq_link, sent, delivered>>
  BY DEF Timeout
<1>3. /\ again \in Seq(Packet)
      /\ \A k \in 1..Len(again) :
            k \in 1..Len(queue) /\ again[k] = DataPacket(queue[k])
  BY <1>1, ResendType
<1> HIDE DEF again
<1>4. ASSUME NEW k \in 1..Len(again)
      PROVE  ~ForSrc(again[k]) /\ Fits(h, again[k])
  <2>1. again[k].type = "data" /\ again[k].dst = queue[k].dst /\ k \in 1..Len(queue)
    <3>1. \A m : DataPacket(m).type = "data" /\ DataPacket(m).dst = m.dst
      BY DEF DataPacket
    <3> QED BY <1>3, <3>1
  <2>2. h = Src => queue[k].dst = Dst
    BY <2>1 DEF FlowInv, OneWay
  <2> QED BY <2>1, <2>2 DEF ForSrc, Fits
<1>5. \A x \in Hosts : \A j \in 1..Len(net'[x]) :
        (\E k \in 1..Len(net[x]) : net'[x][j] = net[x][k]) \/ Fits(x, net'[x][j])
  <2> SUFFICES ASSUME NEW x \in Hosts, NEW j \in 1..Len(net'[x])
               PROVE  (\E k \in 1..Len(net[x]) : net'[x][j] = net[x][k]) \/ Fits(x, net'[x][j])
    OBVIOUS
  <2>1. CASE j \in 1..Len(net[x])
    <3>1. net'[x][j] = net[x][j]
      BY <1>1, <1>2, <1>3, <2>1
    <3> QED BY <2>1, <3>1
  <2>2. CASE j \notin 1..Len(net[x])
    <3>1. x = h /\ net'[h] = net[h] \o again /\ j > Len(net[h])
      BY <1>1, <1>2, <1>3, <2>2
    <3>2. /\ j - Len(net[h]) \in 1..Len(again)
          /\ net'[h][j] = again[j - Len(net[h])]
      BY <1>1, <1>3, <3>1
    <3> QED BY <1>4, <3>1, <3>2
  <2> QED BY <2>1, <2>2
<1>6. InStep(delivered[Src][Dst], Acked(Src), net'[Dst])
  <2>1. /\ delivered[Src][Dst] \in Seq(Nat) /\ Acked(Src) \in Nat
        /\ net[Dst] \in Seq(Packet)
        /\ InStep(delivered[Src][Dst], Acked(Src), net[Dst])
    BY FlowFacts DEF FlowInv
  <2>2. InStep(delivered[Src][Dst], Acked(Src), net[Dst] \o again)
    BY <1>3, <1>4, <2>1, InStepConcat
  <2>3. net'[Dst] = net[Dst] \/ net'[Dst] = net[Dst] \o again
    BY <1>1, <1>2
  <2> QED BY <2>1, <2>2, <2>3
<1> QED BY <1>2, <1>5, <1>6, QuietFlow

\* So is the loss of a packet.
LEMMA LoseFlow ==
    ASSUME SeqInv, FlowInv, NEW h \in Hosts, Lose(h)
    PROVE  FlowInv' /\ FlowStep
<1> PICK i \in 1..Len(net[h]) : net' = [net EXCEPT ![h] = RemoveAt(@, i)]
  BY DEF Lose
<1>1. /\ net \in [Hosts -> Seq(Packet)] /\ Src \in Hosts /\ Dst \in Hosts
      /\ delivered[Src][Dst] \in Seq(Nat) /\ Acked(Src) \in Nat
  BY FlowFacts DEF SeqInv, TypeOK
<1>2. /\ \A j \in 1..Len(RemoveAt(net[h], i)) :
            \E k \in 1..Len(net[h]) : RemoveAt(net[h], i)[j] = net[h][k]
  BY <1>1, RemoveAtKeeps
<1>3. \A x \in Hosts : net'[x] = IF x = h THEN RemoveAt(net[h], i) ELSE net[x]
  BY <1>1
<1>4. \A x \in Hosts : \A j \in 1..Len(net'[x]) : \E k \in 1..Len(net[x]) : net'[x][j] = net[x][k]
  BY <1>2, <1>3
<1>5. InStep(delivered[Src][Dst], Acked(Src), net'[Dst])
  <2>1. InStep(delivered[Src][Dst], Acked(Src), net[Dst])
    BY DEF FlowInv
  <2>2. CASE h = Dst
    BY <1>1, <1>3, <2>1, <2>2, InStepRemove
  <2>3. CASE h # Dst
    BY <1>1, <1>3, <2>1, <2>3
  <2> QED BY <2>2, <2>3
<1> QED BY <1>4, <1>5, QuietFlow DEF Lose

\* So is the end of a packet that nothing is answered to.
LEMMA ReadFlow ==
    ASSUME SeqInv, FlowInv, NEW h \in Hosts, NEW g \in Hosts, NEW i \in 1..Len(net[h]),
           Exchange(h, g, i, <<>>),
           UNCHANGED <<seq_send, message_queue, sent, delivered>>
    PROVE  FlowInv' /\ FlowStep
<1> DEFINE new == <<>>
<1>1. new \in Seq(Packet) /\ Exchange(h, g, i, new)
  OBVIOUS
<1>0. \A k \in 1..Len(new) : Fits(g, new[k]) /\ ~ForSrc(new[k])
  OBVIOUS
<1> HIDE DEF new
<1>2. \A x \in Hosts : \A j \in 1..Len(net'[x]) :
        (\E k \in 1..Len(net[x]) : net'[x][j] = net[x][k]) \/ Fits(x, net'[x][j])
  BY <1>0, <1>1, ExchangeFits
<1>3. InStep(delivered[Src][Dst], Acked(Src), net'[Dst])
  <2>1. InStep(delivered[Src][Dst], Acked(Src), net[Dst])
    BY DEF FlowInv
  <2>2. delivered[Src][Dst] \in Seq(Nat) /\ Acked(Src) \in Nat
    BY FlowFacts
  <2> QED BY <1>0, <1>1, <2>1, <2>2, ExchangeInStep
<1> QED BY <1>2, <1>3, QuietFlow

\* The ack for a packet of the flow carries the number of its message.
LEMMA AckFits ==
    ASSUME SeqInv, FlowInv, NEW h \in Hosts, NEW g \in Hosts, NEW i \in 1..Len(net[h]),
           Takes(h, g, i, "data")
    PROVE  /\ send_ack(h, net[h][i]) \in Packet
           /\ Fits(g, send_ack(h, net[h][i]))
           /\ ForSrc(send_ack(h, net[h][i])) <=> h = Src
           /\ h = Src => g = Dst
<1> DEFINE p == net[h][i]
           ack == send_ack(h, p)
<1>1. p \in Packet /\ p.type = "data" /\ p.dst = g
  BY FlowFacts DEF Takes
<1>2. PacketRight(h, p)
  BY <1>1 DEF SeqInv, PacketsRight
<1>3. h = Src => g = Dst
  BY <1>1 DEF FlowInv, OneWay
<1> HIDE DEF p
<1>4. ack \in Packet /\ ack.type = "ack" /\ ack.dst = h /\ ack.id = p.id /\ ack.seq = p.seq
  BY <1>1 DEF send_ack, Packet
<1> HIDE DEF ack
<1>5. ForSrc(ack) <=> h = Src
  BY <1>4 DEF ForSrc
<1>6. Fits(g, ack)
  BY <1>2, <1>3, <1>4, <1>5 DEF Fits, PacketRight
<1> QED BY <1>3, <1>4, <1>5, <1>6 DEF ack, p

\* Data that is thrown away is acknowledged, but it is not the message behind
\* the one the stream has reached.
LEMMA IgnoredFlow ==
    ASSUME SeqInv, FlowInv, NEW h \in Hosts, NEW g \in Hosts, NEW i \in 1..Len(net[h]),
           DataIgnored(h, g, i)
    PROVE  FlowInv' /\ FlowStep
<1> DEFINE p == net[h][i]
           ack == send_ack(h, p)
           new == <<ack>>
           d == delivered[Src][Dst]
<1>1. /\ Takes(h, g, i, "data") /\ ~SeqIsExpected(p.seq, seq_link[g][h])
      /\ Exchange(h, g, i, new)
      /\ UNCHANGED <<seq_send, message_queue, sent, delivered>>
  BY DEF DataIgnored
<1>2. /\ ack \in Packet /\ Fits(g, ack)
      /\ ForSrc(ack) <=> h = Src
      /\ h = Src => g = Dst
  BY <1>1, AckFits
<1>3. ForSrc(ack) => d # <<>> /\ ack.id # d[Len(d)] + 1
  <2> SUFFICES ASSUME h = Src, g = Dst
               PROVE  d # <<>> /\ p.id # d[Len(d)] + 1
    BY <1>2 DEF send_ack
  <2> DEFINE b == seq_send[Src] - Len(sent[Src])
             e == seq_link[Dst][Src]
  <2>1. PacketRight(Src, p)
    BY <1>1 DEF SeqInv, PacketsRight, Takes
  <2>2. p.seq = b + p.id - 1 /\ p.id \in Nat
    BY <2>1, PacketFields DEF PacketRight, SeqInv
  <2>3. e # NoLink /\ p.seq # e
    BY <1>1 DEF SeqIsExpected
  <2>4. LinkRight(Src, Dst)
    BY DEF SeqInv, LinksRight
  <2>5. d # <<>> /\ e = b + d[Len(d)]
    BY <2>3, <2>4 DEF LinkRight
  <2>6. d[Len(d)] \in Nat
    BY <2>5, FlowFacts
  <2> PICK last \in Nat : last = d[Len(d)]
    BY <2>6
  <2> PICK id \in Nat : id = p.id
    BY <2>2
  <2>7. b \in Int
    BY FlowFacts
  <2> HIDE DEF b, e, d, p
  <2>8. b + id - 1 # b + last
    BY <2>2, <2>3, <2>5
  <2>9. id # last + 1
    BY <2>7, <2>8
  <2> QED BY <2>5, <2>9
<1> HIDE DEF ack
<1>4. /\ new \in Seq(Packet)
      /\ \A k \in 1..Len(new) : new[k] = ack
  BY <1>2
<1> HIDE DEF new, d
<1>5. \A x \in Hosts : \A j \in 1..Len(net'[x]) :
        (\E k \in 1..Len(net[x]) : net'[x][j] = net[x][k]) \/ Fits(x, net'[x][j])
  BY <1>1, <1>2, <1>4, ExchangeFits
<1>6. InStep(d, Acked(Src), net'[Dst])
  <2>1. InStep(d, Acked(Src), net[Dst]) /\ d \in Seq(Nat) /\ Acked(Src) \in Nat
    BY FlowFacts DEF FlowInv, d
  <2> QED BY <1>1, <1>3, <1>4, <2>1, ExchangeInStep
<1> QED BY <1>1, <1>5, <1>6, QuietFlow DEF d

\* Data that is handed over is the first message of the stream or the next one.
LEMMA DeliveredFlow ==
    ASSUME SeqInv, FlowInv, NEW h \in Hosts, NEW g \in Hosts, NEW i \in 1..Len(net[h]),
           DataDelivered(h, g, i)
    PROVE  FlowInv' /\ FlowStep
<1> DEFINE p == net[h][i]
           ack == send_ack(h, p)
           new == <<ack>>
           d == delivered[Src][Dst]
<1>1. /\ Takes(h, g, i, "data") /\ SeqIsExpected(p.seq, seq_link[g][h])
      /\ Exchange(h, g, i, new)
      /\ delivered' = [delivered EXCEPT ![h][g] = Append(@, p.id)]
      /\ UNCHANGED <<seq_send, message_queue, sent>>
  BY DEF DataDelivered
<1>2. /\ ack \in Packet /\ Fits(g, ack)
      /\ ForSrc(ack) <=> h = Src
      /\ h = Src => g = Dst
      /\ ack.id = p.id
  BY <1>1, AckFits DEF send_ack
<1>3. /\ delivered \in [Hosts -> [Hosts -> Seq(Nat)]]
      /\ Src \in Hosts /\ Dst \in Hosts /\ Src # Dst
      /\ d \in Seq(Nat) /\ Acked(Src) \in Nat /\ net[Dst] \in Seq(Packet)
  BY FlowFacts DEF SeqInv, TypeOK
<1>4. InStep(d, Acked(Src), net[Dst])
  BY DEF FlowInv
<1> HIDE DEF ack
<1>5. /\ new \in Seq(Packet)
      /\ \A k \in 1..Len(new) : new[k] = ack
  BY <1>2
<1> HIDE DEF new
<1>6. \A x \in Hosts : \A j \in 1..Len(net'[x]) :
        (\E k \in 1..Len(net[x]) : net'[x][j] = net[x][k]) \/ Fits(x, net'[x][j])
  BY <1>1, <1>2, <1>5, ExchangeFits
<1>7. CASE h # Src
  <2>1. delivered'[Src][Dst] = d
    BY <1>1, <1>3, <1>7
  <2> HIDE DEF d
  <2>2. InStep(d, Acked(Src), net'[Dst])
    BY <1>1, <1>2, <1>3, <1>4, <1>5, <1>7, ExchangeInStep
  <2> QED BY <1>1, <1>6, <2>1, <2>2, QuietFlow DEF d
<1>8. CASE h = Src
  <2>1. g = Dst /\ delivered'[Src][Dst] = Append(d, p.id)
    BY <1>1, <1>2, <1>3, <1>8
  <2>2. p.id \in 1..Len(sent[Src]) /\ p.id \in Nat
    <3>1. PacketRight(Src, p)
      BY <1>1, <1>8 DEF SeqInv, PacketsRight, Takes
    <3> QED BY <3>1, FlowFacts DEF PacketRight
  <2>3. d # <<>> => p.id = d[Len(d)] + 1
    <3> SUFFICES ASSUME d # <<>> PROVE p.id = d[Len(d)] + 1
      OBVIOUS
    <3> DEFINE b == seq_send[Src] - Len(sent[Src])
               e == seq_link[Dst][Src]
    <3>1. p.seq = b + p.id - 1
      BY <1>1, <1>8 DEF SeqInv, PacketsRight, PacketRight, Takes
    <3>2. LinkRight(Src, Dst)
      BY <1>3 DEF SeqInv, LinksRight
    <3>3. e = b + d[Len(d)]
      BY <3>2 DEF LinkRight
    <3>4. b \in Int /\ b >= 0
      <4>1. Len(sent[Src]) <= seq_send[Src]
        BY <1>3 DEF SeqInv, CountersRight
      <4> QED BY <4>1, FlowFacts
    <3> PICK last \in Nat : last = d[Len(d)]
      BY <1>3
    <3> PICK id \in Nat : id = p.id
      BY <2>2
    <3>5. e = NoLink \/ p.seq = e
      BY <1>1, <1>8, <2>1 DEF SeqIsExpected
    <3> HIDE DEF b, e, d, p
    <3>6. b + last # -1
      BY <3>4
    <3>7. b + id - 1 = b + last
      BY <3>1, <3>3, <3>5, <3>6 DEF NoLink
    <3>8. id = last + 1
      BY <3>4, <3>7
    <3> QED BY <3>8
  <2>4. net'[Dst] = net[Dst] \o <<ack>>
    BY <1>1, <1>3, <1>5, <1>8, <2>1, ExchangeNet DEF new
  <2>5. InStep(Append(d, p.id), Acked(Src), net'[Dst])
    BY <1>2, <1>3, <1>4, <2>2, <2>3, <2>4, InStepTaken
  <2> PICK n \in Nat : n = Len(sent[Src])
    BY FlowFacts
  <2>6. AcksRight' /\ OneWay'
    <3>1. /\ n = Len(sent'[Src]) /\ Len(sent[Src]) <= n
          /\ seq_send'[Src] - n = seq_send[Src] - Len(sent[Src])
      BY <1>1
    <3>2. \A k \in 1..Len(message_queue'[Src]) : message_queue'[Src][k].dst = Dst
      BY <1>1 DEF FlowInv, OneWay
    <3> QED BY <1>6, <3>1, <3>2, PacketsFit DEF FlowInv
  <2>7. Acked(Src)' = Acked(Src)
    BY <1>1 DEF Acked
  <2>8. FlowInv'
    BY <2>1, <2>5, <2>6, <2>7, FlowInvNext
  <2>9. FlowStep
    <3>1. CASE d = <<>>
      <4>1. Acked(Src) = 0
        BY <1>4, <3>1 DEF InStep
      <4>2. delivered'[Src][Dst] = <<p.id>> /\ p.id \in (Acked(Src) + 1)..Len(sent[Src])
        BY <2>1, <2>2, <3>1, <4>1
      <4>3. Flow!Join
        BY <1>1, <2>7, <3>1, <4>2 DEF Flow!Join
      <4> QED BY <4>3 DEF FlowStep, Flow!Next
    <3>2. CASE d # <<>>
      <4>1. p.id = d[Len(d)] + 1 /\ d[Len(d)] \in Nat
        <5>1. d[Len(d)] \in Nat
          <6>1. d \in Seq(Nat) /\ d # <<>>
            BY <1>3, <3>2
          <6> HIDE DEF d
          <6> QED BY <6>1
        <5> QED BY <2>3, <3>2, <5>1
      <4>2. d[Len(d)] < Len(sent[Src])
        BY <2>2, <4>1
      <4>3. Flow!Deliver
        BY <1>1, <2>1, <2>7, <3>2, <4>1, <4>2 DEF Flow!Deliver, Flow!Latest
      <4> QED BY <4>3 DEF FlowStep, Flow!Next
    <3> QED BY <3>1, <3>2
  <2> QED BY <2>8, <2>9
<1> QED BY <1>7, <1>8

\* An ack that moves the window of the sender releases a message of the stream:
\* acks come in the order they were written in, so that this one was written
\* when the stream had got beyond the oldest message of the sender.
LEMMA ReleaseFlow ==
    ASSUME SeqInv, FlowInv, InOrderNetwork,
           NEW h \in Hosts, NEW g \in Hosts, NEW i \in 1..Len(net[h]),
           AckMovesWindow(h, g, i)
    PROVE  FlowInv' /\ FlowStep
<1> DEFINE p == net[h][i]
           d == delivered[Src][Dst]
<1>1. /\ Takes(h, g, i, "ack") /\ message_queue[g] # <<>>
      /\ p.seq = Head(message_queue[g]).seq
      /\ message_queue' = [message_queue EXCEPT ![g] = Tail(@)]
      /\ UNCHANGED <<up, seq_send, seq_link, sent, delivered>>
  BY DEF AckMovesWindow, AckIsExpected
<1>2. Exchange(h, g, i, <<>>)
  BY SendNextNothing DEF AckMovesWindow
<1>3. /\ message_queue \in [Hosts -> Seq(MessageNode)]
      /\ Src \in Hosts /\ Dst \in Hosts /\ Src # Dst
      /\ d \in Seq(Nat) /\ Acked(Src) \in Nat /\ net[Dst] \in Seq(Packet)
  BY FlowFacts DEF SeqInv, TypeOK
<1>4. InStep(d, Acked(Src), net[Dst])
  BY DEF FlowInv
<1> DEFINE new == <<>>
<1>5. new \in Seq(Packet) /\ Exchange(h, g, i, new)
  BY <1>2
<1>6. \A k \in 1..Len(new) : Fits(g, new[k]) /\ ~ForSrc(new[k])
  OBVIOUS
<1>7. net[Dst] \o new = net[Dst] /\ RemoveAt(net[Dst], i) \o new = RemoveAt(net[Dst], i)
  <2>1. h = Dst => RemoveAt(net[Dst], i) \in Seq(Packet)
    BY <1>3, RemoveAtPlaces
  <2> QED BY <1>3
<1> HIDE DEF new
<1>8. \A x \in Hosts : \A j \in 1..Len(net'[x]) :
        (\E k \in 1..Len(net[x]) : net'[x][j] = net[x][k]) \/ Fits(x, net'[x][j])
  BY <1>5, <1>6, ExchangeFits
<1> PICK n \in Nat : n = Len(sent[Src])
  BY FlowFacts
<1>9. /\ n = Len(sent'[Src]) /\ Len(sent[Src]) <= n
      /\ seq_send'[Src] - n = seq_send[Src] - Len(sent[Src])
  BY <1>1
<1>10. CASE g # Src
  <2>1. message_queue'[Src] = message_queue[Src]
    BY <1>1, <1>3, <1>10
  <2>2. \A k \in 1..Len(message_queue'[Src]) : message_queue'[Src][k].dst = Dst
    BY <2>1 DEF FlowInv, OneWay
  <2>3. AcksRight' /\ OneWay'
    BY <1>8, <1>9, <2>2, PacketsFit DEF FlowInv
  <2>4. Acked(Src)' = Acked(Src)
    BY <1>1, <2>1 DEF Acked
  <2>5. InStep(d, Acked(Src), net'[Dst])
    <3> HIDE DEF d
    <3> QED BY <1>3, <1>4, <1>5, <1>6, ExchangeInStep
  <2>6. FlowInv'
    BY <1>1, <2>3, <2>4, <2>5, FlowInvNext
  <2>7. FlowStep
    BY <1>1, <2>4 DEF FlowStep, Flow!vars
  <2> QED BY <2>6, <2>7
<1>11. CASE g = Src
  <2> DEFINE queue == message_queue[Src]
             rest == message_queue'[Src]
             a == Acked(Src)
  <2>1. /\ ForSrc(p) /\ h = Dst
        /\ p.id \in 1..Len(sent[Src])
        /\ p.seq = (seq_send[Src] - Len(sent[Src])) + p.id - 1
    <3>1. ForSrc(p)
      BY <1>1, <1>11 DEF Takes, ForSrc
    <3> QED BY <3>1 DEF FlowInv, AcksRight
  <2>2. /\ queue \in Seq(MessageNode) /\ queue # <<>> /\ rest = Tail(queue)
        /\ Head(queue) = queue[1] /\ 1 \in 1..Len(queue)
    <3>1. queue \in Seq(MessageNode) /\ queue # <<>> /\ rest = Tail(queue)
      BY <1>1, <1>3, <1>11
    <3> QED BY <3>1, TailFacts
  <2>3. p.id = a + 1
    <3>1. NodeRight(Src, 1, queue[1])
      BY <1>3, <2>2 DEF SeqInv, QueueRight
    <3>2. /\ queue[1].id = a + 1
          /\ queue[1].seq = (seq_send[Src] - Len(sent[Src])) + queue[1].id - 1
      BY <3>1 DEF NodeRight, Acked
    <3>3. p.seq = queue[1].seq
      BY <1>1, <1>11, <2>2
    <3> DEFINE b == seq_send[Src] - Len(sent[Src])
    <3>4. b \in Int /\ p.id \in Int
      BY <2>1, FlowFacts
    <3> PICK id \in Int : id = p.id
      BY <3>4
    <3> HIDE DEF a
    <3>5. b + id - 1 = b + (a + 1) - 1
      BY <2>1, <3>2, <3>3
    <3>6. a \in Nat
      BY FlowFacts DEF a
    <3> HIDE DEF b
    <3>7. id = a + 1
      BY <3>4, <3>5, <3>6
    <3> QED BY <3>7
  <2>4. \A j \in 1..i - 1 : ~ForSrc(net[Dst][j])
    BY <1>1, <2>1 DEF Takes, Arrives, InOrderNetwork, ForSrc
  <2>5. d # <<>>
    BY <1>4, <2>1 DEF InStep
  <2> PICK l \in Nat : l = d[Len(d)]
    BY <1>3, <2>5
  <2>6. a + 1 <= l /\ InStages(RemoveAt(net[Dst], i), a + 1, l)
    <3>1. InStages(net[Dst], a, l)
      BY <1>4, <2>5 DEF InStep
    <3>2. a \in Nat /\ i \in 1..Len(net[Dst]) /\ ForSrc(net[Dst][i]) /\ net[Dst][i].id = a + 1
      BY <1>3, <2>1, <2>3
    <3> HIDE DEF a
    <3> QED BY <1>3, <2>4, <3>1, <3>2, StagesAcked
  <2>7. net'[Dst] = RemoveAt(net[Dst], i)
    BY <1>3, <1>5, <1>7, <1>11, <2>1, ExchangeNet
  <2>8. InStep(d, a + 1, net'[Dst])
    BY <2>5, <2>6, <2>7 DEF InStep
  <2>9. Acked(Src)' = a + 1
    <3> PICK m \in Nat : m = Len(queue)
      BY <2>2
    <3>1. Len(rest) = m - 1
      BY <2>2, TailFacts
    <3>2. n - (m - 1) = (n - m) + 1
      OBVIOUS
    <3> QED BY <1>9, <3>1, <3>2 DEF Acked
  <2>10. \A k \in 1..Len(rest) : rest[k].dst = Dst
    <3>1. Len(rest) = Len(queue) - 1 /\ Len(queue) \in Nat
          /\ \A k \in 1..Len(rest) : rest[k] = queue[k + 1]
      BY <2>2, TailFacts
    <3>2. \A k \in 1..Len(queue) : queue[k].dst = Dst
      BY DEF FlowInv, OneWay
    <3> HIDE DEF queue, rest
    <3>3. \A k \in 1..Len(rest) : k + 1 \in 1..Len(queue)
      BY <3>1
    <3> QED BY <3>1, <3>2, <3>3
  <2>11. AcksRight' /\ OneWay'
    BY <1>8, <1>9, <2>10, PacketsFit DEF FlowInv
  <2>12. FlowInv'
    BY <1>1, <2>8, <2>9, <2>11, FlowInvNext
  <2>13. a < d[Len(d)]
    BY <1>3, <2>6
  <2>14. Flow!Release
    BY <1>1, <2>5, <2>9, <2>13 DEF Flow!Release, Flow!Latest
  <2> QED BY <2>12, <2>14 DEF FlowStep, Flow!Next
<1> QED BY <1>10, <1>11

\* Every step of the data plane is one of the stream, or a stutter.
LEMMA FlowSteps ==
    ASSUME InOrderNetwork, SeqInv, FlowInv, [Next]_vars
    PROVE  FlowInv' /\ FlowStep
<1>1. ASSUME NEW h \in Hosts, NEW g \in Hosts, forward_to_mip(h, g)
      PROVE  FlowInv' /\ FlowStep
  BY <1>1, ForwardFlow
<1>2. ASSUME NEW h \in Hosts, Timeout(h)
      PROVE  FlowInv' /\ FlowStep
  BY <1>2, TimeoutFlow
<1>3. ASSUME NEW h \in Hosts, NEW g \in Hosts, NEW i \in 1..Len(net[h]),
             read_message(h, g, i)
      PROVE  FlowInv' /\ FlowStep
  <2>1. CASE AckMovesWindow(h, g, i)
    BY <2>1, ReleaseFlow
  <2>2. CASE AckIgnored(h, g, i)
    BY <2>2, ReadFlow DEF AckIgnored
  <2>3. CASE AckCrashes(h, g, i)
    BY <2>3, ReadFlow DEF AckCrashes
  <2>4. CASE DataIgnored(h, g, i)
    BY <2>4, IgnoredFlow
  <2>5. CASE DataDelivered(h, g, i)
    BY <2>5, DeliveredFlow
  <2> QED BY <1>3, <2>1, <2>2, <2>3, <2>4, <2>5 DEF read_message
<1>4. ASSUME NEW h \in Hosts, Lose(h)
      PROVE  FlowInv' /\ FlowStep
  BY <1>4, LoseFlow
<1>5. ASSUME NEW h \in Hosts, Duplicate(h)
      PROVE  FlowInv' /\ FlowStep
  BY <1>5 DEF Duplicate, InOrderNetwork
<1>6. CASE UNCHANGED vars
  <2>1. InStep(delivered[Src][Dst], Acked(Src), net'[Dst])
    BY <1>6 DEF vars, FlowInv
  <2>2. \A x \in Hosts : \A j \in 1..Len(net'[x]) : \E k \in 1..Len(net[x]) : net'[x][j] = net[x][k]
    BY <1>6 DEF vars
  <2> QED BY <1>6, <2>1, <2>2, QuietFlow DEF vars
<1> QED BY <1>1, <1>2, <1>3, <1>4, <1>5, <1>6 DEF Next

\* At the start nothing is under way, and nothing was submitted.
LEMMA FlowStart == ASSUME Init PROVE FlowInv /\ Flow!Init
<1>1. Src \in Hosts /\ Dst \in Hosts
  BY FlowAssumption, HostsAssumption
<1>2. /\ \A x \in Hosts : net[x] = <<>>
      /\ sent[Src] = <<>> /\ message_queue[Src] = <<>> /\ delivered[Src][Dst] = <<>>
  BY <1>1 DEF Init
<1>3. Acked(Src) = 0 /\ Len(sent[Src]) = 0
  BY <1>2 DEF Acked
<1>4. AcksRight /\ OneWay
  BY <1>1, <1>2 DEF AcksRight, OneWay
<1>5. InStep(delivered[Src][Dst], Acked(Src), net[Dst])
  BY <1>1, <1>2, <1>3 DEF InStep
<1> QED BY <1>2, <1>3, <1>4, <1>5 DEF FlowInv, Flow!Init

\* A flow implements the abstract stream while no number wraps and the network
\* keeps the order of packets: although the receiver acknowledges what it
\* throws away (read_message, miptp_utils.c:298-303), the sender releases a
\* message only when the receiver was handed it, or began behind it.
THEOREM FlowImplementsStream ==
    ASSUME NoWrap, InOrderNetwork
    PROVE  Spec => ImplementsStream
<1>1. Init => FlowInv /\ Flow!Init
  BY FlowStart
<1>2. SeqInv /\ FlowInv /\ [Next]_vars => FlowInv' /\ [Flow!Next]_(Flow!vars)
  BY FlowSteps DEF FlowStep
<1>3. Spec => []SeqInv
  BY SeqInvariant
<1> QED
  BY <1>1, <1>2, <1>3, PTL DEF Spec, ImplementsStream, Flow!Spec
=============================================================================
