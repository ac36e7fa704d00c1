--------------------------- MODULE MiptpHostsProof ---------------------------
(***************************************************************************)
(* Proofs about MiptpHosts, for any number of applications, any ports they *)
(* ask for, and any packets, those for port 0 and for ports that are not   *)
(* given yet included: from the moment its slot has a port an application  *)
(* is handed the packets for it and no others, what it writes goes out     *)
(* under that port, and only a packet for port 0 can make it believe in    *)
(* another one.                                                            *)
(*                                                                         *)
(* The invariant says what holds as long as the daemon runs: that an       *)
(* application is behind one slot at most, and a slot that is closed stays *)
(* closed (Wired); that a port is given once (PortsUnique); that an event  *)
(* still applies when it is served (Current); that the packets are taken   *)
(* in the order in which they came (InTurn); how far an application that   *)
(* was not misled is in the exchange about its port (Stages); and that     *)
(* what is written to an application before the answer that approves its   *)
(* port are answers and packets for port 0 (SlotsServed).                  *)
(***************************************************************************)
EXTENDS MiptpHosts, SequenceFacts, FiniteSetTheorems

-----------------------------------------------------------------------------
(* The inductive invariant *)

Up == Answer \cup Packet
Hosts == 1..Len(hosts)

\* An application waits, or was accepted into one slot, or neither; and a slot
\* without a descriptor is that of one that has left.
Wired ==
    /\ \A i, j \in Hosts : hosts[i].app = hosts[j].app => i = j
    /\ \A k, l \in 1..Len(backlog) : backlog[k] = backlog[l] => k = l
    /\ \A k \in 1..Len(backlog), i \in Hosts : hosts[i].app # backlog[k]
    /\ \A k \in 1..Len(backlog) : app[backlog[k]].phase # "off"
    /\ \A i \in Hosts :
        /\ app[hosts[i].app].phase # "off"
        /\ hosts[i].fd = 0 => app[hosts[i].app].phase = "left"
        /\ hosts[i].fd # 0 => socket[hosts[i].fd] = hosts[i].app

\* A port belongs to one slot.
PortsUnique ==
    \A i, j \in Hosts : hosts[i].port = hosts[j].port /\ hosts[i].port # 0 => i = j

\* What poll reported of slot i is still so.
CurrentAt(i) ==
    revents[i] # "none" =>
        /\ i \in Hosts /\ hosts[i].fd # 0
        /\ revents[i] = "hup" => app[hosts[i].app].phase = "left"
Current == \A i \in Slots : CurrentAt(i)

\* The packets on the way are the last that came.
InTurn ==
    /\ Len(from_mip) <= Len(arrived)
    /\ \A k \in 1..Len(from_mip) : from_mip[k] = arrived[Taken + k]
    /\ \A n \in 1..Len(arrived) : arrived[n].nr = n

\* The application a packet belonged to when it came still has the port.
OwnersHold ==
    \A n \in 1..Len(arrived) : \A x \in arrived[n].owners :
        \E i \in Hosts : /\ hosts[i].app = x
                         /\ hosts[i].port = arrived[n].port /\ hosts[i].port # 0

\* How far an application x, which was not misled, and the slot with port p are in
\* the exchange about the port, with down unread by the daemon and up written to
\* the application.
Idle(x, p, down, up) ==
    /\ p = 0 /\ x.phase \in {"off", "connected", "left"}
    /\ down = <<>>
    /\ \A k \in 1..Len(up) : up[k].type = "packet"

\* It has asked, and the daemon has not read the request.
Asked(x, p, down, up) ==
    /\ p = 0 /\ x.phase \in {"asking", "left"}
    /\ Len(down) = 1 /\ down[1].type = "request"
    /\ \A k \in 1..Len(up) : up[k].type = "packet"

\* The answer is under way.
Answered(x, p, down, up) ==
    /\ x.phase \in {"asking", "left"}
    /\ down = <<>>
    /\ \E j \in 1..Len(up) :
        /\ up[j].type = "answer" /\ up[j].port = p /\ up[j].approved = (p # 0)
        /\ \A k \in 1..Len(up) : k # j => up[k].type = "packet"

\* It has its port, and writes messages only.
Ready(x, p, down) ==
    /\ p # 0 /\ x.port = p /\ x.phase \in {"ready", "left"}
    /\ \A k \in 1..Len(down) : down[k].type = "message"

\* It left before its answer was written.
Gone(x, down) == x.phase = "left" /\ down = <<>>

Stage(x, p, down, up) ==
    \/ Idle(x, p, down, up) \/ Asked(x, p, down, up)
    \/ Answered(x, p, down, up) \/ Ready(x, p, down) \/ Gone(x, down)

StageAt(i) ==
    ~app[hosts[i].app].misled =>
        Stage(app[hosts[i].app], hosts[i].port, outbox[hosts[i].app], inbox[hosts[i].app])

\* Each application and its slot are at the same stage of the exchange; one that
\* has no slot was told nothing.
Stages ==
    /\ \A i \in Hosts : StageAt(i)
    /\ \A x \in Apps : (\A i \in Hosts : hosts[i].app # x) =>
        ~app[x].misled /\ inbox[x] = <<>> /\ Stage(app[x], 0, outbox[x], <<>>)

\* The answer that approves the port of a slot comes before the packets for it.
Early(host, x, up) ==
    x.phase \notin {"ready", "left"} /\ host.port # 0 =>
        \E j \in 1..Len(up) :
            /\ up[j].type = "answer" /\ up[j].approved
            /\ \A k \in 1..j - 1 : up[k].type = "packet" => up[k].port = 0

\* HandedItsOwn for one slot, with taken packets of arr read: what is in up.
PacketsIn(up) == {k \in 1..Len(up) : up[k].type = "packet"}

HandedTo(host, up, arr, taken) ==
    /\ \A k \in PacketsIn(up) :
        /\ up[k].nr \in 1..taken /\ up[k] = arr[up[k].nr]
        /\ up[k].port \in {0, host.port} /\ up[k].owners \subseteq {host.app}
    /\ \A j, k \in PacketsIn(up) : j < k => up[j].nr < up[k].nr
    /\ host.port # 0 => \A n \in 1..taken : n > host.since =>
        (arr[n].port = host.port <=> \E k \in PacketsIn(up) : up[k].nr = n)

SlotInv(host, x, up, arr, taken) ==
    x.phase # "left" => Early(host, x, up) /\ HandedTo(host, up, arr, taken)

ServedAt(i) ==
    SlotInv(hosts[i], app[hosts[i].app], inbox[hosts[i].app], arrived, Taken)
SlotsServed == \A i \in Hosts : ServedAt(i)

\* An application that has passed something on has its port, or was misled.
PassedReady ==
    \A k \in 1..Len(to_mip) :
        LET x == app[to_mip[k].app]
        IN  to_mip[k].port # 0 /\ (x.misled \/ x.phase \in {"ready", "left"})

\* What holds while the daemon runs.
RunInv ==
    /\ Wired /\ PortsUnique /\ Current /\ InTurn /\ OwnersHold
    /\ Stages /\ SlotsServed /\ PassedReady

\* The inductive invariant.
HostsInv == TypeOK /\ OwnPort /\ MisledByPortZero /\ (status = "runs" => RunInv)

-----------------------------------------------------------------------------
(* The parts of the state *)

\* What the type invariant says of the parts of the state.
LEMMA Typed ==
    ASSUME TypeOK
    PROVE  /\ hosts \in Seq(Host) /\ Len(hosts) \in Nat
           /\ \A i \in Hosts : hosts[i] \in Host
           /\ socket \in [Descriptors -> Apps \cup {NoApp}]
           /\ backlog \in Seq(Apps) /\ Len(backlog) \in Nat
           /\ \A k \in 1..Len(backlog) : backlog[k] \in Apps
           /\ to_mip \in Seq(Passed) /\ Len(to_mip) \in Nat
           /\ \A k \in 1..Len(to_mip) : to_mip[k] \in Passed
           /\ arrived \in Seq(Packet) /\ Len(arrived) \in Nat
           /\ \A n \in 1..Len(arrived) : arrived[n] \in Packet
           /\ from_mip \in Seq(Packet) /\ Len(from_mip) \in Nat
<1>1. /\ hosts \in Seq(Host)
      /\ socket \in [Descriptors -> Apps \cup {NoApp}]
      /\ backlog \in Seq(Apps)
      /\ to_mip \in Seq(Passed)
      /\ arrived \in Seq(Packet)
      /\ from_mip \in Seq(Packet)
  BY DEF TypeOK
<1>2. Len(hosts) \in Nat /\ \A i \in Hosts : hosts[i] \in Host
  BY <1>1 DEF Hosts
<1>3. Len(backlog) \in Nat /\ \A k \in 1..Len(backlog) : backlog[k] \in Apps
  BY <1>1
<1>4. Len(to_mip) \in Nat /\ \A k \in 1..Len(to_mip) : to_mip[k] \in Passed
  BY <1>1
<1>5. Len(arrived) \in Nat /\ \A n \in 1..Len(arrived) : arrived[n] \in Packet
  BY <1>1
<1>6. Len(from_mip) \in Nat
  BY <1>1
<1> QED BY <1>1, <1>2, <1>3, <1>4, <1>5, <1>6

\* The fields of a slot.
LEMMA HostFields ==
    ASSUME TypeOK, NEW i \in Hosts
    PROVE  /\ hosts[i] \in Host
           /\ hosts[i].port \in Ports /\ hosts[i].fd \in {0} \cup Descriptors
           /\ hosts[i].app \in Apps /\ hosts[i].since \in Nat
  BY Typed DEF Host

\* The fields of an application, and what is on its connection.
LEMMA AppFields ==
    ASSUME TypeOK, NEW x \in Apps
    PROVE  /\ app[x] \in App
           /\ app[x].port \in Ports /\ app[x].phase \in Phases
           /\ app[x].tries \in Nat /\ app[x].written \in Nat /\ app[x].misled \in BOOLEAN
           /\ app[x].tries <= Tries[x]
           /\ outbox[x] \in Seq(Written) /\ inbox[x] \in Seq(Up)
<1>1. app[x] \in App /\ app[x].tries <= Tries[x]
  BY DEF TypeOK
<1>2. outbox[x] \in Seq(Written) /\ inbox[x] \in Seq(Up)
  BY DEF TypeOK, Up
<1> QED BY <1>1, <1>2 DEF App

\* Descriptors are not that of the terminal.
LEMMA DescriptorFacts == 0 \notin Descriptors
  BY AppsAssumption, FS_CardinalityType DEF Descriptors

\* Who is behind an open slot.
LEMMA ClientFacts ==
    ASSUME TypeOK, Wired, NEW i \in Hosts
    PROVE  /\ hosts[i].fd = 0 => Client(i) = NoApp
           /\ hosts[i].fd # 0 => Client(i) = hosts[i].app /\ hosts[i].fd \in Descriptors
<1>1. hosts[i].fd \in {0} \cup Descriptors
  BY HostFields
<1> QED BY <1>1 DEF Client, Behind, Wired

\* How many packets were read.
LEMMA TakenFacts ==
    ASSUME TypeOK, InTurn
    PROVE  Taken \in Nat /\ Taken <= Len(arrived) /\ Taken + Len(from_mip) = Len(arrived)
  BY Typed DEF InTurn, Taken

-----------------------------------------------------------------------------
(* What was written to an application *)

\* Reading all of a sequence of packets and answers, one longer.
LEMMA UpAppend ==
    ASSUME NEW up \in Seq(Up), NEW msg \in Up
    PROVE  /\ Append(up, msg) \in Seq(Up)
           /\ Len(up) \in Nat /\ Len(Append(up, msg)) = Len(up) + 1
           /\ \A k \in 1..Len(up) : Append(up, msg)[k] = up[k]
           /\ Append(up, msg)[Len(up) + 1] = msg
           /\ msg.type # "packet" => PacketsIn(Append(up, msg)) = PacketsIn(up)
           /\ msg.type = "packet" =>
                PacketsIn(Append(up, msg)) = PacketsIn(up) \cup {Len(up) + 1}
<1> DEFINE new == Append(up, msg)
<1>1. /\ new \in Seq(Up)
      /\ Len(up) \in Nat /\ Len(new) = Len(up) + 1
      /\ \A k \in 1..Len(up) : new[k] = up[k]
      /\ new[Len(up) + 1] = msg
  BY AppendFacts
<1> HIDE DEF new
<1>2. 1..Len(new) = 1..Len(up) \cup {Len(up) + 1}
  BY <1>1
<1>3. \A k \in 1..Len(up) : k \in 1..Len(new)
  BY <1>1
<1>4. /\ msg.type # "packet" => PacketsIn(new) = PacketsIn(up)
      /\ msg.type = "packet" => PacketsIn(new) = PacketsIn(up) \cup {Len(up) + 1}
  BY <1>1, <1>2, <1>3 DEF PacketsIn
<1> QED BY <1>1, <1>4 DEF new

\* An answer is no packet.
LEMMA HandedAnswer ==
    ASSUME NEW host, NEW up \in Seq(Up), NEW msg \in Up, msg.type # "packet",
           NEW arr, NEW taken, HandedTo(host, up, arr, taken)
    PROVE  HandedTo(host, Append(up, msg), arr, taken)
<1> DEFINE new == Append(up, msg)
<1>1. PacketsIn(new) = PacketsIn(up) /\ \A k \in PacketsIn(up) : new[k] = up[k]
  BY UpAppend DEF PacketsIn
<1> HIDE DEF new
<1>2. HandedTo(host, new, arr, taken)
  BY <1>1 DEF HandedTo
<1> QED BY <1>2 DEF new

\* The next packet is handed to the slot that has its port.
LEMMA HandedPacket ==
    ASSUME NEW host \in Host, NEW up \in Seq(Up), NEW msg \in Packet, NEW arr, NEW taken \in Nat,
           HandedTo(host, up, arr, taken),
           arr[taken + 1] = msg, msg.nr = taken + 1,
           msg.port = host.port, msg.owners \subseteq {host.app}
    PROVE  HandedTo(host, Append(up, msg), arr, taken + 1)
<1> DEFINE new == Append(up, msg)
<1>1. msg \in Up /\ msg.type = "packet"
  BY DEF Up, Packet
<1>2. /\ PacketsIn(new) = PacketsIn(up) \cup {Len(up) + 1}
      /\ Len(up) \in Nat
      /\ new[Len(up) + 1] = msg
      /\ \A k \in PacketsIn(up) : k \in 1..Len(up) /\ new[k] = up[k]
  BY <1>1, UpAppend DEF PacketsIn
<1> HIDE DEF new
<1>3. \A k \in PacketsIn(up) : up[k].nr \in 1..taken
  BY DEF HandedTo
<1>4. ASSUME NEW k \in PacketsIn(new)
      PROVE  /\ new[k].nr \in 1..taken + 1 /\ new[k] = arr[new[k].nr]
             /\ new[k].port \in {0, host.port} /\ new[k].owners \subseteq {host.app}
  <2>1. CASE k \in PacketsIn(up)
    BY <1>2, <1>3, <2>1 DEF HandedTo
  <2>2. CASE k = Len(up) + 1
    BY <1>2, <2>2
  <2> QED BY <1>2, <2>1, <2>2
<1>5. ASSUME NEW j \in PacketsIn(new), NEW k \in PacketsIn(new), j < k
      PROVE  new[j].nr < new[k].nr
  <2>1. j \in PacketsIn(up)
    BY <1>2, <1>5
  <2>2. CASE k \in PacketsIn(up)
    BY <1>2, <1>5, <2>1, <2>2 DEF HandedTo
  <2>3. CASE k = Len(up) + 1
    <3>1. up[j].nr \in 1..taken /\ new[j] = up[j]
      BY <1>2, <1>3, <2>1
    <3>2. new[k] = msg
      BY <1>2, <2>3
    <3> QED BY <3>1, <3>2
  <2> QED BY <1>2, <2>2, <2>3
<1>6. ASSUME host.port # 0, NEW n \in 1..taken + 1, n > host.since
      PROVE  arr[n].port = host.port <=> \E k \in PacketsIn(new) : new[k].nr = n
  <2>1. CASE n = taken + 1
    BY <1>2, <2>1
  <2>2. CASE n \in 1..taken
    <3>1. arr[n].port = host.port <=> \E k \in PacketsIn(up) : up[k].nr = n
      BY <1>6, <2>2 DEF HandedTo
    <3>2. \A k \in PacketsIn(new) : new[k].nr = n => k \in PacketsIn(up)
      BY <1>2, <2>2
    <3> QED BY <1>2, <3>1, <3>2
  <2> QED BY <2>1, <2>2
<1>7. HandedTo(host, new, arr, taken + 1)
  BY <1>4, <1>5, <1>6 DEF HandedTo
<1> QED BY <1>7 DEF new

\* A packet for another port is read.
LEMMA HandedOther ==
    ASSUME NEW host \in Host, NEW up, NEW arr, NEW taken \in Nat,
           HandedTo(host, up, arr, taken),
           host.port = 0 \/ arr[taken + 1].port # host.port
    PROVE  HandedTo(host, up, arr, taken + 1)
<1>1. \A k \in PacketsIn(up) : up[k].nr \in 1..taken /\ up[k].nr \in 1..taken + 1
  BY DEF HandedTo
<1>2. ASSUME host.port # 0, NEW n \in 1..taken + 1, n > host.since
      PROVE  arr[n].port = host.port <=> \E k \in PacketsIn(up) : up[k].nr = n
  <2>1. CASE n = taken + 1
    BY <1>1, <1>2, <2>1
  <2>2. CASE n \in 1..taken
    BY <1>2, <2>2 DEF HandedTo
  <2> QED BY <2>1, <2>2
<1> QED BY <1>1, <1>2 DEF HandedTo

\* More packets come.
LEMMA HandedArrived ==
    ASSUME NEW host, NEW up, NEW arr, NEW new, NEW taken \in Nat,
           HandedTo(host, up, arr, taken), \A n \in 1..taken : new[n] = arr[n]
    PROVE  HandedTo(host, up, new, taken)
  BY DEF HandedTo

\* The slot is given its port.
LEMMA HandedGiven ==
    ASSUME NEW host, NEW given, NEW up, NEW arr, NEW taken \in Nat,
           HandedTo(host, up, arr, taken), host.port = 0,
           given.app = host.app, given.since = taken
    PROVE  HandedTo(given, up, arr, taken)
  BY DEF HandedTo

\* The first message is read, and it is no packet for the port of the slot.
LEMMA HandedTail ==
    ASSUME NEW host \in Host, NEW up \in Seq(Up), up # <<>>, NEW arr, NEW taken \in Nat,
           HandedTo(host, up, arr, taken),
           Head(up).type = "packet" => Head(up).port = 0
    PROVE  HandedTo(host, Tail(up), arr, taken)
<1> DEFINE new == Tail(up)
<1>1. /\ Head(up) = up[1] /\ Len(up) \in Nat /\ Len(new) = Len(up) - 1 /\ Len(up) > 0
      /\ \A k \in 1..Len(new) : new[k] = up[k + 1]
  BY TailFacts
<1> HIDE DEF new
<1>2. \A k \in PacketsIn(new) : k \in Nat /\ k + 1 \in PacketsIn(up) /\ new[k] = up[k + 1]
  BY <1>1 DEF PacketsIn
<1>3. ASSUME NEW k \in PacketsIn(up), k # 1
      PROVE  k - 1 \in PacketsIn(new) /\ new[k - 1] = up[k]
  <2>1. k \in 1..Len(up) /\ k - 1 \in 1..Len(new) /\ (k - 1) + 1 = k
    BY <1>1, <1>3 DEF PacketsIn
  <2> QED BY <1>1, <2>1 DEF PacketsIn
<1>4. ASSUME NEW j \in PacketsIn(new), NEW k \in PacketsIn(new), j < k
      PROVE  new[j].nr < new[k].nr
  <2>1. j + 1 < k + 1
    BY <1>2, <1>4
  <2> QED BY <1>2, <2>1 DEF HandedTo
<1>5. ASSUME host.port # 0, NEW n \in 1..taken, n > host.since
      PROVE  arr[n].port = host.port <=> \E k \in PacketsIn(new) : new[k].nr = n
  <2>1. arr[n].port = host.port <=> \E k \in PacketsIn(up) : up[k].nr = n
    BY <1>5 DEF HandedTo
  <2>2. ASSUME NEW k \in PacketsIn(up), up[k].nr = n, arr[n].port = host.port PROVE k # 1
    <3>1. up[k] = arr[n] /\ up[k].type = "packet"
      BY <2>2 DEF HandedTo, PacketsIn
    <3> QED BY <1>1, <1>5, <2>2, <3>1
  <2> QED BY <1>2, <1>3, <2>1, <2>2
<1>6. HandedTo(host, new, arr, taken)
  BY <1>2, <1>4, <1>5 DEF HandedTo
<1> QED BY <1>6 DEF new

\* The answer stays before the packets when more is written.
LEMMA EarlyAppend ==
    ASSUME NEW host, NEW x, NEW up \in Seq(Up), NEW msg \in Up, Early(host, x, up)
    PROVE  Early(host, x, Append(up, msg))
<1> DEFINE new == Append(up, msg)
<1>1. /\ Len(up) \in Nat /\ Len(new) = Len(up) + 1
      /\ \A k \in 1..Len(up) : new[k] = up[k]
  BY UpAppend
<1> HIDE DEF new
<1> SUFFICES ASSUME x.phase \notin {"ready", "left"}, host.port # 0
             PROVE  \E j \in 1..Len(new) :
                        /\ new[j].type = "answer" /\ new[j].approved
                        /\ \A k \in 1..j - 1 : new[k].type = "packet" => new[k].port = 0
  BY DEF Early, new
<1>2. PICK j \in 1..Len(up) :
        /\ up[j].type = "answer" /\ up[j].approved
        /\ \A k \in 1..j - 1 : up[k].type = "packet" => up[k].port = 0
  BY DEF Early
<1>3. j \in 1..Len(new) /\ \A k \in 1..j - 1 : k \in 1..Len(up)
  BY <1>1
<1> QED BY <1>1, <1>2, <1>3

\* The answer that approves is written when no packet for the port was.
LEMMA EarlyAnswer ==
    ASSUME NEW host, NEW x, NEW up \in Seq(Up), NEW msg \in Up,
           msg.type = "answer", msg.approved,
           \A k \in PacketsIn(up) : up[k].port = 0
    PROVE  Early(host, x, Append(up, msg))
<1> DEFINE new == Append(up, msg)
<1>1. /\ Len(up) \in Nat /\ Len(new) = Len(up) + 1
      /\ \A k \in 1..Len(up) : new[k] = up[k]
      /\ new[Len(up) + 1] = msg
  BY UpAppend
<1> HIDE DEF new
<1>2. \A k \in 1..Len(up) : new[k].type = "packet" => new[k].port = 0
  BY <1>1 DEF PacketsIn
<1>3. Len(up) + 1 \in 1..Len(new) /\ \A k \in 1..(Len(up) + 1) - 1 : k \in 1..Len(up)
  BY <1>1
<1>4. Early(host, x, new)
  BY <1>1, <1>2, <1>3 DEF Early
<1> QED BY <1>4 DEF new

\* Something else than an answer that approves is read.
LEMMA EarlyTail ==
    ASSUME NEW host, NEW x, NEW y, NEW up \in Seq(Up), up # <<>>,
           Early(host, x, up), x.phase \notin {"ready", "left"},
           ~(Head(up).type = "answer" /\ Head(up).approved)
    PROVE  Early(host, y, Tail(up))
<1> DEFINE new == Tail(up)
<1>1. /\ Head(up) = up[1] /\ Len(up) \in Nat /\ Len(new) = Len(up) - 1 /\ Len(up) > 0
      /\ \A k \in 1..Len(new) : new[k] = up[k + 1]
  BY TailFacts
<1> HIDE DEF new
<1> SUFFICES ASSUME host.port # 0
             PROVE  \E j \in 1..Len(new) :
                        /\ new[j].type = "answer" /\ new[j].approved
                        /\ \A k \in 1..j - 1 : new[k].type = "packet" => new[k].port = 0
  BY DEF Early, new
<1>2. PICK j \in 1..Len(up) :
        /\ up[j].type = "answer" /\ up[j].approved
        /\ \A k \in 1..j - 1 : up[k].type = "packet" => up[k].port = 0
  BY DEF Early
<1>3. j # 1
  BY <1>1, <1>2
<1>4. j - 1 \in 1..Len(new) /\ (j - 1) + 1 = j
  BY <1>1, <1>3
<1>5. \A k \in 1..(j - 1) - 1 : k \in 1..Len(new) /\ k + 1 \in 1..j - 1
  BY <1>1, <1>3
<1>6. new[j - 1].type = "answer" /\ new[j - 1].approved
  BY <1>1, <1>2, <1>4
<1>7. \A k \in 1..(j - 1) - 1 : new[k].type = "packet" => new[k].port = 0
  BY <1>1, <1>2, <1>5
<1> QED BY <1>4, <1>6, <1>7

-----------------------------------------------------------------------------
(* The steps of the applications *)

\* What an application does, seen from the outside: nothing of another one, and
\* it goes on in the exchange about its port.
LEMMA AppStep ==
    ASSUME HostsInv, status = "runs", NEW a \in Apps,
           UNCHANGED <<status, hosts, socket, revents, from_mip, arrived, to_mip>>,
           backlog' \in Seq(Apps), Wired',
           app' \in [Apps -> App], app'[a].tries <= Tries[a],
           outbox' \in [Apps -> Seq(Written)],
           inbox' \in [Apps -> Seq(Up)],
           \A x \in Apps : x # a =>
                app'[x] = app[x] /\ outbox'[x] = outbox[x] /\ inbox'[x] = inbox[x],
           app[a].phase = "left" => app'[a].phase = "left",
           app[a].misled => app'[a].misled,
           app'[a].misled => app[a].misled \/ \E n \in 1..Taken : arrived[n].port = 0,
           app[a].phase \in {"ready", "left"} =>
                \/ app'[a].misled
                \/ app'[a].phase \in {"ready", "left"} /\ app'[a].port = app[a].port,
           \A p : ~app'[a].misled /\ Stage(app[a], p, outbox[a], inbox[a])
                    => Stage(app'[a], p, outbox'[a], inbox'[a]),
           inbox[a] = <<>> => inbox'[a] = <<>> /\ app'[a].misled = app[a].misled,
           \A i \in Hosts : hosts[i].app = a =>
                SlotInv(hosts[i], app'[a], inbox'[a], arrived, Taken)
    PROVE  HostsInv'
<1>1. /\ TypeOK /\ OwnPort /\ MisledByPortZero /\ Wired /\ PortsUnique /\ Current
      /\ InTurn /\ OwnersHold /\ Stages /\ SlotsServed /\ PassedReady
  BY DEF HostsInv, RunInv
<1>2. /\ status' = status /\ hosts' = hosts /\ socket' = socket /\ revents' = revents
      /\ from_mip' = from_mip /\ arrived' = arrived /\ to_mip' = to_mip
  OBVIOUS
<1>3. Hosts' = Hosts /\ Taken' = Taken
  BY <1>2 DEF Hosts, Taken
<1>4. /\ \A i \in Hosts : hosts[i].app \in Apps
      /\ \A k \in 1..Len(to_mip) : to_mip[k].app \in Apps
  BY <1>1, HostFields, Typed DEF Passed
<1>5. TypeOK'
  BY <1>1, <1>2 DEF TypeOK, Up
<1>6. OwnPort' /\ PassedReady'
  <2>1. ASSUME NEW k \in 1..Len(to_mip)
        PROVE  /\ app'[to_mip[k].app].misled
                    \/ (to_mip[k].type = "message" /\ app'[to_mip[k].app].port = to_mip[k].port)
               /\ app'[to_mip[k].app].misled \/ app'[to_mip[k].app].phase \in {"ready", "left"}
    <3> DEFINE m == to_mip[k]
    <3>1. /\ app[m.app].misled \/ (m.type = "message" /\ app[m.app].port = m.port)
          /\ app[m.app].misled \/ app[m.app].phase \in {"ready", "left"}
      BY <1>1 DEF OwnPort, PassedReady
    <3>2. m.app \in Apps
      BY <1>4
    <3> HIDE DEF m
    <3>3. CASE m.app # a
      BY <3>1, <3>2, <3>3 DEF m
    <3>4. CASE m.app = a
      <4>1. CASE app'[a].misled
        BY <3>4, <4>1 DEF m
      <4>2. CASE ~app'[a].misled
        <5>1. m.type = "message" /\ app[a].port = m.port /\ app[a].phase \in {"ready", "left"}
          BY <3>1, <3>4, <4>2
        <5>2. app'[a].phase \in {"ready", "left"} /\ app'[a].port = app[a].port
          BY <4>2, <5>1
        <5> QED BY <3>4, <5>1, <5>2 DEF m
      <4> QED BY <4>1, <4>2
    <3> QED BY <3>3, <3>4
  <2>2. OwnPort'
    BY <1>1, <1>2, <2>1 DEF OwnPort
  <2>3. PassedReady'
    BY <1>1, <1>2, <2>1 DEF PassedReady
  <2> QED BY <2>2, <2>3
<1>7. MisledByPortZero'
  BY <1>1, <1>2, <1>3 DEF MisledByPortZero
<1>8. PortsUnique' /\ OwnersHold'
  BY <1>1, <1>2, <1>3 DEF PortsUnique, OwnersHold
<1>9. Current'
  <2> SUFFICES ASSUME NEW i \in Slots PROVE CurrentAt(i)'
    BY DEF Current
  <2>1. CurrentAt(i)
    BY <1>1 DEF Current
  <2> QED BY <1>2, <1>3, <1>4, <2>1 DEF CurrentAt
<1>10. InTurn'
  BY <1>1, <1>2, <1>3 DEF InTurn
<1>11. Stages'
  <2>1. ASSUME NEW i \in Hosts PROVE StageAt(i)'
    <3>1. StageAt(i) /\ hosts[i].app \in Apps
      BY <1>1, <1>4 DEF Stages
    <3>2. CASE hosts[i].app = a
      BY <1>2, <3>1, <3>2 DEF StageAt
    <3>3. CASE hosts[i].app # a
      BY <1>2, <3>1, <3>3 DEF StageAt
    <3> QED BY <3>2, <3>3
  <2>2. ASSUME NEW x \in Apps, \A i \in Hosts : hosts[i].app # x
        PROVE  ~app'[x].misled /\ inbox'[x] = <<>> /\ Stage(app'[x], 0, outbox'[x], <<>>)
    <3>1. ~app[x].misled /\ inbox[x] = <<>> /\ Stage(app[x], 0, outbox[x], <<>>)
      BY <1>1, <2>2 DEF Stages
    <3>2. CASE x = a
      BY <3>1, <3>2
    <3>3. CASE x # a
      BY <3>1, <3>3
    <3> QED BY <3>2, <3>3
  <2> QED BY <1>2, <1>3, <2>1, <2>2 DEF Stages
<1>12. SlotsServed'
  <2> SUFFICES ASSUME NEW i \in Hosts PROVE ServedAt(i)'
    BY <1>3 DEF SlotsServed
  <2>1. ServedAt(i) /\ hosts[i].app \in Apps
    BY <1>1, <1>4 DEF SlotsServed
  <2>2. CASE hosts[i].app = a
    BY <1>2, <1>3, <2>2 DEF ServedAt
  <2>3. CASE hosts[i].app # a
    BY <1>2, <1>3, <2>1, <2>3 DEF ServedAt
  <2> QED BY <2>2, <2>3
<1> QED BY <1>5, <1>6, <1>7, <1>8, <1>9, <1>10, <1>11, <1>12 DEF HostsInv, RunInv

\* An application that is not off goes on: who is behind a slot stays.
LEMMA WiredSame ==
    ASSUME TypeOK, Wired, NEW a \in Apps, app[a].phase # "off",
           UNCHANGED <<hosts, socket, backlog>>,
           app'[a].phase # "off", app[a].phase = "left" => app'[a].phase = "left",
           \A x \in Apps : x # a => app'[x] = app[x]
    PROVE  Wired'
<1>1. hosts' = hosts /\ socket' = socket /\ backlog' = backlog /\ Hosts' = Hosts
  BY DEF Hosts
<1>2. /\ \A i \in Hosts : hosts[i].app \in Apps
      /\ \A k \in 1..Len(backlog) : backlog[k] \in Apps
  BY HostFields, Typed
<1>3. \A x \in Apps : /\ app[x].phase # "off" => app'[x].phase # "off"
                      /\ app[x].phase = "left" => app'[x].phase = "left"
  OBVIOUS
<1>4. \A k \in 1..Len(backlog) : app'[backlog[k]].phase # "off"
  BY <1>2, <1>3 DEF Wired
<1>5. \A i \in Hosts : /\ app'[hosts[i].app].phase # "off"
                       /\ hosts[i].fd = 0 => app'[hosts[i].app].phase = "left"
                       /\ hosts[i].fd # 0 => socket[hosts[i].fd] = hosts[i].app
  BY <1>2, <1>3 DEF Wired
<1> QED BY <1>1, <1>4, <1>5 DEF Wired

\* The slots of an application that reads nothing and does not become ready.
LEMMA SlotsSame ==
    ASSUME HostsInv, status = "runs", NEW a \in Apps, inbox'[a] = inbox[a],
           app'[a].phase \in {"ready", "left"} \/ app[a].phase \notin {"ready", "left"},
           app[a].phase = "left" => app'[a].phase = "left"
    PROVE  \A i \in Hosts : hosts[i].app = a =>
                SlotInv(hosts[i], app'[a], inbox'[a], arrived, Taken)
<1> SUFFICES ASSUME NEW i \in Hosts, hosts[i].app = a
             PROVE  SlotInv(hosts[i], app'[a], inbox[a], arrived, Taken)
  OBVIOUS
<1>1. SlotInv(hosts[i], app[a], inbox[a], arrived, Taken)
  BY DEF HostsInv, RunInv, SlotsServed, ServedAt
<1> QED BY <1>1 DEF SlotInv, Early

\* An application asks for a port.
LEMMA AskStep ==
    ASSUME HostsInv, NEW a \in Apps, Ask(a)
    PROVE  HostsInv'
<1>1. TypeOK /\ Wired
  BY DEF HostsInv, RunInv, Ask, In
<1>2. /\ status = "runs" /\ app[a].phase = "connected" /\ app[a].tries # Tries[a]
      /\ app' = [app EXCEPT ![a].phase = "asking", ![a].tries = @ + 1]
      /\ UNCHANGED <<status, hosts, socket, revents, from_mip, arrived, to_mip>>
      /\ backlog' = backlog /\ inbox' = inbox
  BY DEF Ask, In, TriesOver, daemon
<1>3. PICK port \in Wanted[a] :
        outbox' = [outbox EXCEPT ![a] = Append(@, [type |-> "request", byte |-> port])]
  BY DEF Ask
<1> DEFINE req == [type |-> "request", byte |-> port]
<1>4. req \in Written /\ req.type = "request"
  BY AppsAssumption DEF Written, Ports
<1>5. app[a] \in App /\ app[a].tries \in Nat /\ app[a].tries <= Tries[a] /\ Tries[a] \in Nat
  BY <1>1, AppFields, AppsAssumption
<1>6. /\ app' \in [Apps -> App]
      /\ app'[a].phase = "asking" /\ app'[a].tries = app[a].tries + 1
      /\ app'[a].misled = app[a].misled
      /\ \A x \in Apps : x # a => app'[x] = app[x]
  <2> DEFINE n == app[a].tries + 1
             x == [app[a] EXCEPT !.phase = "asking", !.tries = n]
  <2>1. n \in Nat
    BY <1>5
  <2>2. app' = [app EXCEPT ![a] = x]
    BY <1>2
  <2> HIDE DEF n
  <2>3. x \in App /\ x.phase = "asking" /\ x.tries = n /\ x.misled = app[a].misled
    BY <1>5, <2>1 DEF App, Phases
  <2> HIDE DEF x
  <2> QED BY <1>1, <2>2, <2>3 DEF TypeOK, n
<1> HIDE DEF req
<1>7. /\ outbox[a] \in Seq(Written)
      /\ outbox'[a] = Append(outbox[a], req)
      /\ \A x \in Apps : x # a => outbox'[x] = outbox[x]
  BY <1>1, <1>3, AppFields DEF TypeOK, req
<1>8. /\ outbox'[a] \in Seq(Written)
      /\ outbox[a] = <<>> => Len(outbox'[a]) = 1 /\ outbox'[a][1] = req
  <2>1. /\ outbox'[a] \in Seq(Written) /\ Len(outbox'[a]) = Len(outbox[a]) + 1
        /\ outbox'[a][Len(outbox[a]) + 1] = req
    BY <1>4, <1>7, AppendFacts
  <2>2. outbox[a] = <<>> => Len(outbox[a]) = 0
    BY EmptyFacts
  <2> QED BY <2>1, <2>2
<1>9. outbox' \in [Apps -> Seq(Written)]
  BY <1>1, <1>3, <1>7, <1>8 DEF TypeOK
<1>10. \A p : Stage(app[a], p, outbox[a], inbox[a]) => Idle(app[a], p, outbox[a], inbox[a])
  BY <1>2 DEF Stage, Asked, Answered, Ready, Gone
<1>11. \A p : Idle(app[a], p, outbox[a], inbox[a]) => Asked(app'[a], p, outbox'[a], inbox'[a])
  BY <1>2, <1>4, <1>6, <1>8 DEF Idle, Asked
<1>12. \A p : Stage(app[a], p, outbox[a], inbox[a]) => Stage(app'[a], p, outbox'[a], inbox'[a])
  BY <1>10, <1>11 DEF Stage
<1>13. app'[a].tries <= Tries[a]
  BY <1>2, <1>5, <1>6
<1>14. inbox' \in [Apps -> Seq(Up)] /\ backlog' \in Seq(Apps)
  BY <1>1, <1>2 DEF TypeOK, Up
<1>15. Wired'
  BY <1>1, <1>2, <1>6, WiredSame
<1>16. \A i \in Hosts : hosts[i].app = a => SlotInv(hosts[i], app'[a], inbox'[a], arrived, Taken)
  BY <1>2, SlotsSame
<1> QED BY <1>2, <1>6, <1>7, <1>9, <1>12, <1>13, <1>14, <1>15, <1>16, AppStep

\* What an application reads where it waits for its answer is the answer, or a
\* packet for port 0.
LEMMA ReadFirst ==
    ASSUME HostsInv, status = "runs", NEW a \in Apps, app[a].phase = "asking",
           inbox[a] # <<>>, Head(inbox[a]).type = "packet"
    PROVE  Head(inbox[a]).port = 0 /\ \E n \in 1..Taken : arrived[n].port = 0
<1>1. TypeOK /\ Stages /\ SlotsServed
  BY DEF HostsInv, RunInv
<1>2. PICK i \in Hosts : hosts[i].app = a
  BY <1>1 DEF Stages
<1>3. Early(hosts[i], app[a], inbox[a]) /\ HandedTo(hosts[i], inbox[a], arrived, Taken)
  BY <1>1, <1>2 DEF SlotsServed, ServedAt, SlotInv
<1> DEFINE up == inbox[a]
<1>4. up \in Seq(Up) /\ up # <<>>
  BY <1>1, AppFields
<1> HIDE DEF up
<1>5. Head(up) = up[1] /\ Len(up) \in Nat /\ Len(up) > 0
  BY <1>4, TailFacts
<1>6. up[1].type = "packet"
  BY <1>5 DEF up
<1>7. 1 \in PacketsIn(up)
  BY <1>5, <1>6 DEF PacketsIn
<1>8. up[1].nr \in 1..Taken /\ up[1] = arrived[up[1].nr] /\ up[1].port \in {0, hosts[i].port}
  BY <1>3, <1>7 DEF HandedTo, up
<1>9. up[1].port = 0
  <2> SUFFICES ASSUME hosts[i].port # 0 PROVE up[1].port = 0
    BY <1>8
  <2>1. PICK j \in 1..Len(up) :
          /\ up[j].type = "answer" /\ up[j].approved
          /\ \A k \in 1..j - 1 : up[k].type = "packet" => up[k].port = 0
    BY <1>3 DEF Early, up
  <2>2. j # 1
    BY <1>6, <2>1
  <2>3. 1 \in 1..j - 1
    BY <1>5, <2>2
  <2> QED BY <1>6, <2>1, <2>3
<1> QED BY <1>5, <1>8, <1>9 DEF up

\* An application that has a request unanswered reads.
LEMMA ReadAnswerStep ==
    ASSUME HostsInv, NEW a \in Apps, ReadAnswer(a)
    PROVE  HostsInv'
<1> DEFINE msg == Head(inbox[a])
           phase == IF Approved(msg) THEN "ready" ELSE "connected"
           port == IF Approved(msg) THEN my_port(msg) ELSE app[a].port
           misled == app[a].misled \/ msg.type # "answer"
<1>1. TypeOK /\ Wired /\ InTurn /\ Stages /\ SlotsServed /\ status = "runs"
  BY DEF HostsInv, RunInv, ReadAnswer, In
<1>2. /\ app[a].phase = "asking" /\ inbox[a] # <<>>
      /\ app' = [app EXCEPT ![a].phase = phase, ![a].port = port, ![a].misled = misled]
      /\ inbox' = [inbox EXCEPT ![a] = Tail(@)]
      /\ UNCHANGED <<status, hosts, socket, revents, from_mip, arrived, to_mip>>
      /\ backlog' = backlog /\ outbox' = outbox
  BY DEF ReadAnswer, In, daemon
<1>3. inbox[a] \in Seq(Up) /\ app[a] \in App /\ app[a].misled \in BOOLEAN /\ app[a].port \in Ports
  BY <1>1, AppFields
<1>4. /\ msg = inbox[a][1] /\ msg \in Up
      /\ Tail(inbox[a]) \in Seq(Up)
      /\ Len(Tail(inbox[a])) = Len(inbox[a]) - 1
      /\ Len(inbox[a]) \in Nat /\ Len(inbox[a]) > 0
      /\ \A k \in 1..Len(Tail(inbox[a])) : Tail(inbox[a])[k] = inbox[a][k + 1]
  BY <1>2, <1>3, TailFacts
<1>5. /\ msg.type \in {"answer", "packet"} /\ my_port(msg) \in Ports
      /\ msg.type = "answer" => Approved(msg) = msg.approved /\ my_port(msg) = msg.port
  BY <1>4 DEF Up, Answer, Packet, Source, Approved, my_port
<1>6. msg.type = "packet" => msg.port = 0 /\ \E n \in 1..Taken : arrived[n].port = 0
  BY <1>1, <1>2, ReadFirst
<1>7. /\ phase \in {"ready", "connected"} /\ port \in Ports /\ misled \in BOOLEAN
      /\ phase = "ready" <=> Approved(msg)
      /\ Approved(msg) => port = my_port(msg)
      /\ misled <=> app[a].misled \/ msg.type = "packet"
  BY <1>3, <1>5
<1> HIDE DEF msg, phase, port, misled
<1>8. /\ app' \in [Apps -> App]
      /\ app'[a].phase = phase /\ app'[a].port = port /\ app'[a].misled = misled
      /\ app'[a].tries = app[a].tries
      /\ \A x \in Apps : x # a => app'[x] = app[x]
  <2> DEFINE x == [app[a] EXCEPT !.phase = phase, !.port = port, !.misled = misled]
  <2>1. app' = [app EXCEPT ![a] = x]
    BY <1>2
  <2>2. /\ x \in App /\ x.phase = phase /\ x.port = port /\ x.misled = misled
        /\ x.tries = app[a].tries
    BY <1>3, <1>7 DEF App, Phases
  <2> HIDE DEF x
  <2> QED BY <1>1, <2>1, <2>2 DEF TypeOK
<1>9. /\ inbox' \in [Apps -> Seq(Up)]
      /\ inbox'[a] = Tail(inbox[a])
      /\ \A x \in Apps : x # a => inbox'[x] = inbox[x]
  BY <1>1, <1>2, <1>4 DEF TypeOK, Up
<1>10. ASSUME NEW p, ~misled, Stage(app[a], p, outbox[a], inbox[a])
       PROVE  Stage(app'[a], p, outbox'[a], inbox'[a])
  <2>1. msg.type = "answer" /\ inbox[a][1].type = "answer" /\ ~app[a].misled
    BY <1>4, <1>5, <1>7, <1>10
  <2>2. ~Idle(app[a], p, outbox[a], inbox[a]) /\ ~Asked(app[a], p, outbox[a], inbox[a])
    BY <1>4, <2>1 DEF Idle, Asked
  <2>3. Answered(app[a], p, outbox[a], inbox[a])
    BY <1>2, <1>10, <2>2 DEF Stage, Ready, Gone
  <2>4. PICK j \in 1..Len(inbox[a]) :
          /\ inbox[a][j].type = "answer" /\ inbox[a][j].port = p
          /\ inbox[a][j].approved = (p # 0)
          /\ \A k \in 1..Len(inbox[a]) : k # j => inbox[a][k].type = "packet"
    BY <2>3 DEF Answered
  <2>5. j = 1
    BY <1>4, <2>1, <2>4
  <2>6. my_port(msg) = p /\ Approved(msg) = (p # 0)
    BY <1>4, <1>5, <2>1, <2>4, <2>5
  <2>7. outbox'[a] = <<>> /\ Len(outbox'[a]) = 0
    BY <1>2, <2>3, EmptyFacts DEF Answered
  <2>8. \A k \in 1..Len(inbox'[a]) : inbox'[a][k].type = "packet"
    <3>1. \A k \in 1..Len(inbox'[a]) : /\ k + 1 \in 1..Len(inbox[a]) /\ k + 1 # 1
                                       /\ inbox'[a][k] = inbox[a][k + 1]
      BY <1>4, <1>9
    <3> QED BY <2>4, <2>5, <3>1
  <2>9. CASE p # 0
    <3>1. app'[a].phase = "ready" /\ app'[a].port = p
      BY <1>7, <1>8, <2>6, <2>9
    <3>2. \A k \in 1..Len(outbox'[a]) : FALSE
      BY <2>7
    <3>3. Ready(app'[a], p, outbox'[a])
      BY <2>9, <3>1, <3>2 DEF Ready
    <3> QED BY <3>3 DEF Stage
  <2>10. CASE p = 0
    <3>1. Idle(app'[a], p, outbox'[a], inbox'[a])
      BY <1>7, <1>8, <2>6, <2>7, <2>8, <2>10 DEF Idle
    <3> QED BY <3>1 DEF Stage
  <2> QED BY <2>9, <2>10
<1>11. ASSUME NEW i \in Hosts, hosts[i].app = a
       PROVE  SlotInv(hosts[i], app'[a], inbox'[a], arrived, Taken)
  <2>1. hosts[i] \in Host /\ Taken \in Nat
    BY <1>1, HostFields, TakenFacts
  <2>2. Early(hosts[i], app[a], inbox[a]) /\ HandedTo(hosts[i], inbox[a], arrived, Taken)
    BY <1>1, <1>2, <1>11 DEF SlotsServed, ServedAt, SlotInv
  <2>3. Head(inbox[a]).type = "packet" => Head(inbox[a]).port = 0
    BY <1>6 DEF msg
  <2>4. HandedTo(hosts[i], Tail(inbox[a]), arrived, Taken)
    BY <1>2, <1>3, <2>1, <2>2, <2>3, HandedTail
  <2>5. Early(hosts[i], app'[a], Tail(inbox[a]))
    <3>1. CASE Approved(msg)
      BY <1>7, <1>8, <3>1 DEF Early
    <3>2. CASE ~Approved(msg)
      <4>1. ~(Head(inbox[a]).type = "answer" /\ Head(inbox[a]).approved)
        BY <1>5, <3>2 DEF msg
      <4>2. app[a].phase \notin {"ready", "left"}
        BY <1>2
      <4> QED BY <1>2, <1>3, <2>2, <4>1, <4>2, EarlyTail
    <3> QED BY <3>1, <3>2
  <2> QED BY <1>9, <2>4, <2>5 DEF SlotInv
<1>12. app'[a].tries <= Tries[a]
  BY <1>1, <1>8, AppFields
<1>13. outbox' \in [Apps -> Seq(Written)] /\ backlog' \in Seq(Apps)
  BY <1>1, <1>2 DEF TypeOK
<1>14. Wired'
  <2>1. app'[a].phase # "off" /\ app[a].phase \notin {"off", "left"}
    BY <1>2, <1>7, <1>8
  <2> QED BY <1>1, <1>2, <1>8, <2>1, WiredSame
<1>15. /\ app[a].misled => app'[a].misled
       /\ app'[a].misled => app[a].misled \/ \E n \in 1..Taken : arrived[n].port = 0
       /\ app[a].phase \notin {"ready", "left"}
       /\ \A p : ~app'[a].misled /\ Stage(app[a], p, outbox[a], inbox[a])
                    => Stage(app'[a], p, outbox'[a], inbox'[a])
       /\ outbox' = outbox
  BY <1>2, <1>6, <1>7, <1>8, <1>10
<1> QED BY <1>1, <1>2, <1>8, <1>9, <1>11, <1>12, <1>13, <1>14, <1>15, AppStep

\* An application ends.
LEMMA LeaveStep ==
    ASSUME HostsInv, NEW a \in Apps, GiveUp(a) \/ Leave(a)
    PROVE  HostsInv'
<1>1. TypeOK /\ Wired
  BY DEF HostsInv, RunInv, GiveUp, Leave, In
<1>2. /\ status = "runs" /\ app[a].phase \in {"connected", "asking", "ready"}
      /\ app' = [app EXCEPT ![a].phase = "left"]
      /\ UNCHANGED <<status, hosts, socket, revents, from_mip, arrived, to_mip>>
      /\ backlog' = backlog /\ inbox' = inbox /\ outbox' = outbox
  BY DEF GiveUp, Leave, In, daemon
<1>3. app[a] \in App /\ app[a].tries <= Tries[a]
  BY <1>1, AppFields
<1>4. /\ app' \in [Apps -> App]
      /\ app'[a].phase = "left" /\ app'[a].tries = app[a].tries
      /\ app'[a].port = app[a].port /\ app'[a].misled = app[a].misled
      /\ \A x \in Apps : x # a => app'[x] = app[x]
  BY <1>1, <1>2, <1>3 DEF TypeOK, App, Phases
<1>5. \A p : Stage(app[a], p, outbox[a], inbox[a]) => Stage(app'[a], p, outbox'[a], inbox'[a])
  BY <1>2, <1>4 DEF Stage, Idle, Asked, Answered, Ready, Gone
<1>6. /\ inbox' \in [Apps -> Seq(Up)] /\ outbox' \in [Apps -> Seq(Written)]
      /\ backlog' \in Seq(Apps)
  BY <1>1, <1>2 DEF TypeOK, Up
<1>7. Wired'
  BY <1>1, <1>2, <1>4, WiredSame
<1>8. \A i \in Hosts : hosts[i].app = a => SlotInv(hosts[i], app'[a], inbox'[a], arrived, Taken)
  BY <1>2, <1>4, SlotsSame
<1> QED BY <1>2, <1>3, <1>4, <1>5, <1>6, <1>7, <1>8, AppStep

\* An application writes a message.
LEMMA WriteStep ==
    ASSUME HostsInv, NEW a \in Apps, Write(a)
    PROVE  HostsInv'
<1> DEFINE m == [type |-> "message", byte |-> Dst[a]]
<1>1. TypeOK /\ Wired
  BY DEF HostsInv, RunInv, Write, In
<1>2. /\ status = "runs" /\ app[a].phase = "ready"
      /\ app' = [app EXCEPT ![a].written = @ + 1]
      /\ outbox' = [outbox EXCEPT ![a] = Append(@, m)]
      /\ UNCHANGED <<status, hosts, socket, revents, from_mip, arrived, to_mip>>
      /\ backlog' = backlog /\ inbox' = inbox
  BY DEF Write, In, daemon
<1>3. m \in Written /\ m.type = "message"
  BY AppsAssumption DEF Written
<1>4. app[a] \in App /\ app[a].tries <= Tries[a] /\ app[a].written \in Nat
  BY <1>1, AppFields
<1> HIDE DEF m
<1>5. /\ app' \in [Apps -> App]
      /\ app'[a].phase = "ready" /\ app'[a].tries = app[a].tries
      /\ app'[a].port = app[a].port /\ app'[a].misled = app[a].misled
      /\ \A x \in Apps : x # a => app'[x] = app[x]
  <2> DEFINE n == app[a].written + 1
             x == [app[a] EXCEPT !.written = n]
  <2>1. n \in Nat
    BY <1>4
  <2>2. app' = [app EXCEPT ![a] = x]
    BY <1>2
  <2> HIDE DEF n
  <2>3. /\ x \in App /\ x.phase = app[a].phase /\ x.tries = app[a].tries
        /\ x.port = app[a].port /\ x.misled = app[a].misled
    BY <1>4, <2>1 DEF App
  <2> HIDE DEF x
  <2> QED BY <1>1, <1>2, <2>2, <2>3 DEF TypeOK
<1>6. /\ outbox[a] \in Seq(Written)
      /\ outbox'[a] = Append(outbox[a], m)
      /\ \A x \in Apps : x # a => outbox'[x] = outbox[x]
  BY <1>1, <1>2, AppFields DEF TypeOK
<1>7. /\ outbox'[a] \in Seq(Written)
      /\ Len(outbox[a]) \in Nat /\ Len(outbox'[a]) = Len(outbox[a]) + 1
      /\ \A k \in 1..Len(outbox[a]) : outbox'[a][k] = outbox[a][k]
      /\ outbox'[a][Len(outbox[a]) + 1] = m
  BY <1>3, <1>6, AppendFacts
<1>8. outbox' \in [Apps -> Seq(Written)]
  BY <1>1, <1>2, <1>6, <1>7 DEF TypeOK
<1>9. \A p : Ready(app[a], p, outbox[a]) => Ready(app'[a], p, outbox'[a])
  BY <1>2, <1>3, <1>5, <1>7 DEF Ready
<1>10. \A p : Stage(app[a], p, outbox[a], inbox[a]) => Stage(app'[a], p, outbox'[a], inbox'[a])
  BY <1>2, <1>9 DEF Stage, Idle, Asked, Answered, Gone
<1>11. inbox' \in [Apps -> Seq(Up)] /\ backlog' \in Seq(Apps)
  BY <1>1, <1>2 DEF TypeOK, Up
<1>12. Wired'
  BY <1>1, <1>2, <1>5, WiredSame
<1>13. \A i \in Hosts : hosts[i].app = a => SlotInv(hosts[i], app'[a], inbox'[a], arrived, Taken)
  BY <1>2, <1>5, SlotsSame
<1> QED BY <1>2, <1>4, <1>5, <1>6, <1>8, <1>10, <1>11, <1>12, <1>13, AppStep

\* An application connects: it has written and been told nothing.
LEMMA ConnectStep ==
    ASSUME HostsInv, NEW a \in Apps, Connect(a)
    PROVE  HostsInv'
<1>1. TypeOK /\ Wired /\ status = "runs"
  BY DEF HostsInv, RunInv, Connect, In
<1>2. /\ app[a].phase = "off"
      /\ backlog' = Append(backlog, a)
      /\ app' = [app EXCEPT ![a].phase = "connected"]
      /\ UNCHANGED <<status, hosts, socket, revents, from_mip, arrived, to_mip>>
      /\ inbox' = inbox /\ outbox' = outbox
  BY DEF Connect, In, daemon
<1>3. app[a] \in App /\ app[a].tries <= Tries[a]
  BY <1>1, AppFields
<1>4. /\ app' \in [Apps -> App]
      /\ app'[a].phase = "connected" /\ app'[a].tries = app[a].tries
      /\ app'[a].port = app[a].port /\ app'[a].misled = app[a].misled
      /\ \A x \in Apps : x # a => app'[x] = app[x]
  BY <1>1, <1>2, <1>3 DEF TypeOK, App, Phases
<1>5. /\ backlog' \in Seq(Apps)
      /\ Len(backlog) \in Nat /\ Len(backlog') = Len(backlog) + 1
      /\ \A k \in 1..Len(backlog) : backlog'[k] = backlog[k] /\ backlog[k] \in Apps
      /\ backlog'[Len(backlog) + 1] = a
  BY <1>1, <1>2, Typed, AppendFacts
<1>6. \A k \in 1..Len(backlog') : k \in 1..Len(backlog) \/ k = Len(backlog) + 1
  BY <1>5
<1>7. /\ \A i \in Hosts : hosts[i].app # a /\ hosts[i].app \in Apps
      /\ \A k \in 1..Len(backlog) : backlog[k] # a
  BY <1>1, <1>2, HostFields DEF Wired
<1>8. Wired'
  <2>1. Hosts' = Hosts /\ hosts' = hosts /\ socket' = socket
    BY <1>2 DEF Hosts
  <2>2. \A k, l \in 1..Len(backlog') : backlog'[k] = backlog'[l] => k = l
    BY <1>1, <1>5, <1>6, <1>7 DEF Wired
  <2>3. \A k \in 1..Len(backlog'), i \in Hosts : hosts[i].app # backlog'[k]
    BY <1>1, <1>5, <1>6, <1>7 DEF Wired
  <2>4. \A k \in 1..Len(backlog') : app'[backlog'[k]].phase # "off"
    BY <1>1, <1>4, <1>5, <1>6, <1>7 DEF Wired
  <2>5. \A i \in Hosts : app'[hosts[i].app] = app[hosts[i].app]
    BY <1>4, <1>7
  <2>6. \A i \in Hosts : /\ app'[hosts[i].app].phase # "off"
                         /\ hosts[i].fd = 0 => app'[hosts[i].app].phase = "left"
                         /\ hosts[i].fd # 0 => socket[hosts[i].fd] = hosts[i].app
    BY <1>1, <2>5 DEF Wired
  <2>7. \A i, j \in Hosts : hosts[i].app = hosts[j].app => i = j
    BY <1>1 DEF Wired
  <2> QED BY <2>1, <2>2, <2>3, <2>4, <2>6, <2>7 DEF Wired
<1>9. \A p : Stage(app[a], p, outbox[a], inbox[a]) => Stage(app'[a], p, outbox'[a], inbox'[a])
  BY <1>2, <1>4 DEF Stage, Idle, Asked, Answered, Ready, Gone
<1>10. inbox' \in [Apps -> Seq(Up)] /\ outbox' \in [Apps -> Seq(Written)]
  BY <1>1, <1>2 DEF TypeOK, Up
<1>11. \A i \in Hosts : hosts[i].app = a => SlotInv(hosts[i], app'[a], inbox'[a], arrived, Taken)
  BY <1>7
<1> QED BY <1>1, <1>2, <1>3, <1>4, <1>5, <1>8, <1>9, <1>10, <1>11, AppStep

-----------------------------------------------------------------------------
(* The steps of the network and the daemon *)

\* Nothing happens.
LEMMA StutterStep ==
    ASSUME HostsInv, UNCHANGED vars
    PROVE  HostsInv'
<1>1. UNCHANGED <<status, hosts, socket, revents, backlog, app, inbox, outbox,
                  from_mip, arrived, to_mip>>
  BY DEF vars
<1>2. Hosts' = Hosts /\ Taken' = Taken
  BY <1>1 DEF Hosts, Taken
<1>3. TypeOK' = TypeOK /\ OwnPort' = OwnPort /\ MisledByPortZero' = MisledByPortZero
  BY <1>1, <1>2 DEF TypeOK, OwnPort, MisledByPortZero
<1>4. Wired' = Wired /\ PortsUnique' = PortsUnique /\ OwnersHold' = OwnersHold
  BY <1>1, <1>2 DEF Wired, PortsUnique, OwnersHold
<1>5. Current' = Current /\ InTurn' = InTurn /\ PassedReady' = PassedReady
  BY <1>1, <1>2 DEF Current, CurrentAt, InTurn, PassedReady
<1>6. Stages' = Stages /\ SlotsServed' = SlotsServed
  BY <1>1, <1>2 DEF Stages, StageAt, SlotsServed, ServedAt
<1> QED BY <1>1, <1>3, <1>4, <1>5, <1>6 DEF HostsInv, RunInv

\* The daemon stops, or goes wrong because its array is full.
LEMMA StopStep ==
    ASSUME HostsInv, MipGone \/ AcceptNoRoom
    PROVE  HostsInv'
<1>1. /\ status' \in {"done", "undefined"}
      /\ UNCHANGED <<hosts, socket, revents, app, inbox, outbox, from_mip, arrived, to_mip>>
      /\ backlog' = backlog \/ (backlog # <<>> /\ backlog' = Tail(backlog))
  BY DEF MipGone, AcceptNoRoom
<1>2. TypeOK /\ OwnPort /\ MisledByPortZero
  BY DEF HostsInv
<1>3. backlog' \in Seq(Apps)
  BY <1>1, <1>2, Typed, TailFacts
<1>4. TypeOK'
  BY <1>1, <1>2, <1>3 DEF TypeOK
<1>5. Taken' = Taken
  BY <1>1 DEF Taken
<1>6. OwnPort' /\ MisledByPortZero'
  BY <1>1, <1>2, <1>5 DEF OwnPort, MisledByPortZero
<1> QED BY <1>1, <1>4, <1>6 DEF HostsInv

\* A packet is put behind those that came before.
LEMMA ArriveStep ==
    ASSUME HostsInv, Arrive
    PROVE  HostsInv'
<1>1. /\ TypeOK /\ OwnPort /\ MisledByPortZero /\ Wired /\ PortsUnique /\ Current
      /\ InTurn /\ OwnersHold /\ Stages /\ SlotsServed /\ PassedReady
  BY DEF HostsInv, RunInv, Arrive
<1>2. PICK port \in PacketPorts, source \in Sources :
        LET packet == [type |-> "packet", nr |-> Len(arrived) + 1, port |-> port,
                       from |-> source, owners |-> Owners(port)]
        IN  /\ arrived' = Append(arrived, packet)
            /\ from_mip' = Append(from_mip, packet)
  BY DEF Arrive
<1>3. /\ status' = status /\ hosts' = hosts /\ socket' = socket /\ revents' = revents
      /\ backlog' = backlog /\ app' = app /\ inbox' = inbox /\ outbox' = outbox
      /\ to_mip' = to_mip
  BY DEF Arrive
<1> DEFINE n == Len(arrived) + 1
           owners == Owners(port)
           packet == [type |-> "packet", nr |-> n, port |-> port, from |-> source,
                      owners |-> owners]
<1>4. /\ n \in Nat /\ port \in Ports /\ source \in Source
      /\ Len(arrived) \in Nat /\ Len(from_mip) \in Nat /\ Len(hosts) \in Nat
  BY <1>1, Typed, NetworkAssumption
<1>5. \A x \in owners : /\ x \in Apps
                        /\ \E i \in Hosts : hosts[i].app = x /\ hosts[i].port = port /\ port # 0
  BY <1>1, HostFields DEF Owners, Hosts
<1>6. arrived' = Append(arrived, packet) /\ from_mip' = Append(from_mip, packet)
  BY <1>2
<1> HIDE DEF n, owners
<1>7. packet \in Packet /\ packet.nr = n /\ packet.port = port /\ packet.owners = owners
  BY <1>4, <1>5 DEF Packet
<1> HIDE DEF packet
<1>8. /\ arrived' \in Seq(Packet) /\ Len(arrived') = Len(arrived) + 1
      /\ \A k \in 1..Len(arrived) : arrived'[k] = arrived[k]
      /\ arrived'[Len(arrived) + 1] = packet
  BY <1>1, <1>6, <1>7, Typed, AppendFacts
<1>9. /\ from_mip' \in Seq(Packet) /\ Len(from_mip') = Len(from_mip) + 1
      /\ \A k \in 1..Len(from_mip) : from_mip'[k] = from_mip[k]
      /\ from_mip'[Len(from_mip) + 1] = packet
  BY <1>1, <1>6, <1>7, Typed, AppendFacts
<1>10. Taken \in Nat /\ Taken <= Len(arrived) /\ Taken + Len(from_mip) = Len(arrived)
  BY <1>1, TakenFacts
<1>11. Hosts' = Hosts /\ Taken' = Taken
  BY <1>3, <1>4, <1>8, <1>9 DEF Hosts, Taken
<1>12. TypeOK'
  BY <1>1, <1>3, <1>8, <1>9 DEF TypeOK
<1>13. OwnPort' /\ PassedReady'
  BY <1>1, <1>3, <1>11 DEF OwnPort, PassedReady
<1>14. \A k \in 1..Taken : arrived'[k] = arrived[k]
  BY <1>4, <1>8, <1>10
<1>15. MisledByPortZero'
  BY <1>1, <1>3, <1>11, <1>14 DEF MisledByPortZero
<1>16. Wired' /\ PortsUnique'
  BY <1>1, <1>3, <1>11 DEF Wired, PortsUnique
<1>17. Current'
  BY <1>1, <1>3, <1>11 DEF Current, CurrentAt
<1>18. InTurn'
  <2>1. Len(from_mip') <= Len(arrived')
    BY <1>4, <1>8, <1>9, <1>10
  <2>2. ASSUME NEW k \in 1..Len(from_mip') PROVE from_mip'[k] = arrived'[Taken + k]
    <3>1. CASE k \in 1..Len(from_mip)
      <4>1. Taken + k \in 1..Len(arrived)
        BY <1>4, <1>10, <3>1
      <4> QED BY <1>1, <1>8, <1>9, <3>1, <4>1 DEF InTurn
    <3>2. CASE k = Len(from_mip) + 1
      <4>1. Taken + k = Len(arrived) + 1
        BY <1>4, <1>10, <3>2
      <4> QED BY <1>8, <1>9, <3>2, <4>1
    <3> QED BY <1>4, <1>9, <3>1, <3>2
  <2>3. ASSUME NEW k \in 1..Len(arrived') PROVE arrived'[k].nr = k
    <3>1. k \in 1..Len(arrived) \/ k = Len(arrived) + 1
      BY <1>4, <1>8
    <3> QED BY <1>1, <1>7, <1>8, <3>1 DEF InTurn, n
  <2> QED BY <1>11, <2>1, <2>2, <2>3 DEF InTurn
<1>19. OwnersHold'
  <2> SUFFICES ASSUME NEW k \in 1..Len(arrived'), NEW x \in arrived'[k].owners
               PROVE  \E i \in Hosts : /\ hosts[i].app = x
                                       /\ hosts[i].port = arrived'[k].port /\ hosts[i].port # 0
    BY <1>3, <1>11 DEF OwnersHold
  <2>1. CASE k \in 1..Len(arrived)
    BY <1>1, <1>8, <2>1 DEF OwnersHold
  <2>2. CASE k = Len(arrived) + 1
    BY <1>5, <1>7, <1>8, <2>2
  <2> QED BY <1>4, <1>8, <2>1, <2>2
<1>20. Stages'
  BY <1>1, <1>3, <1>11 DEF Stages, StageAt
<1>21. SlotsServed'
  <2> SUFFICES ASSUME NEW i \in Hosts PROVE ServedAt(i)'
    BY <1>11 DEF SlotsServed
  <2>1. SlotInv(hosts[i], app[hosts[i].app], inbox[hosts[i].app], arrived, Taken)
    BY <1>1 DEF SlotsServed, ServedAt
  <2> DEFINE new == arrived'
  <2>2. \A k \in 1..Taken : new[k] = arrived[k]
    BY <1>14
  <2> HIDE DEF new
  <2>3. SlotInv(hosts[i], app[hosts[i].app], inbox[hosts[i].app], new, Taken)
    BY <1>10, <2>1, <2>2, HandedArrived DEF SlotInv
  <2> QED BY <1>3, <1>11, <2>3 DEF ServedAt, new
<1> QED BY <1>12, <1>13, <1>15, <1>16, <1>17, <1>18, <1>19, <1>20, <1>21 DEF HostsInv, RunInv

\* What poll reports is so.
LEMMA PollStep ==
    ASSUME HostsInv, Poll
    PROVE  HostsInv'
<1>1. /\ TypeOK /\ OwnPort /\ MisledByPortZero /\ Wired /\ PortsUnique /\ Current
      /\ InTurn /\ OwnersHold /\ Stages /\ SlotsServed /\ PassedReady
  BY DEF HostsInv, RunInv, Poll, Polls
<1>2. /\ revents' = [i \in Slots |-> IF i <= Len(hosts) THEN Event(i) ELSE "none"]
      /\ UNCHANGED <<status, hosts, socket, backlog, app, inbox, outbox,
                     from_mip, arrived, to_mip>>
  BY DEF Poll
<1>3. Hosts' = Hosts /\ Taken' = Taken
  BY <1>2 DEF Hosts, Taken
<1>4. TypeOK'
  <2>1. \A i \in Slots : Event(i) \in {"none", "in", "hup"}
    BY DEF Event
  <2> QED BY <1>1, <1>2, <2>1 DEF TypeOK
<1>5. Current'
  <2> SUFFICES ASSUME NEW i \in Slots, revents'[i] # "none"
               PROVE  /\ i \in Hosts /\ hosts[i].fd # 0
                      /\ revents'[i] = "hup" => app[hosts[i].app].phase = "left"
    BY <1>2, <1>3 DEF Current, CurrentAt
  <2>1. i \in Hosts /\ revents'[i] = Event(i)
    BY <1>1, <1>2, Typed, BoundsAssumption DEF Hosts, Slots
  <2>2. Behind(hosts[i].fd) # NoApp
    BY <2>1 DEF Event
  <2>3. hosts[i].fd # 0 /\ Behind(hosts[i].fd) = hosts[i].app
    BY <1>1, <2>1, <2>2, ClientFacts DEF Client
  <2> QED BY <2>1, <2>3 DEF Event
<1>6. OwnPort' /\ MisledByPortZero' /\ Wired' /\ PortsUnique' /\ InTurn' /\ OwnersHold'
  BY <1>1, <1>2, <1>3 DEF OwnPort, MisledByPortZero, Wired, PortsUnique, InTurn, OwnersHold
<1>7. Stages' /\ SlotsServed' /\ PassedReady'
  BY <1>1, <1>2, <1>3 DEF Stages, StageAt, SlotsServed, ServedAt, PassedReady
<1> QED BY <1>4, <1>5, <1>6, <1>7 DEF HostsInv, RunInv

\* A new slot is that of the first connection that waits, which was told nothing.
LEMMA AcceptStep ==
    ASSUME HostsInv, Accept
    PROVE  HostsInv'
<1>1. /\ TypeOK /\ OwnPort /\ MisledByPortZero /\ Wired /\ PortsUnique /\ Current
      /\ InTurn /\ OwnersHold /\ Stages /\ SlotsServed /\ PassedReady
  BY DEF HostsInv, RunInv, Accept, Polls
<1> DEFINE a == Head(backlog)
<1>2. PICK f \in Descriptors :
        /\ Lowest(f)
        /\ hosts' = Append(hosts, [port |-> 0, fd |-> f, app |-> a, since |-> 0])
        /\ socket' = [socket EXCEPT ![f] = a]
  BY DEF Accept
<1>3. /\ status' = status /\ revents' = revents /\ app' = app /\ inbox' = inbox
      /\ outbox' = outbox /\ from_mip' = from_mip /\ arrived' = arrived /\ to_mip' = to_mip
      /\ backlog # <<>> /\ backlog' = Tail(backlog)
      /\ \A i \in Slots : revents[i] = "none"
  BY DEF Accept, Polls
<1>4. /\ a = backlog[1] /\ a \in Apps /\ 1 \in 1..Len(backlog)
      /\ backlog' \in Seq(Apps) /\ Len(backlog') = Len(backlog) - 1 /\ Len(backlog) \in Nat
      /\ \A k \in 1..Len(backlog') : backlog'[k] = backlog[k + 1] /\ k + 1 \in 1..Len(backlog)
                                     /\ k + 1 # 1 /\ k \in Nat
  <2>1. /\ backlog \in Seq(Apps) /\ Len(backlog) \in Nat
        /\ \A k \in 1..Len(backlog) : backlog[k] \in Apps
    BY <1>1, Typed
  <2>2. /\ Head(backlog) = backlog[1] /\ Len(backlog) > 0
        /\ Tail(backlog) \in Seq(Apps) /\ Len(Tail(backlog)) = Len(backlog) - 1
        /\ \A k \in 1..Len(Tail(backlog)) : Tail(backlog)[k] = backlog[k + 1]
    BY <1>3, <2>1, TailFacts
  <2>3. backlog' = Tail(backlog)
    BY <1>3
  <2> QED BY <2>1, <2>2, <2>3
<1> HIDE DEF a
<1> DEFINE new == [port |-> 0, fd |-> f, app |-> a, since |-> 0]
<1>5. new \in Host /\ new.port = 0 /\ new.fd = f /\ new.app = a /\ f # 0
  BY <1>4, DescriptorFacts DEF Host, Ports
<1>6. hosts' = Append(hosts, new)
  BY <1>2
<1> HIDE DEF new
<1> DEFINE last == Len(hosts) + 1
<1>7. /\ hosts' \in Seq(Host) /\ Len(hosts) \in Nat /\ Len(hosts') = Len(hosts) + 1
      /\ \A i \in Hosts : hosts'[i] = hosts[i]
      /\ hosts'[last] = new
  BY <1>1, <1>5, <1>6, Typed, AppendFacts DEF Hosts
<1>8. Hosts' = Hosts \cup {last} /\ last \notin Hosts /\ Taken' = Taken
  BY <1>3, <1>7 DEF Hosts, Taken
<1> HIDE DEF last
<1>9. /\ \A i \in Hosts : hosts[i].app # a
      /\ \A k \in 1..Len(backlog') : backlog'[k] # a
      /\ app[a].phase # "off"
  BY <1>1, <1>4 DEF Wired
<1>10. /\ socket' \in [Descriptors -> Apps \cup {NoApp}] /\ socket'[f] = a
       /\ \A g \in Descriptors : g # f => socket'[g] = socket[g]
  BY <1>1, <1>2, <1>4 DEF TypeOK
<1>11. TypeOK'
  BY <1>1, <1>3, <1>4, <1>7, <1>10 DEF TypeOK
<1>12. OwnPort' /\ PassedReady'
  <2>1. \A i \in 1..Len(hosts) : i \in 1..Len(hosts') /\ hosts'[i] = hosts[i]
    BY <1>7 DEF Hosts
  <2>2. PassedReady'
    BY <1>1, <1>3 DEF PassedReady
  <2>3. \A k \in 1..Len(to_mip) : \E i \in 1..Len(hosts') :
            hosts'[i].app = to_mip[k].app /\ hosts'[i].port = to_mip[k].port
    BY <1>1, <2>1 DEF OwnPort
  <2>4. OwnPort'
    BY <1>1, <1>3, <2>3 DEF OwnPort
  <2> QED BY <2>2, <2>4
<1>13. MisledByPortZero' /\ InTurn'
  BY <1>1, <1>3, <1>8 DEF MisledByPortZero, InTurn
<1>14. Wired'
  <2>1. ASSUME NEW i \in Hosts', NEW j \in Hosts', hosts'[i].app = hosts'[j].app PROVE i = j
    <3>1. CASE i \in Hosts /\ j \in Hosts
      BY <1>1, <1>7, <2>1, <3>1 DEF Wired
    <3>2. CASE i = last \/ j = last
      BY <1>5, <1>7, <1>8, <1>9, <2>1, <3>2
    <3> QED BY <1>8, <3>1, <3>2
  <2>2. \A k, l \in 1..Len(backlog') : backlog'[k] = backlog'[l] => k = l
    <3> SUFFICES ASSUME NEW k \in 1..Len(backlog'), NEW l \in 1..Len(backlog'),
                        backlog'[k] = backlog'[l]
                 PROVE  k = l
      OBVIOUS
    <3>1. k + 1 \in 1..Len(backlog) /\ l + 1 \in 1..Len(backlog) /\ backlog[k + 1] = backlog[l + 1]
      BY <1>4
    <3>2. k + 1 = l + 1
      BY <1>1, <3>1 DEF Wired
    <3> QED BY <1>4, <3>2
  <2>3. ASSUME NEW k \in 1..Len(backlog'), NEW i \in Hosts' PROVE hosts'[i].app # backlog'[k]
    <3>1. k + 1 \in 1..Len(backlog) /\ backlog'[k] = backlog[k + 1] /\ backlog'[k] # a
      BY <1>4, <1>9
    <3>2. CASE i \in Hosts
      BY <1>1, <1>7, <3>1, <3>2 DEF Wired
    <3>3. CASE i = last
      BY <1>5, <1>7, <3>1, <3>3
    <3> QED BY <1>8, <3>2, <3>3
  <2>4. \A k \in 1..Len(backlog') : app'[backlog'[k]].phase # "off"
    BY <1>1, <1>3, <1>4 DEF Wired
  <2>5. ASSUME NEW i \in Hosts'
        PROVE  /\ app'[hosts'[i].app].phase # "off"
               /\ hosts'[i].fd = 0 => app'[hosts'[i].app].phase = "left"
               /\ hosts'[i].fd # 0 => socket'[hosts'[i].fd] = hosts'[i].app
    <3>1. CASE i = last
      BY <1>3, <1>5, <1>7, <1>9, <1>10, <3>1
    <3>2. CASE i \in Hosts
      <4>1. hosts'[i] = hosts[i] /\ app' = app
        BY <1>3, <1>7, <3>2
      <4>2. /\ app[hosts[i].app].phase # "off"
            /\ hosts[i].fd = 0 => app[hosts[i].app].phase = "left"
            /\ hosts[i].fd # 0 => socket[hosts[i].fd] = hosts[i].app
        BY <1>1, <3>2 DEF Wired
      <4>3. /\ hosts[i].app \in Apps /\ socket[f] = NoApp /\ NoApp \notin Apps
            /\ hosts[i].fd \in {0} \cup Descriptors
        BY <1>1, <1>2, <3>2, HostFields, AppsAssumption DEF Lowest
      <4>4. hosts[i].fd # 0 => socket'[hosts[i].fd] = hosts[i].app
        BY <1>10, <4>2, <4>3
      <4> QED BY <4>1, <4>2, <4>4
    <3> QED BY <1>8, <3>1, <3>2
  <2> QED BY <2>1, <2>2, <2>3, <2>4, <2>5 DEF Wired
<1>15. PortsUnique'
  BY <1>1, <1>5, <1>7, <1>8 DEF PortsUnique
<1>16. Current'
  BY <1>3 DEF Current, CurrentAt
<1>17. OwnersHold'
  BY <1>1, <1>3, <1>7, <1>8 DEF OwnersHold
<1>18. ~app[a].misled /\ inbox[a] = <<>> /\ Stage(app[a], 0, outbox[a], <<>>)
  BY <1>1, <1>4, <1>9 DEF Stages
<1>19. Stages'
  <2>1. ASSUME NEW i \in Hosts' PROVE StageAt(i)'
    <3>1. CASE i = last
      BY <1>3, <1>5, <1>7, <1>18, <3>1 DEF StageAt
    <3>2. CASE i \in Hosts
      BY <1>1, <1>3, <1>7, <3>2 DEF Stages, StageAt
    <3> QED BY <1>8, <3>1, <3>2
  <2>2. ASSUME NEW x \in Apps, \A i \in Hosts' : hosts'[i].app # x
        PROVE  ~app'[x].misled /\ inbox'[x] = <<>> /\ Stage(app'[x], 0, outbox'[x], <<>>)
    <3>1. \A i \in Hosts : hosts[i].app # x
      BY <1>7, <1>8, <2>2
    <3> QED BY <1>1, <1>3, <3>1 DEF Stages
  <2> QED BY <2>1, <2>2 DEF Stages
<1>20. SlotsServed'
  <2> SUFFICES ASSUME NEW i \in Hosts' PROVE ServedAt(i)'
    BY DEF SlotsServed
  <2>1. CASE i = last
    <3>1. PacketsIn(inbox[a]) = {}
      BY <1>18, EmptyFacts DEF PacketsIn
    <3>2. SlotInv(new, app[a], inbox[a], arrived, Taken)
      BY <1>5, <3>1 DEF SlotInv, Early, HandedTo
    <3> QED BY <1>3, <1>5, <1>7, <1>8, <2>1, <3>2 DEF ServedAt
  <2>2. CASE i \in Hosts
    BY <1>1, <1>3, <1>7, <1>8, <2>2 DEF SlotsServed, ServedAt
  <2> QED BY <1>8, <2>1, <2>2
<1> QED BY <1>11, <1>12, <1>13, <1>14, <1>15, <1>16, <1>17, <1>19, <1>20 DEF HostsInv, RunInv

\* A slot with an event is open, and others are as before when it is served.
LEMMA ServesFacts ==
    ASSUME TypeOK, Wired, Current, NEW i \in Slots, NEW event \in {"in", "hup"}, Serves(i, event)
    PROVE  /\ i \in Hosts /\ hosts[i].fd \in Descriptors
           /\ Client(i) = hosts[i].app /\ hosts[i].app \in Apps
           /\ event = "hup" => app[hosts[i].app].phase = "left"
           /\ revents' \in [Slots -> {"none", "in", "hup"}]
           /\ revents'[i] = "none"
           /\ \A j \in Slots : j # i => revents'[j] = revents[j]
<1>1. CurrentAt(i) /\ revents[i] = event
  BY DEF Current, Serves
<1>2. /\ i \in Hosts /\ hosts[i].fd # 0
      /\ event = "hup" => app[hosts[i].app].phase = "left"
  BY <1>1 DEF CurrentAt
<1>3. revents' = [revents EXCEPT ![i] = "none"] /\ revents \in [Slots -> {"none", "in", "hup"}]
  BY DEF Serves, TypeOK
<1> QED BY <1>2, <1>3, HostFields, ClientFacts

\* The slot of an application that has left is closed.
LEMMA HupStep ==
    ASSUME HostsInv, NEW i \in Slots, Hup(i)
    PROVE  HostsInv'
<1>1. /\ TypeOK /\ OwnPort /\ MisledByPortZero /\ Wired /\ PortsUnique /\ Current
      /\ InTurn /\ OwnersHold /\ Stages /\ SlotsServed /\ PassedReady /\ status = "runs"
  BY DEF HostsInv, RunInv, Hup, Serves
<1>2. /\ hosts' = [hosts EXCEPT ![i] = [@ EXCEPT !.fd = 0]]
      /\ socket' = [socket EXCEPT ![hosts[i].fd] = NoApp]
      /\ status' = status /\ backlog' = backlog /\ app' = app /\ inbox' = inbox
      /\ outbox' = outbox /\ from_mip' = from_mip /\ arrived' = arrived /\ to_mip' = to_mip
  BY DEF Hup, Serves, Closed
<1>3. /\ i \in Hosts /\ hosts[i].fd \in Descriptors /\ hosts[i].app \in Apps
      /\ app[hosts[i].app].phase = "left"
      /\ revents' \in [Slots -> {"none", "in", "hup"}] /\ revents'[i] = "none"
      /\ \A j \in Slots : j # i => revents'[j] = revents[j]
  BY <1>1, ServesFacts DEF Hup
<1> DEFINE new == [hosts[i] EXCEPT !.fd = 0]
<1>4. /\ hosts[i] \in Host /\ new \in Host /\ new.fd = 0 /\ new.port = hosts[i].port
      /\ new.app = hosts[i].app /\ new.since = hosts[i].since
  BY <1>1, <1>3, HostFields DEF Host
<1>5. hosts' = [hosts EXCEPT ![i] = new] /\ hosts \in Seq(Host) /\ Len(hosts) \in Nat
  BY <1>1, <1>2, Typed
<1> HIDE DEF new
<1>6. /\ hosts' \in Seq(Host) /\ Len(hosts') = Len(hosts) /\ hosts'[i] = new
      /\ \A j \in Hosts : j # i => hosts'[j] = hosts[j]
  BY <1>3, <1>4, <1>5 DEF Hosts
<1>7. /\ Hosts' = Hosts /\ Taken' = Taken
      /\ \A j \in Hosts : /\ hosts'[j].port = hosts[j].port /\ hosts'[j].app = hosts[j].app
                          /\ hosts'[j].since = hosts[j].since
  BY <1>2, <1>4, <1>6 DEF Hosts, Taken
<1>8. /\ socket' \in [Descriptors -> Apps \cup {NoApp}]
      /\ \A g \in Descriptors : g # hosts[i].fd => socket'[g] = socket[g]
  BY <1>1, <1>2, <1>3 DEF TypeOK
<1>9. TypeOK'
  BY <1>1, <1>2, <1>3, <1>6, <1>8 DEF TypeOK
<1>10. OwnPort'
  <2>1. \A k \in 1..Len(to_mip) : \E j \in 1..Len(hosts') :
            hosts'[j].app = to_mip[k].app /\ hosts'[j].port = to_mip[k].port
    BY <1>1, <1>7 DEF OwnPort, Hosts
  <2>2. \A k \in 1..Len(to_mip) : app[to_mip[k].app].misled
            \/ (to_mip[k].type = "message" /\ app[to_mip[k].app].port = to_mip[k].port)
    BY <1>1 DEF OwnPort
  <2> QED BY <1>2, <2>1, <2>2 DEF OwnPort
<1>11. MisledByPortZero' /\ InTurn' /\ PassedReady'
  BY <1>1, <1>2, <1>7 DEF MisledByPortZero, InTurn, PassedReady
<1>12. Wired'
  <2>1. ASSUME NEW j \in Hosts
        PROVE  /\ app[hosts'[j].app].phase # "off"
               /\ hosts'[j].fd = 0 => app[hosts'[j].app].phase = "left"
               /\ hosts'[j].fd # 0 => socket'[hosts'[j].fd] = hosts'[j].app
    <3>1. /\ app[hosts[j].app].phase # "off"
          /\ hosts[j].fd = 0 => app[hosts[j].app].phase = "left"
          /\ hosts[j].fd # 0 => socket[hosts[j].fd] = hosts[j].app
      BY <1>1 DEF Wired
    <3>2. CASE j = i
      BY <1>3, <1>4, <1>6, <3>1, <3>2
    <3>3. CASE j # i
      <4>1. hosts'[j] = hosts[j] /\ hosts[j].fd \in {0} \cup Descriptors
        BY <1>1, <1>6, <3>3, HostFields
      <4>2. hosts[i].fd # 0 /\ socket[hosts[i].fd] = hosts[i].app /\ hosts[j].app # hosts[i].app
        BY <1>1, <1>3, <3>3, DescriptorFacts DEF Wired
      <4>3. hosts[j].fd # 0 => hosts[j].fd # hosts[i].fd
        BY <3>1, <4>2
      <4> QED BY <1>8, <3>1, <4>1, <4>3
    <3> QED BY <3>2, <3>3
  <2>2. \A j, k \in Hosts : hosts'[j].app = hosts'[k].app => j = k
    BY <1>1, <1>7 DEF Wired
  <2>3. \A k \in 1..Len(backlog), j \in Hosts : hosts'[j].app # backlog[k]
    BY <1>1, <1>7 DEF Wired
  <2>4. /\ \A k, l \in 1..Len(backlog) : backlog[k] = backlog[l] => k = l
        /\ \A k \in 1..Len(backlog) : app[backlog[k]].phase # "off"
    BY <1>1 DEF Wired
  <2> QED BY <1>2, <1>7, <2>1, <2>2, <2>3, <2>4 DEF Wired
<1>13. PortsUnique' /\ OwnersHold'
  BY <1>1, <1>2, <1>7 DEF PortsUnique, OwnersHold
<1>14. Current'
  <2> SUFFICES ASSUME NEW j \in Slots PROVE CurrentAt(j)'
    BY DEF Current
  <2>1. CASE j = i
    BY <1>3, <2>1 DEF CurrentAt
  <2>2. CASE j # i
    BY <1>1, <1>2, <1>3, <1>6, <1>7, <2>2 DEF Current, CurrentAt
  <2> QED BY <2>1, <2>2
<1>15. Stages'
  BY <1>1, <1>2, <1>7 DEF Stages, StageAt
<1>16. SlotsServed'
  <2> SUFFICES ASSUME NEW j \in Hosts PROVE ServedAt(j)'
    BY <1>7 DEF SlotsServed
  <2>1. CASE j = i
    BY <1>2, <1>3, <1>7, <2>1 DEF ServedAt, SlotInv
  <2>2. CASE j # i
    BY <1>1, <1>2, <1>6, <1>7, <2>2 DEF SlotsServed, ServedAt
  <2> QED BY <2>1, <2>2
<1> QED BY <1>9, <1>10, <1>11, <1>12, <1>13, <1>14, <1>15, <1>16 DEF HostsInv, RunInv

\* What is written to a slot reaches its application, if it has not left.
LEMMA WriteToFacts ==
    ASSUME TypeOK, Wired, status = "runs", NEW i \in Hosts, NEW msg \in Up,
           WriteTo(hosts[i].fd, msg)
    PROVE  /\ status' \in {"runs", "killed"}
           /\ inbox' \in [Apps -> Seq(Up)]
           /\ \A x \in Apps : x # hosts[i].app => inbox'[x] = inbox[x]
           /\ app[hosts[i].app].phase = "left" => inbox' = inbox
           /\ app[hosts[i].app].phase # "left" =>
                inbox'[hosts[i].app] = Append(inbox[hosts[i].app], msg)
<1> DEFINE a == hosts[i].app
           peer == Behind(hosts[i].fd)
<1>1. /\ a \in Apps /\ a # NoApp /\ inbox \in [Apps -> Seq(Up)] /\ inbox[a] \in Seq(Up)
  BY HostFields, AppFields, AppsAssumption DEF TypeOK, Up
<1>2. /\ hosts[i].fd = 0 => peer = NoApp /\ app[a].phase = "left"
      /\ hosts[i].fd # 0 => peer = a
  BY ClientFacts DEF Client, Wired
<1>3. Append(inbox[a], msg) \in Seq(Up)
  BY <1>1, AppendFacts
<1>4. IF peer = NoApp THEN UNCHANGED <<inbox, status>>
      ELSE IF app[peer].phase = "left" THEN status' \in {"runs", "killed"} /\ UNCHANGED inbox
      ELSE inbox' = [inbox EXCEPT ![peer] = Append(@, msg)] /\ UNCHANGED status
  BY DEF WriteTo
<1> HIDE DEF a, peer
<1>5. CASE peer = NoApp
  <2>1. inbox' = inbox /\ status' = status /\ app[a].phase = "left"
    BY <1>1, <1>2, <1>4, <1>5
  <2> QED BY <1>1, <2>1 DEF a
<1>6. CASE peer = a
  <2>1. CASE app[a].phase = "left"
    BY <1>1, <1>4, <1>6, <2>1 DEF a
  <2>2. CASE app[a].phase # "left"
    <3>1. inbox' = [inbox EXCEPT ![a] = Append(inbox[a], msg)] /\ status' = status
      BY <1>1, <1>4, <1>6, <2>2
    <3> QED BY <1>1, <1>3, <2>2, <3>1 DEF a
  <2> QED BY <2>1, <2>2
<1> QED BY <1>2, <1>5, <1>6

\* The application in a slot with an event has written something, which is read.
LEMMA ReadsAppFacts ==
    ASSUME TypeOK, Wired, Current, NEW i \in Slots, ReadsApp(i)
    PROVE  LET a == hosts[i].app
           IN  /\ outbox[a] \in Seq(Written) /\ outbox[a] # <<>>
               /\ Len(outbox[a]) \in Nat /\ Len(outbox[a]) > 0
               /\ Head(outbox[a]) = outbox[a][1] /\ outbox[a][1] \in Written
               /\ outbox' \in [Apps -> Seq(Written)]
               /\ Len(outbox'[a]) = Len(outbox[a]) - 1
               /\ \A k \in 1..Len(outbox'[a]) : outbox'[a][k] = outbox[a][k + 1]
               /\ \A x \in Apps : x # a => outbox'[x] = outbox[x]
<1> DEFINE a == hosts[i].app
<1>1. a = Client(i) /\ a \in Apps
  BY ServesFacts DEF ReadsApp
<1>2. outbox[a] # <<>> /\ outbox' = [outbox EXCEPT ![a] = Tail(@)]
  BY <1>1 DEF ReadsApp
<1>3. outbox[a] \in Seq(Written) /\ outbox \in [Apps -> Seq(Written)]
  BY <1>1, AppFields DEF TypeOK
<1> HIDE DEF a
<1>4. /\ Tail(outbox[a]) \in Seq(Written) /\ Len(Tail(outbox[a])) = Len(outbox[a]) - 1
      /\ Len(outbox[a]) \in Nat /\ Len(outbox[a]) > 0
      /\ Head(outbox[a]) = outbox[a][1] /\ outbox[a][1] \in Written
      /\ \A k \in 1..Len(Tail(outbox[a])) : Tail(outbox[a])[k] = outbox[a][k + 1]
  BY <1>2, <1>3, TailFacts
<1>5. /\ outbox' \in [Apps -> Seq(Written)] /\ outbox'[a] = Tail(outbox[a])
      /\ \A x \in Apps : x # a => outbox'[x] = outbox[x]
  BY <1>1, <1>2, <1>3, <1>4
<1> QED BY <1>2, <1>3, <1>4, <1>5 DEF a

\* A message is passed on under the port of its slot.
LEMMA ForwardStep ==
    ASSUME HostsInv, NEW i \in Slots, forward_to_mip(i)
    PROVE  HostsInv'
<1> DEFINE a == hosts[i].app
           m == [type |-> outbox[a][1].type, port |-> hosts[i].port, app |-> a]
<1>1. /\ TypeOK /\ OwnPort /\ MisledByPortZero /\ Wired /\ PortsUnique /\ Current
      /\ InTurn /\ OwnersHold /\ Stages /\ SlotsServed /\ PassedReady /\ status = "runs"
  BY DEF HostsInv, RunInv, forward_to_mip, ReadsApp, Serves
<1>2. /\ i \in Hosts /\ a \in Apps /\ Client(i) = a
      /\ revents' \in [Slots -> {"none", "in", "hup"}] /\ revents'[i] = "none"
      /\ \A j \in Slots : j # i => revents'[j] = revents[j]
  BY <1>1, ServesFacts DEF forward_to_mip, ReadsApp
<1>3. /\ outbox[a] \in Seq(Written) /\ Len(outbox[a]) \in Nat /\ Len(outbox[a]) > 0
      /\ Head(outbox[a]) = outbox[a][1] /\ outbox[a][1] \in Written
      /\ outbox' \in [Apps -> Seq(Written)]
      /\ Len(outbox'[a]) = Len(outbox[a]) - 1
      /\ \A k \in 1..Len(outbox'[a]) : outbox'[a][k] = outbox[a][k + 1]
      /\ \A x \in Apps : x # a => outbox'[x] = outbox[x]
  BY <1>1, ReadsAppFacts DEF forward_to_mip
<1>4. /\ hosts[i].port # 0 /\ hosts[i].port \in Ports
      /\ to_mip' = Append(to_mip, m)
      /\ status' = status /\ hosts' = hosts /\ socket' = socket /\ inbox' = inbox
      /\ backlog' = backlog /\ app' = app /\ from_mip' = from_mip /\ arrived' = arrived
  BY <1>1, <1>2, <1>3, HostFields DEF forward_to_mip, ReadsApp, Serves
<1>5. m \in Passed /\ m.type = outbox[a][1].type /\ m.port = hosts[i].port /\ m.app = a
  BY <1>2, <1>3, <1>4 DEF Passed, Written
<1>6. /\ to_mip' \in Seq(Passed) /\ Len(to_mip) \in Nat /\ Len(to_mip') = Len(to_mip) + 1
      /\ \A k \in 1..Len(to_mip) : to_mip'[k] = to_mip[k]
      /\ to_mip'[Len(to_mip) + 1] = m
  <2> HIDE DEF m
  <2> QED BY <1>1, <1>4, <1>5, Typed, AppendFacts
<1> HIDE DEF a, m
<1>7. Hosts' = Hosts /\ Taken' = Taken
  BY <1>4 DEF Hosts, Taken
<1>8. ~app[a].misled => Ready(app[a], hosts[i].port, outbox[a])
  <2>1. ~app[a].misled => Stage(app[a], hosts[i].port, outbox[a], inbox[a])
    BY <1>1, <1>2 DEF Stages, StageAt, a
  <2>2. outbox[a] # <<>>
    BY <1>3, EmptyFacts
  <2> QED BY <1>4, <2>1, <2>2 DEF Stage, Idle, Asked, Answered, Gone
<1>9. TypeOK'
  BY <1>1, <1>2, <1>3, <1>4, <1>6 DEF TypeOK
<1>10. ASSUME NEW k \in 1..Len(to_mip')
       PROVE  /\ \E j \in Hosts : hosts[j].app = to_mip'[k].app /\ hosts[j].port = to_mip'[k].port
              /\ app[to_mip'[k].app].misled
                    \/ (/\ to_mip'[k].type = "message"
                        /\ app[to_mip'[k].app].port = to_mip'[k].port)
              /\ to_mip'[k].port # 0
              /\ app[to_mip'[k].app].misled \/ app[to_mip'[k].app].phase \in {"ready", "left"}
  <2>1. CASE k \in 1..Len(to_mip)
    BY <1>1, <1>6, <2>1 DEF OwnPort, PassedReady, Hosts
  <2>2. CASE k = Len(to_mip) + 1
    <3>1. to_mip'[k].app = a /\ to_mip'[k].port = hosts[i].port /\ to_mip'[k].type = outbox[a][1].type
      BY <1>5, <1>6, <2>2
    <3>2. 1 \in 1..Len(outbox[a])
      BY <1>3
    <3>3. ~app[a].misled => /\ outbox[a][1].type = "message" /\ app[a].port = hosts[i].port
                            /\ app[a].phase \in {"ready", "left"}
      BY <1>8, <3>2 DEF Ready
    <3> QED BY <1>2, <1>4, <3>1, <3>3 DEF a
  <2> QED BY <1>6, <2>1, <2>2
<1>11. OwnPort' /\ PassedReady'
  BY <1>4, <1>10 DEF OwnPort, PassedReady, Hosts
<1>12. MisledByPortZero' /\ Wired' /\ PortsUnique' /\ InTurn' /\ OwnersHold'
  BY <1>1, <1>4, <1>7 DEF MisledByPortZero, Wired, PortsUnique, InTurn, OwnersHold
<1>13. Current'
  BY <1>1, <1>2, <1>4, <1>7 DEF Current, CurrentAt
<1>14. Stages'
  <2>1. ASSUME NEW j \in Hosts PROVE StageAt(j)'
    <3>1. StageAt(j) /\ hosts[j].app \in Apps
      BY <1>1, HostFields DEF Stages
    <3>2. CASE hosts[j].app = a
      <4>1. j = i
        BY <1>1, <1>2, <3>2 DEF Wired, a
      <4>2. ~app[a].misled => Ready(app[a], hosts[i].port, outbox'[a])
        <5>1. \A k \in 1..Len(outbox'[a]) : k + 1 \in 1..Len(outbox[a])
          BY <1>3
        <5> QED BY <1>3, <1>8, <5>1 DEF Ready
      <4> QED BY <1>4, <3>2, <4>1, <4>2 DEF StageAt, Stage
    <3>3. CASE hosts[j].app # a
      BY <1>3, <1>4, <3>1, <3>3 DEF StageAt
    <3> QED BY <3>2, <3>3
  <2>2. ASSUME NEW x \in Apps, \A j \in Hosts : hosts[j].app # x
        PROVE  ~app[x].misled /\ inbox[x] = <<>> /\ Stage(app[x], 0, outbox'[x], <<>>)
    <3>1. outbox'[x] = outbox[x]
      BY <1>2, <1>3, <2>2 DEF a
    <3> QED BY <1>1, <2>2, <3>1 DEF Stages
  <2> QED BY <1>4, <1>7, <2>1, <2>2 DEF Stages
<1>15. SlotsServed'
  BY <1>1, <1>4, <1>7 DEF SlotsServed, ServedAt
<1> QED BY <1>9, <1>11, <1>12, <1>13, <1>14, <1>15 DEF HostsInv, RunInv

\* A request is read and answered.
LEMMA PortRequestStep ==
    ASSUME HostsInv, NEW i \in Slots, PortRequest(i)
    PROVE  HostsInv'
<1> DEFINE a == hosts[i].app
           port == outbox[a][1].byte
           approved == available_port(port)
           given == IF approved THEN port ELSE 0
           since == IF approved THEN Taken ELSE 0
           answer == [type |-> "answer", approved |-> approved, port |-> given]
           new == [hosts[i] EXCEPT !.port = given, !.since = since]
<1>1. /\ TypeOK /\ OwnPort /\ MisledByPortZero /\ Wired /\ PortsUnique /\ Current
      /\ InTurn /\ OwnersHold /\ Stages /\ SlotsServed /\ PassedReady /\ status = "runs"
  BY DEF HostsInv, RunInv, PortRequest, ReadsApp, Serves
<1>2. /\ i \in Hosts /\ a \in Apps /\ Client(i) = a
      /\ revents' \in [Slots -> {"none", "in", "hup"}] /\ revents'[i] = "none"
      /\ \A j \in Slots : j # i => revents'[j] = revents[j]
  BY <1>1, ServesFacts DEF PortRequest, ReadsApp
<1>3. /\ Len(outbox[a]) \in Nat /\ Len(outbox[a]) > 0
      /\ Head(outbox[a]) = outbox[a][1] /\ outbox[a][1] \in Written
      /\ outbox' \in [Apps -> Seq(Written)]
      /\ Len(outbox'[a]) = Len(outbox[a]) - 1
      /\ \A x \in Apps : x # a => outbox'[x] = outbox[x]
  BY <1>1, ReadsAppFacts DEF PortRequest
<1>4. /\ hosts[i].port = 0
      /\ hosts' = [hosts EXCEPT ![i] = new]
      /\ WriteTo(hosts[i].fd, answer)
      /\ socket' = socket /\ to_mip' = to_mip
      /\ backlog' = backlog /\ app' = app /\ from_mip' = from_mip /\ arrived' = arrived
  BY <1>2, <1>3 DEF PortRequest, ReadsApp, Serves, send_port_response
<1>5. hosts[i] \in Host /\ Taken \in Nat /\ port \in Ports /\ hosts \in Seq(Host) /\ Len(hosts) \in Nat
  BY <1>1, <1>2, <1>3, HostFields, TakenFacts, Typed DEF Written, Ports
<1>6. /\ given \in Ports /\ since \in Nat /\ approved \in BOOLEAN
      /\ approved => given # 0 /\ since = Taken /\ \A j \in Hosts : hosts[j].port # given
      /\ ~approved => given = 0
  <2>1. approved <=> \A j \in Hosts : hosts[j].port # port
    BY DEF available_port, Hosts
  <2>2. approved \in BOOLEAN
    BY DEF available_port
  <2> HIDE DEF approved
  <2>3. approved => port # 0
    BY <1>2, <1>4, <2>1
  <2> HIDE DEF port
  <2>4. CASE approved
    BY <1>5, <2>1, <2>2, <2>3, <2>4
  <2>5. CASE ~approved
    BY <2>2, <2>5 DEF Ports
  <2> QED BY <2>4, <2>5
<1> HIDE DEF a, port, approved, given, since
<1>7. /\ new \in Host /\ new.port = given /\ new.since = since
      /\ new.app = hosts[i].app /\ new.fd = hosts[i].fd
  BY <1>5, <1>6 DEF Host
<1>8. answer \in Up /\ answer.type = "answer" /\ answer.approved = approved /\ answer.port = given
  BY <1>6 DEF Up, Answer
<1> HIDE DEF new, answer
<1>9. /\ hosts' \in Seq(Host) /\ Len(hosts') = Len(hosts) /\ hosts'[i] = new
      /\ \A j \in Hosts : j # i => hosts'[j] = hosts[j]
  BY <1>2, <1>4, <1>5, <1>7 DEF Hosts
<1>10. /\ Hosts' = Hosts /\ Taken' = Taken
       /\ \A j \in Hosts : hosts'[j].app = hosts[j].app /\ hosts'[j].fd = hosts[j].fd
       /\ \A j \in Hosts : hosts[j].port # 0 => j # i /\ hosts'[j] = hosts[j]
  BY <1>4, <1>7, <1>9 DEF Hosts, Taken
<1>11. /\ status' \in {"runs", "killed"}
       /\ inbox' \in [Apps -> Seq(Up)]
       /\ \A x \in Apps : x # a => inbox'[x] = inbox[x]
       /\ app[a].phase = "left" => inbox' = inbox
       /\ app[a].phase # "left" => inbox'[a] = Append(inbox[a], answer)
  BY <1>1, <1>2, <1>4, <1>8, WriteToFacts DEF a
<1>12. TypeOK'
  BY <1>1, <1>2, <1>3, <1>4, <1>9, <1>11 DEF TypeOK, Up
<1>13. OwnPort'
  <2>1. \A k \in 1..Len(to_mip) : \E j \in Hosts :
            hosts'[j].app = to_mip[k].app /\ hosts'[j].port = to_mip[k].port
    BY <1>1, <1>10 DEF OwnPort, PassedReady, Hosts
  <2>2. \A k \in 1..Len(to_mip) : app[to_mip[k].app].misled
            \/ (to_mip[k].type = "message" /\ app[to_mip[k].app].port = to_mip[k].port)
    BY <1>1 DEF OwnPort
  <2> QED BY <1>4, <1>10, <2>1, <2>2 DEF OwnPort, Hosts
<1>14. MisledByPortZero' /\ InTurn' /\ PassedReady'
  BY <1>1, <1>4, <1>10 DEF MisledByPortZero, InTurn, PassedReady
<1>15. Wired'
  <2>1. \A j, k \in Hosts : hosts'[j].app = hosts'[k].app => j = k
    BY <1>1, <1>10 DEF Wired
  <2>2. \A k \in 1..Len(backlog), j \in Hosts : hosts'[j].app # backlog[k]
    BY <1>1, <1>10 DEF Wired
  <2>3. /\ \A k, l \in 1..Len(backlog) : backlog[k] = backlog[l] => k = l
        /\ \A k \in 1..Len(backlog) : app[backlog[k]].phase # "off"
    BY <1>1 DEF Wired
  <2>4. \A j \in Hosts : /\ app[hosts'[j].app].phase # "off"
                         /\ hosts'[j].fd = 0 => app[hosts'[j].app].phase = "left"
                         /\ hosts'[j].fd # 0 => socket[hosts'[j].fd] = hosts'[j].app
    BY <1>1, <1>10 DEF Wired
  <2> QED BY <1>4, <1>10, <2>1, <2>2, <2>3, <2>4 DEF Wired
<1>16. PortsUnique'
  <2> SUFFICES ASSUME NEW j \in Hosts, NEW k \in Hosts,
                      hosts'[j].port = hosts'[k].port, hosts'[j].port # 0
               PROVE  j = k
    BY <1>10 DEF PortsUnique
  <2>1. CASE j # i /\ k # i
    BY <1>1, <1>9, <2>1 DEF PortsUnique
  <2>2. CASE (j = i) # (k = i)
    BY <1>6, <1>7, <1>9, <2>2
  <2> QED BY <2>1, <2>2
<1>17. OwnersHold'
  <2> SUFFICES ASSUME NEW n \in 1..Len(arrived), NEW x \in arrived[n].owners
               PROVE  \E j \in Hosts : /\ hosts'[j].app = x
                                       /\ hosts'[j].port = arrived[n].port /\ hosts'[j].port # 0
    BY <1>4, <1>10 DEF OwnersHold
  <2> QED BY <1>1, <1>10 DEF OwnersHold
<1>18. Current'
  <2> SUFFICES ASSUME NEW j \in Slots PROVE CurrentAt(j)'
    BY DEF Current
  <2>1. CASE j = i
    BY <1>2, <2>1 DEF CurrentAt
  <2>2. CASE j # i
    BY <1>1, <1>2, <1>4, <1>9, <1>10, <2>2 DEF Current, CurrentAt
  <2> QED BY <2>1, <2>2
<1>19. inbox[a] \in Seq(Up)
  BY <1>1, <1>2, AppFields
<1>20. ~app[a].misled => Stage(app[a], given, outbox'[a], inbox'[a])
  <2> SUFFICES ASSUME ~app[a].misled PROVE Stage(app[a], given, outbox'[a], inbox'[a])
    OBVIOUS
  <2>1. Stage(app[a], 0, outbox[a], inbox[a])
    BY <1>1, <1>2, <1>4 DEF Stages, StageAt, a
  <2>2. outbox[a] # <<>>
    BY <1>3, EmptyFacts
  <2>3. Asked(app[a], 0, outbox[a], inbox[a])
    BY <2>1, <2>2 DEF Stage, Idle, Answered, Ready, Gone
  <2>4. outbox'[a] = <<>>
    <3>1. Len(outbox'[a]) = 0 /\ outbox'[a] \in Seq(Written)
      BY <1>2, <1>3, <2>3 DEF Asked
    <3> QED BY <3>1, EmptyFacts
  <2>5. CASE app[a].phase = "left"
    BY <2>4, <2>5 DEF Stage, Gone
  <2>6. CASE app[a].phase # "left"
    <3> DEFINE up == Append(inbox[a], answer)
    <3>1. /\ Len(inbox[a]) \in Nat /\ Len(up) = Len(inbox[a]) + 1
          /\ \A k \in 1..Len(inbox[a]) : up[k] = inbox[a][k]
          /\ up[Len(inbox[a]) + 1] = answer
      BY <1>8, <1>19, UpAppend
    <3> HIDE DEF up
    <3>2. /\ Len(inbox[a]) + 1 \in 1..Len(up)
          /\ \A k \in 1..Len(up) : k # Len(inbox[a]) + 1 => k \in 1..Len(inbox[a])
      BY <3>1
    <3>3. \A k \in 1..Len(up) : k # Len(inbox[a]) + 1 => up[k].type = "packet"
      BY <2>3, <3>1, <3>2 DEF Asked
    <3>4. answer.approved = (given # 0)
      BY <1>6, <1>8
    <3>5. Answered(app[a], given, outbox'[a], up)
      BY <1>8, <2>3, <2>4, <3>1, <3>2, <3>3, <3>4 DEF Answered, Asked
    <3> QED BY <1>11, <2>6, <3>5 DEF Stage, up
  <2> QED BY <2>5, <2>6
<1>21. Stages'
  <2>1. ASSUME NEW j \in Hosts PROVE StageAt(j)'
    <3>1. CASE j = i
      BY <1>4, <1>7, <1>9, <1>20, <3>1 DEF StageAt, a
    <3>2. CASE j # i
      <4>1. StageAt(j) /\ hosts[j].app \in Apps /\ hosts[j].app # a
        BY <1>1, <1>2, <3>2, HostFields DEF Stages, Wired, a
      <4> QED BY <1>3, <1>4, <1>9, <1>11, <3>2, <4>1 DEF StageAt
    <3> QED BY <3>1, <3>2
  <2>2. ASSUME NEW x \in Apps, \A j \in Hosts : hosts'[j].app # x
        PROVE  ~app[x].misled /\ inbox'[x] = <<>> /\ Stage(app[x], 0, outbox'[x], <<>>)
    <3>1. x # a /\ \A j \in Hosts : hosts[j].app # x
      BY <1>2, <1>10, <2>2 DEF a
    <3>2. outbox'[x] = outbox[x] /\ inbox'[x] = inbox[x]
      BY <1>3, <1>11, <3>1
    <3> QED BY <1>1, <3>1, <3>2 DEF Stages
  <2> QED BY <1>4, <1>10, <2>1, <2>2 DEF Stages
<1>22. app[a].phase # "left" => SlotInv(new, app[a], Append(inbox[a], answer), arrived, Taken)
  <2> SUFFICES ASSUME app[a].phase # "left"
               PROVE  SlotInv(new, app[a], Append(inbox[a], answer), arrived, Taken)
    OBVIOUS
  <2>1. HandedTo(hosts[i], inbox[a], arrived, Taken)
    BY <1>1, <1>2 DEF SlotsServed, ServedAt, SlotInv, a
  <2>2. HandedTo(new, inbox[a], arrived, Taken)
    <3>1. CASE approved
      BY <1>4, <1>5, <1>6, <1>7, <2>1, <3>1, HandedGiven
    <3>2. CASE ~approved
      BY <1>4, <1>6, <1>7, <2>1, <3>2 DEF HandedTo
    <3> QED BY <3>1, <3>2
  <2>3. HandedTo(new, Append(inbox[a], answer), arrived, Taken)
    BY <1>8, <1>19, <2>2, HandedAnswer
  <2>4. Early(new, app[a], Append(inbox[a], answer))
    <3>1. CASE approved
      <4>1. \A k \in PacketsIn(inbox[a]) : inbox[a][k].port = 0
        BY <1>4, <2>1 DEF HandedTo
      <4> QED BY <1>8, <1>19, <3>1, <4>1, EarlyAnswer
    <3>2. CASE ~approved
      BY <1>6, <1>7, <3>2 DEF Early
    <3> QED BY <3>1, <3>2
  <2> QED BY <2>3, <2>4 DEF SlotInv
<1>23. SlotsServed'
  <2> SUFFICES ASSUME NEW j \in Hosts PROVE ServedAt(j)'
    BY <1>10 DEF SlotsServed
  <2>1. CASE j = i
    <3>1. SlotInv(new, app[a], inbox'[a], arrived, Taken)
      <4>1. CASE app[a].phase = "left"
        BY <4>1 DEF SlotInv
      <4>2. CASE app[a].phase # "left"
        BY <1>11, <1>22, <4>2
      <4> QED BY <4>1, <4>2
    <3> QED BY <1>4, <1>7, <1>9, <1>10, <2>1, <3>1 DEF ServedAt, a
  <2>2. CASE j # i
    <3>1. ServedAt(j) /\ hosts[j].app \in Apps /\ hosts[j].app # a
      BY <1>1, <1>2, <2>2, HostFields DEF SlotsServed, Wired, a
    <3> QED BY <1>4, <1>9, <1>10, <1>11, <2>2, <3>1 DEF ServedAt
  <2> QED BY <2>1, <2>2
<1> QED BY <1>12, <1>13, <1>14, <1>15, <1>16, <1>17, <1>18, <1>21, <1>23 DEF HostsInv, RunInv

\* The next packet is read, and handed to the first slot with its port.
LEMMA ReadMessageStep ==
    ASSUME HostsInv, read_message
    PROVE  HostsInv'
<1> DEFINE packet == Head(from_mip)
           n == Taken + 1
<1>1. /\ TypeOK /\ OwnPort /\ MisledByPortZero /\ Wired /\ PortsUnique /\ Current
      /\ InTurn /\ OwnersHold /\ Stages /\ SlotsServed /\ PassedReady /\ status = "runs"
  BY DEF HostsInv, RunInv, read_message, Polls
<1>2. /\ from_mip # <<>> /\ from_mip' = Tail(from_mip)
      /\ hosts' = hosts /\ socket' = socket /\ revents' = revents /\ backlog' = backlog
      /\ app' = app /\ outbox' = outbox /\ arrived' = arrived /\ to_mip' = to_mip
      /\ \/ \E i \in index_of_port(packet.port) : WriteTo(hosts[i].fd, packet)
         \/ /\ index_of_port(packet.port) = {}
            /\ status' \in {"runs", "undefined"}
            /\ inbox' = inbox
  BY DEF read_message
<1>3. /\ from_mip \in Seq(Packet) /\ Len(from_mip) \in Nat /\ Len(arrived) \in Nat
      /\ Taken \in Nat /\ Taken <= Len(arrived) /\ Taken + Len(from_mip) = Len(arrived)
  BY <1>1, Typed, TakenFacts
<1>4. /\ packet = from_mip[1] /\ packet \in Packet /\ Len(from_mip) > 0
      /\ Tail(from_mip) \in Seq(Packet) /\ Len(Tail(from_mip)) = Len(from_mip) - 1
      /\ \A k \in 1..Len(Tail(from_mip)) : Tail(from_mip)[k] = from_mip[k + 1]
  BY <1>2, <1>3, TailFacts
<1>5. packet = arrived[n] /\ n \in 1..Len(arrived) /\ packet.nr = n
  <2>1. n \in 1..Len(arrived) /\ 1 \in 1..Len(from_mip)
    BY <1>3, <1>4
  <2>2. from_mip[1] = arrived[n]
    BY <1>1, <2>1 DEF InTurn
  <2> QED BY <1>1, <1>4, <2>1, <2>2 DEF InTurn
<1>6. packet \in Up /\ packet.type = "packet" /\ packet.port \in Ports
  BY <1>4 DEF Up, Packet
<1> HIDE DEF packet, n
<1>7. Hosts' = Hosts /\ Taken' = n /\ n = Taken + 1
  <2>1. Len(from_mip') = Len(from_mip) - 1
    BY <1>2, <1>4
  <2> QED BY <1>2, <1>3, <2>1 DEF Hosts, Taken, n
<1>8. PICK index \in SUBSET Hosts :
        /\ \A i, j \in index : i = j
        /\ \A i \in index : hosts[i].port = packet.port /\ WriteTo(hosts[i].fd, packet)
        /\ index = {} => status' \in {"runs", "undefined"} /\ inbox' = inbox
        /\ index = {} => \A i \in Hosts : hosts[i].port = packet.port => packet.port = 0
  <2>1. CASE \E i \in index_of_port(packet.port) : WriteTo(hosts[i].fd, packet)
    <3>1. PICK i \in index_of_port(packet.port) : WriteTo(hosts[i].fd, packet)
      BY <2>1
    <3>2. i \in Hosts /\ hosts[i].port = packet.port
      BY <3>1 DEF index_of_port, Hosts
    <3>3. {i} \in SUBSET Hosts /\ {i} # {}
      BY <3>2
    <3> QED BY <3>1, <3>2, <3>3
  <2>2. CASE index_of_port(packet.port) = {} /\ status' \in {"runs", "undefined"} /\ inbox' = inbox
    <3>1. ASSUME NEW i \in Hosts, hosts[i].port = packet.port PROVE packet.port = 0
      <4> SUFFICES ASSUME packet.port # 0 PROVE i \in index_of_port(packet.port)
        BY <2>2
      <4>1. \A j \in 1..i - 1 : j \in Hosts /\ j # i
        BY <1>1, Typed DEF Hosts
      <4>2. \A j \in 1..i - 1 : hosts[j].port # packet.port
        BY <1>1, <3>1, <4>1 DEF PortsUnique
      <4> QED BY <3>1, <4>2 DEF index_of_port, Hosts
    <3> QED BY <2>2, <3>1
  <2> QED BY <1>2, <2>1, <2>2
<1>9. ASSUME NEW i \in index
      PROVE  /\ status' \in {"runs", "killed"}
             /\ inbox' \in [Apps -> Seq(Up)]
             /\ \A x \in Apps : x # hosts[i].app => inbox'[x] = inbox[x]
             /\ app[hosts[i].app].phase = "left" => inbox' = inbox
             /\ app[hosts[i].app].phase # "left" =>
                  inbox'[hosts[i].app] = Append(inbox[hosts[i].app], packet)
  BY <1>1, <1>6, <1>8, WriteToFacts
<1>10. /\ status' \in {"runs", "killed", "undefined"}
       /\ inbox' \in [Apps -> Seq(Up)]
       /\ \A x \in Apps : (\A i \in index : hosts[i].app # x) => inbox'[x] = inbox[x]
  <2>1. CASE index = {}
    <3>1. inbox \in [Apps -> Seq(Up)]
      BY <1>1 DEF TypeOK, Up
    <3> QED BY <1>8, <2>1, <3>1
  <2>2. CASE index # {}
    BY <1>9, <2>2
  <2> QED BY <2>1, <2>2
<1>11. TypeOK'
  BY <1>1, <1>2, <1>4, <1>10 DEF TypeOK, Up
<1>12. OwnPort' /\ PassedReady'
  BY <1>1, <1>2 DEF OwnPort, PassedReady
<1>13. MisledByPortZero'
  <2>1. \A k \in 1..Taken : k \in 1..n
    BY <1>3, <1>7
  <2> QED BY <1>1, <1>2, <1>7, <2>1 DEF MisledByPortZero
<1>14. Wired' /\ PortsUnique' /\ OwnersHold'
  BY <1>1, <1>2, <1>7 DEF Wired, PortsUnique, OwnersHold
<1>15. Current'
  BY <1>1, <1>2, <1>7 DEF Current, CurrentAt
<1>16. InTurn'
  <2>1. Len(from_mip') <= Len(arrived) /\ \A k \in 1..Len(from_mip') : k + 1 \in 1..Len(from_mip)
    BY <1>2, <1>3, <1>4
  <2>2. ASSUME NEW k \in 1..Len(from_mip') PROVE from_mip'[k] = arrived[n + k]
    <3>1. from_mip'[k] = from_mip[k + 1] /\ k + 1 \in 1..Len(from_mip)
      BY <1>2, <1>4, <2>1
    <3>2. Taken + (k + 1) = n + k
      BY <1>3, <1>7, <3>1
    <3> QED BY <1>1, <3>1, <3>2 DEF InTurn
  <2>3. \A k \in 1..Len(arrived) : arrived[k].nr = k
    BY <1>1 DEF InTurn
  <2> QED BY <1>2, <1>7, <2>1, <2>2, <2>3 DEF InTurn
<1>17. Stages'
  <2>1. ASSUME NEW j \in Hosts PROVE StageAt(j)'
    <3> DEFINE a == hosts[j].app
    <3>1. StageAt(j) /\ a \in Apps
      BY <1>1, HostFields DEF Stages
    <3>2. inbox[a] \in Seq(Up)
      BY <1>1, <3>1, AppFields
    <3> HIDE DEF a
    <3>3. inbox'[a] = inbox[a] \/ inbox'[a] = Append(inbox[a], packet)
      BY <1>9, <1>10, <3>1
    <3>4. CASE inbox'[a] = inbox[a]
      BY <1>2, <3>1, <3>4 DEF StageAt, a
    <3>5. CASE inbox'[a] = Append(inbox[a], packet)
      <4> DEFINE up == Append(inbox[a], packet)
      <4>1. /\ Len(inbox[a]) \in Nat /\ Len(up) = Len(inbox[a]) + 1
            /\ \A k \in 1..Len(inbox[a]) : up[k] = inbox[a][k]
            /\ up[Len(inbox[a]) + 1] = packet
        BY <1>6, <3>2, UpAppend
      <4> HIDE DEF up
      <4>2. /\ \A k \in 1..Len(up) : k \in 1..Len(inbox[a]) \/ up[k] = packet
            /\ \A k \in 1..Len(inbox[a]) : k \in 1..Len(up)
        BY <4>1
      <4>3. \A p, d : /\ Idle(app[a], p, d, inbox[a]) => Idle(app[a], p, d, up)
                      /\ Asked(app[a], p, d, inbox[a]) => Asked(app[a], p, d, up)
        BY <1>6, <4>1, <4>2 DEF Idle, Asked
      <4>4. ASSUME NEW p, NEW d, Answered(app[a], p, d, inbox[a]) PROVE Answered(app[a], p, d, up)
        <5>1. PICK k \in 1..Len(inbox[a]) :
                /\ inbox[a][k].type = "answer" /\ inbox[a][k].port = p
                /\ inbox[a][k].approved = (p # 0)
                /\ \A l \in 1..Len(inbox[a]) : l # k => inbox[a][l].type = "packet"
          BY <4>4 DEF Answered
        <5>2. k \in 1..Len(up) /\ up[k] = inbox[a][k]
          BY <4>1, <4>2
        <5>3. \A l \in 1..Len(up) : l # k => up[l].type = "packet"
          BY <1>6, <4>1, <4>2, <5>1
        <5> QED BY <4>4, <5>1, <5>2, <5>3 DEF Answered
      <4>5. \A p, d : Stage(app[a], p, d, inbox[a]) => Stage(app[a], p, d, up)
        BY <4>3, <4>4 DEF Stage
      <4> QED BY <1>2, <3>1, <3>5, <4>5 DEF StageAt, a, up
    <3> QED BY <3>3, <3>4, <3>5
  <2>2. ASSUME NEW x \in Apps, \A j \in Hosts : hosts[j].app # x
        PROVE  ~app[x].misled /\ inbox'[x] = <<>> /\ Stage(app[x], 0, outbox[x], <<>>)
    <3>1. inbox'[x] = inbox[x]
      BY <1>10, <2>2
    <3> QED BY <1>1, <2>2, <3>1 DEF Stages
  <2> QED BY <1>2, <1>7, <2>1, <2>2 DEF Stages
<1>18. SlotsServed'
  <2> SUFFICES ASSUME NEW j \in Hosts PROVE ServedAt(j)'
    BY <1>7 DEF SlotsServed
  <2> DEFINE a == hosts[j].app
  <2>1. /\ SlotInv(hosts[j], app[a], inbox[a], arrived, Taken)
        /\ hosts[j] \in Host /\ a \in Apps /\ inbox[a] \in Seq(Up)
    BY <1>1, HostFields, AppFields DEF SlotsServed, ServedAt
  <2> HIDE DEF a
  <2>2. SlotInv(hosts[j], app[a], inbox'[a], arrived, n)
    <3>1. CASE app[a].phase = "left"
      BY <3>1 DEF SlotInv
    <3>2. CASE app[a].phase # "left" /\ j \in index
      <4>1. inbox'[a] = Append(inbox[a], packet) /\ hosts[j].port = packet.port
        BY <1>8, <1>9, <3>2 DEF a
      <4>2. \A x \in packet.owners : x = hosts[j].app
        BY <1>1, <1>5, <4>1 DEF OwnersHold, PortsUnique
      <4>3. HandedTo(hosts[j], Append(inbox[a], packet), arrived, Taken + 1)
        <5>1. packet.owners \subseteq {hosts[j].app} /\ arrived[Taken + 1] = packet
              /\ packet.nr = Taken + 1 /\ HandedTo(hosts[j], inbox[a], arrived, Taken)
          BY <1>5, <1>7, <2>1, <3>2, <4>2 DEF SlotInv
        <5> QED BY <1>3, <1>4, <2>1, <4>1, <5>1, HandedPacket
      <4>4. Early(hosts[j], app[a], Append(inbox[a], packet))
        BY <1>6, <2>1, <3>2, EarlyAppend DEF SlotInv
      <4> QED BY <1>7, <4>1, <4>3, <4>4 DEF SlotInv
    <3>3. CASE app[a].phase # "left" /\ j \notin index
      <4>1. inbox'[a] = inbox[a]
        <5>1. \A i \in index : hosts[i].app # a
          BY <1>1, <1>8, <3>3 DEF Wired, a
        <5> QED BY <1>10, <2>1, <5>1
      <4>2. hosts[j].port = 0 \/ packet.port # hosts[j].port
        <5>1. CASE index = {}
          BY <1>8, <5>1
        <5>2. CASE index # {}
          BY <1>1, <1>8, <3>3, <5>2 DEF PortsUnique
        <5> QED BY <5>1, <5>2
      <4>3. HandedTo(hosts[j], inbox[a], arrived, Taken + 1)
        <5>1. /\ HandedTo(hosts[j], inbox[a], arrived, Taken)
              /\ hosts[j].port = 0 \/ arrived[Taken + 1].port # hosts[j].port
          BY <1>5, <1>7, <2>1, <3>3, <4>2 DEF SlotInv
        <5> QED BY <1>3, <2>1, <5>1, HandedOther
      <4> QED BY <1>7, <2>1, <4>1, <4>3 DEF SlotInv
    <3> QED BY <3>1, <3>2, <3>3
  <2> QED BY <1>2, <1>7, <2>2 DEF ServedAt, a
<1> QED BY <1>11, <1>12, <1>13, <1>14, <1>15, <1>16, <1>17, <1>18 DEF HostsInv, RunInv

-----------------------------------------------------------------------------
(* The theorems *)

\* Nothing has connected, come or been written.
LEMMA InitHolds == Init => HostsInv
<1> SUFFICES ASSUME Init PROVE HostsInv
  OBVIOUS
<1>1. /\ status = "runs" /\ hosts = <<>> /\ backlog = <<>>
      /\ socket = [f \in Descriptors |-> NoApp]
      /\ revents = [i \in Slots |-> "none"]
      /\ app = [x \in Apps |-> [phase |-> "off", port |-> 0, tries |-> 0, written |-> 0,
                                misled |-> FALSE]]
      /\ inbox = [x \in Apps |-> <<>>] /\ outbox = [x \in Apps |-> <<>>]
      /\ from_mip = <<>> /\ arrived = <<>> /\ to_mip = <<>>
  BY DEF Init
<1>2. /\ Len(hosts) = 0 /\ Len(backlog) = 0 /\ Len(from_mip) = 0 /\ Len(arrived) = 0
      /\ Len(to_mip) = 0
  BY <1>1, EmptyFacts
<1>3. \A x \in Apps : app[x] \in App /\ app[x].phase = "off" /\ ~app[x].misled
                      /\ app[x].tries = 0
  BY <1>1 DEF App, Phases, Ports
<1>4. TypeOK
  <2>1. app \in [Apps -> App]
    BY <1>1, <1>3
  <2>2. \A x \in Apps : app[x].tries <= Tries[x]
    BY <1>3, AppsAssumption
  <2> QED BY <1>1, <2>1, <2>2, EmptyFacts DEF TypeOK
<1>5. Hosts = {} /\ Taken = 0
  BY <1>2 DEF Hosts, Taken
<1>6. OwnPort /\ MisledByPortZero /\ PassedReady /\ InTurn /\ OwnersHold
  BY <1>2, <1>3, <1>5 DEF OwnPort, MisledByPortZero, PassedReady, InTurn, OwnersHold
<1>7. Wired /\ PortsUnique /\ SlotsServed
  BY <1>2, <1>5 DEF Wired, PortsUnique, SlotsServed
<1>8. Current
  BY <1>1 DEF Current, CurrentAt
<1>9. Stages
  <2>1. \A x \in Apps : Stage(app[x], 0, outbox[x], <<>>)
    BY <1>1, <1>3, EmptyFacts DEF Stage, Idle
  <2> QED BY <1>1, <1>3, <1>5, <2>1 DEF Stages
<1> QED BY <1>4, <1>6, <1>7, <1>8, <1>9 DEF HostsInv, RunInv

\* The invariant is kept by every step.
LEMMA StepHolds == HostsInv /\ [Next]_vars => HostsInv'
<1> SUFFICES ASSUME HostsInv, [Next]_vars PROVE HostsInv'
  OBVIOUS
<1>1. CASE \E a \in Apps : Connect(a)
  BY <1>1, ConnectStep
<1>2. CASE \E a \in Apps : Program(a)
  BY <1>2, AskStep, ReadAnswerStep, LeaveStep, WriteStep DEF Program
<1>3. CASE \E a \in Apps : Leave(a)
  BY <1>3, LeaveStep
<1>4. CASE Arrive
  BY <1>4, ArriveStep
<1>5. CASE Accept \/ read_message \/ Poll
  BY <1>5, AcceptStep, ReadMessageStep, PollStep
<1>6. CASE \E i \in Slots : Hup(i) \/ PortRequest(i) \/ forward_to_mip(i)
  BY <1>6, HupStep, PortRequestStep, ForwardStep
<1>7. CASE MipGone \/ AcceptNoRoom
  BY <1>7, StopStep
<1>8. CASE UNCHANGED vars
  BY <1>8, StutterStep
<1> QED BY <1>1, <1>2, <1>3, <1>4, <1>5, <1>6, <1>7, <1>8 DEF Next, Loop

\* In every reachable state HostsInv holds, whatever the applications ask for and
\* whatever packets come, for port 0 and for ports not given yet included: as long
\* as the daemon of miptp_daemon.c runs, a port belongs to one slot and an event
\* that is served still applies.
THEOREM HostsInvariant == Spec => []HostsInv
<1>1. Init => HostsInv
  BY InitHolds
<1>2. HostsInv /\ [Next]_vars => HostsInv'
  BY StepHolds
<1> QED BY <1>1, <1>2, PTL DEF Spec

\* The variables keep their types: what is on every connection is made of
\* requests, messages, answers and packets, and no application asks oftener than
\* file_transfer.c:60 allows.
THEOREM TypeCorrect == Spec => []TypeOK
<1>1. HostsInv => TypeOK
  BY DEF HostsInv
<1> QED BY <1>1, HostsInvariant, PTL

\* Every message goes out under the port that the slot of its application was
\* given, whoever had the descriptor before, and the application takes the same
\* port for its own unless it was misled (miptp_daemon.c:107-117).
THEOREM OwnPortAlways == Spec => []OwnPort
<1>1. HostsInv => OwnPort
  BY DEF HostsInv
<1> QED BY <1>1, HostsInvariant, PTL

\* No application takes anything but the daemon's answer for its port before a
\* packet for port 0 was read: not one for the port it asks for that comes before
\* it was given, and not one between the approval and the reading of the answer.
THEOREM OnlyPortZeroMisleads == Spec => []MisledByPortZero
<1>1. HostsInv => MisledByPortZero
  BY DEF HostsInv
<1> QED BY <1>1, HostsInvariant, PTL

\* What HostsInv says of a slot is what HandedItsOwn says of it.
LEMMA HandedFromInv == HostsInv => HandedItsOwn
<1> SUFFICES ASSUME HostsInv, status = "runs",
                    NEW i \in 1..Len(hosts), app[hosts[i].app].phase # "left"
             PROVE  LET host == hosts[i]
                        a == host.app
                    IN  /\ host.port # 0 =>
                            {m \in {inbox[a][k].nr : k \in Handed(a)} : m > host.since}
                                = {m \in 1..Taken : m > host.since /\ arrived[m].port = host.port}
                        /\ \A k \in Handed(a) :
                            inbox[a][k].port \in {0, host.port} /\ inbox[a][k].owners \subseteq {a}
                        /\ \A j, k \in Handed(a) : j < k => inbox[a][j].nr < inbox[a][k].nr
  BY DEF HandedItsOwn
<1> DEFINE a == hosts[i].app
           up == inbox[a]
<1>1. HandedTo(hosts[i], up, arrived, Taken)
  BY DEF HostsInv, RunInv, SlotsServed, ServedAt, SlotInv, Hosts
<1>2. PacketsIn(up) = Handed(a)
  BY DEF PacketsIn, Handed
<1> HIDE DEF up, a
<1>3. hosts[i].port # 0 =>
        {m \in {up[k].nr : k \in Handed(a)} : m > hosts[i].since}
            = {m \in 1..Taken : m > hosts[i].since /\ arrived[m].port = hosts[i].port}
  <2> SUFFICES ASSUME hosts[i].port # 0
               PROVE  {m \in {up[k].nr : k \in Handed(a)} : m > hosts[i].since}
                        = {m \in 1..Taken : m > hosts[i].since /\ arrived[m].port = hosts[i].port}
    OBVIOUS
  <2>1. \A k \in Handed(a) : up[k].nr \in 1..Taken
    BY <1>1, <1>2 DEF HandedTo
  <2>2. \A m \in 1..Taken : m > hosts[i].since =>
            (arrived[m].port = hosts[i].port <=> \E k \in Handed(a) : up[k].nr = m)
    BY <1>1, <1>2 DEF HandedTo
  <2> QED BY <2>1, <2>2
<1>4. /\ \A k \in Handed(a) : up[k].port \in {0, hosts[i].port} /\ up[k].owners \subseteq {a}
      /\ \A j, k \in Handed(a) : j < k => up[j].nr < up[k].nr
  BY <1>1, <1>2 DEF HandedTo, a
<1> QED BY <1>3, <1>4 DEF up, a

\* From the moment its slot has a port every application is handed the packets
\* for it that are read, all of them, once, in their order and none of another
\* application; the only others it can ever be handed are for port 0
\* (miptp_utils.c:184-188 and 325).
THEOREM EverybodyItsOwn == Spec => []HandedItsOwn
<1>1. HostsInv => HandedItsOwn
  BY HandedFromInv
<1> QED BY <1>1, HostsInvariant, PTL
=============================================================================
