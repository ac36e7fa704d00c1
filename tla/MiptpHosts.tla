----------------------------- MODULE MiptpHosts -----------------------------
(***************************************************************************)
(* The connections of one MIPTP daemon (miptp_daemon.c and read_message,   *)
(* index_of_port, available_port of miptp_utils.c) and the applications on *)
(* top of it (file_transfer.c, file_server.c): an application connects,    *)
(* asks for a port until one is approved, and then writes and is handed    *)
(* messages.  Sequence numbers, acknowledgements and the window are those  *)
(* of module Miptp; here a packet of the network arrives once.             *)
(*                                                                         *)
(* The loop polls, and then does one of four things: it ends when the MIP  *)
(* daemon has gone; or accepts one connection; or reads one message of the *)
(* MIP daemon; or serves every application that had an event when poll     *)
(* returned, in the order of their slots.  The last takes several steps,   *)
(* between which applications go on: revents holds the events to serve.    *)
(*                                                                         *)
(* A slot of hosts is never given back, and neither is its port.  The file *)
(* descriptor in it is: the kernel gives the lowest free number to the     *)
(* next connection.  Descriptor 0 is the terminal, which is silent.        *)
(*                                                                         *)
(* Nothing that is read says what it is.  The daemon takes the first byte  *)
(* of what an application writes for the port it asks for, as long as its  *)
(* slot has none; an application that waits for its answer takes the first *)
(* two bytes of whatever comes for it.  A port of 0 marks a slot without a *)
(* port, but a packet for port 0 is handed to the first such slot.         *)
(*                                                                         *)
(* A write to an application that has left fails, and the result is not    *)
(* looked at.  The sockets keep message boundaries, for which Linux sends  *)
(* no SIGPIPE; where one is sent nobody handles it, and the daemon ends.   *)
(***************************************************************************)
EXTENDS Naturals, Sequences, FiniteSets

CONSTANTS
    Apps,           \* runs of application programs
    NoApp,          \* nobody
    Wanted,         \* Wanted[a]: the ports a may ask for
    Tries,          \* Tries[a]: how often it asks, 3 or 1
    Dst,            \* Dst[a]: the first byte of its messages, where they go
    Msgs,           \* Msgs[a]: bound on the messages a writes, 0 for a server
    Leaving,        \* applications that may end at any time
    PacketPorts,    \* the ports that packets come for, at any time
    Sources,        \* address and port of those who send them
    MaxPackets,     \* bound: packets that come from the network
    MAX_NODES,      \* 20: entries of the array for poll, two of them taken
    BACKLOG         \* 2: connections that wait behind listen(.., 1)

Ports == 0..255
Source == [mip : 0..255, port : Ports]

ASSUME AppsAssumption ==
    /\ NoApp \notin Apps /\ IsFiniteSet(Apps)
    /\ Wanted \in [Apps -> SUBSET Ports]
    /\ Tries \in [Apps -> 1..3]
    /\ Dst \in [Apps -> 0..255]
    /\ Msgs \in [Apps -> Nat]
    /\ Leaving \subseteq Apps

ASSUME NetworkAssumption ==
    /\ PacketPorts \subseteq Ports
    /\ Sources \subseteq Source

ASSUME BoundsAssumption ==
    /\ MaxPackets \in Nat /\ MAX_NODES \in Nat /\ BACKLOG \in Nat

VARIABLES
    status,     \* of the daemon: "runs", "done", "killed" by SIGPIPE, or
                \* "undefined" after it used an element outside an array
    hosts,      \* slots of the daemon: port, 0 for none, and descriptor
    socket,     \* socket[f]: the application behind descriptor f
    revents,    \* revents[i]: what poll reported of slot i, until it is served
    backlog,    \* connections that wait to be accepted
    app,        \* app[a]: the application
    inbox,      \* inbox[a]: what the daemon has written to a
    outbox,     \* outbox[a]: what a has written and the daemon not read
    from_mip,   \* packets the MIP daemon has handed to this one
    arrived,    \* history: packets that have come
    to_mip      \* history: messages of applications passed on

vars == <<status, hosts, socket, revents, backlog, app, inbox, outbox,
          from_mip, arrived, to_mip>>

\* Descriptors: 0 is the terminal, the others are for applications.
Descriptors == 1..Cardinality(Apps)
Slots == 1..MAX_NODES - 2

\* The fields app and since are history: the application that was accepted into
\* the slot, and how many packets the daemon had read when it gave the port.
Host == [port : Ports, fd : {0} \cup Descriptors, app : Apps, since : Nat]

\* The port is the one the application takes for its own.  The field misled is
\* history: it has read something else where it waited for its answer.
Phases == {"off", "connected", "asking", "ready", "left"}
App == [phase : Phases, port : Ports, tries : Nat, written : Nat, misled : BOOLEAN]

\* What an application writes, a request for a port or a message, of which the
\* daemon looks at the first byte; what is written to it, an answer or a packet;
\* and what is passed on.  The fields nr and owners of a packet are history: its
\* number among those that have come, and the application that had its port then.
Written == [type : {"request", "message"}, byte : 0..255]
Answer == [type : {"answer"}, approved : BOOLEAN, port : Ports]
Packet == [type : {"packet"}, nr : Nat, port : Ports, from : Source, owners : SUBSET Apps]
Passed == [type : {"request", "message"}, port : Ports, app : Apps]

TypeOK ==
    /\ status \in {"runs", "done", "killed", "undefined"}
    /\ hosts \in Seq(Host)
    /\ socket \in [Descriptors -> Apps \cup {NoApp}]
    /\ revents \in [Slots -> {"none", "in", "hup"}]
    /\ backlog \in Seq(Apps)
    /\ app \in [Apps -> App]
    /\ \A a \in Apps : app[a].tries <= Tries[a]
    /\ inbox \in [Apps -> Seq(Answer \cup Packet)]
    /\ outbox \in [Apps -> Seq(Written)]
    /\ from_mip \in Seq(Packet)
    /\ arrived \in Seq(Packet)
    /\ to_mip \in Seq(Passed)

Init ==
    /\ status = "runs"
    /\ hosts = <<>>
    /\ socket = [f \in Descriptors |-> NoApp]
    /\ revents = [i \in Slots |-> "none"]
    /\ backlog = <<>>
    /\ app = [a \in Apps |-> [phase |-> "off", port |-> 0, tries |-> 0, written |-> 0,
                              misled |-> FALSE]]
    /\ inbox = [a \in Apps |-> <<>>]
    /\ outbox = [a \in Apps |-> <<>>]
    /\ from_mip = <<>>
    /\ arrived = <<>>
    /\ to_mip = <<>>

daemon == <<status, hosts, socket, revents, from_mip, arrived, to_mip>>

-----------------------------------------------------------------------------
(* The applications *)

\* Without a daemon there is nothing for an application to do.
In(a, phases) == status = "runs" /\ app[a].phase \in phases

Connect(a) ==
    /\ In(a, {"off"})
    /\ Len(backlog) < BACKLOG
    /\ backlog' = Append(backlog, a)
    /\ app' = [app EXCEPT ![a].phase = "connected"]
    /\ UNCHANGED <<inbox, outbox, daemon>>

\* Mutant: one more request than was meant.
TriesOverLate(a) == app[a].tries > Tries[a]

TriesOver(a) == app[a].tries = Tries[a]

Ask(a) ==
    /\ In(a, {"connected"})
    /\ ~TriesOver(a)
    /\ \E port \in Wanted[a] :
        outbox' = [outbox EXCEPT ![a] = Append(@, [type |-> "request", byte |-> port])]
    /\ app' = [app EXCEPT ![a].phase = "asking", ![a].tries = @ + 1]
    /\ UNCHANGED <<backlog, inbox, daemon>>

\* The two bytes an application reads: of an answer, whether its request was
\* approved and its port; of a packet, the address and the port it is from.
Approved(msg) == IF msg.type = "answer" THEN msg.approved ELSE msg.from.mip # 0
my_port(msg) == IF msg.type = "answer" THEN msg.port ELSE msg.from.port

\* Whatever was written to it first is taken for the answer.
ReadAnswer(a) ==
    /\ In(a, {"asking"})
    /\ inbox[a] # <<>>
    /\ LET msg == Head(inbox[a])
       IN  app' = [app EXCEPT ![a].phase = IF Approved(msg) THEN "ready" ELSE "connected",
                              ![a].port = IF Approved(msg) THEN my_port(msg) ELSE @,
                              ![a].misled = @ \/ msg.type # "answer"]
    /\ inbox' = [inbox EXCEPT ![a] = Tail(@)]
    /\ UNCHANGED <<backlog, outbox, daemon>>

\* "Portnumber not accepted".
GiveUp(a) ==
    /\ In(a, {"connected"})
    /\ TriesOver(a)
    /\ app' = [app EXCEPT ![a].phase = "left"]
    /\ UNCHANGED <<backlog, inbox, outbox, daemon>>

Write(a) ==
    /\ In(a, {"ready"})
    /\ app[a].written < Msgs[a]
    /\ app' = [app EXCEPT ![a].written = @ + 1]
    /\ outbox' = [outbox EXCEPT ![a] = Append(@, [type |-> "message", byte |-> Dst[a]])]
    /\ UNCHANGED <<backlog, inbox, daemon>>

Leave(a) ==
    /\ a \in Leaving
    /\ In(a, {"connected", "asking", "ready"})
    /\ app' = [app EXCEPT ![a].phase = "left"]
    /\ UNCHANGED <<backlog, inbox, outbox, daemon>>

-----------------------------------------------------------------------------
(* The network *)

\* The application whose slot has a port.
Owners(port) ==
    {hosts[i].app : i \in {j \in 1..Len(hosts) : port # 0 /\ hosts[j].port = port}}

\* The next packet, for any port: one that was given, one that will be given or
\* will be denied, one that nobody asks for, or 0.
Arrive ==
    /\ status = "runs"
    /\ Len(arrived) < MaxPackets
    /\ \E port \in PacketPorts, source \in Sources :
        LET packet == [type |-> "packet", nr |-> Len(arrived) + 1, port |-> port,
                       from |-> source, owners |-> Owners(port)]
        IN  /\ arrived' = Append(arrived, packet)
            /\ from_mip' = Append(from_mip, packet)
    /\ UNCHANGED <<status, hosts, socket, revents, backlog, app, inbox, outbox, to_mip>>

-----------------------------------------------------------------------------
(* The daemon *)

\* The loop is at poll.
Polls == status = "runs" /\ \A i \in Slots : revents[i] = "none"

MipGone ==
    /\ Polls
    /\ status' = "done"
    /\ UNCHANGED <<hosts, socket, revents, backlog, app, inbox, outbox, from_mip, arrived, to_mip>>

\* The kernel gives the lowest free descriptor.
Lowest(f) == socket[f] = NoApp /\ \A g \in 1..f - 1 : socket[g] # NoApp

\* The array for poll has an entry for the next connection.
HasRoom == Len(hosts) + 2 < MAX_NODES

Accept ==
    /\ Polls
    /\ backlog # <<>>
    /\ HasRoom
    /\ \E f \in Descriptors :
        /\ Lowest(f)
        /\ hosts' = Append(hosts, [port |-> 0, fd |-> f, app |-> Head(backlog), since |-> 0])
        /\ socket' = [socket EXCEPT ![f] = Head(backlog)]
    /\ backlog' = Tail(backlog)
    /\ UNCHANGED <<status, revents, app, inbox, outbox, from_mip, arrived, to_mip>>

\* Nobody looks whether there is: the connection is written behind the array.
AcceptNoRoom ==
    /\ Polls
    /\ backlog # <<>>
    /\ ~HasRoom
    /\ status' = "undefined"
    /\ backlog' = Tail(backlog)
    /\ UNCHANGED <<hosts, socket, revents, app, inbox, outbox, from_mip, arrived, to_mip>>

\* The application behind a descriptor; nobody is behind the terminal.
Behind(fd) == IF fd = 0 THEN NoApp ELSE socket[fd]

\* What is written to a descriptor with nobody behind it, or to an application
\* that has left, is lost.
WriteTo(fd, msg) ==
    LET peer == Behind(fd)
    IN  IF peer = NoApp THEN UNCHANGED <<inbox, status>>
        ELSE IF app[peer].phase = "left" THEN status' \in {"runs", "killed"} /\ UNCHANGED inbox
        ELSE inbox' = [inbox EXCEPT ![peer] = Append(@, msg)] /\ UNCHANGED status

\* Mutant: a port that is not found gives the first element.
index_of_portFirst(port) ==
    {i \in 1..Len(hosts) : /\ i = 1 \/ hosts[i].port = port
                           /\ \A j \in 1..Len(hosts) : j # i => hosts[j].port # port}

index_of_port(port) ==
    {i \in 1..Len(hosts) : hosts[i].port = port /\ \A j \in 1..i - 1 : hosts[j].port # port}

\* A packet for a port nobody has makes the daemon use the element before the
\* first: what happens is undefined, or it writes to the listening socket, which
\* fails.  A packet for port 0 is handed to the first slot without a port.
read_message ==
    LET packet == Head(from_mip)
        index == index_of_port(packet.port)
    IN  /\ Polls
        /\ backlog = <<>>
        /\ from_mip # <<>>
        /\ from_mip' = Tail(from_mip)
        /\ \/ \E i \in index : WriteTo(hosts[i].fd, packet)
           \/ /\ index = {}
              /\ status' \in {"runs", "undefined"}
              /\ UNCHANGED inbox
        /\ UNCHANGED <<hosts, socket, revents, backlog, app, outbox, arrived, to_mip>>

\* What poll reports of slot i: the end of the other side comes before what
\* can still be read.
Event(i) ==
    LET peer == Behind(hosts[i].fd)
    IN  IF peer = NoApp THEN "none"
        ELSE IF app[peer].phase = "left" THEN "hup"
        ELSE IF outbox[peer] # <<>> THEN "in"
        ELSE "none"

Poll ==
    /\ Polls
    /\ backlog = <<>>
    /\ from_mip = <<>>
    /\ \E i \in 1..Len(hosts) : Event(i) # "none"
    /\ revents' = [i \in Slots |-> IF i <= Len(hosts) THEN Event(i) ELSE "none"]
    /\ UNCHANGED <<status, hosts, socket, backlog, app, inbox, outbox,
                   from_mip, arrived, to_mip>>

\* Slot i is the next one with an event.
Serves(i, event) ==
    /\ status = "runs"
    /\ revents[i] = event
    /\ \A j \in 1..i - 1 : revents[j] = "none"
    /\ revents' = [revents EXCEPT ![i] = "none"]
    /\ UNCHANGED <<backlog, app, from_mip, arrived>>

Client(i) == Behind(hosts[i].fd)

\* Mutants: the port can be given to somebody else; the descriptor stays.
ClosedFreesPort(host) == [host EXCEPT !.port = 0, !.fd = 0]
ClosedKeepsFd(host) == host

\* The slot of an application that has left.
Closed(host) == [host EXCEPT !.fd = 0]

\* What the application wrote before it left is not read.
Hup(i) ==
    /\ Serves(i, "hup")
    /\ hosts' = [hosts EXCEPT ![i] = Closed(@)]
    /\ socket' = [socket EXCEPT ![hosts[i].fd] = NoApp]
    /\ UNCHANGED <<status, inbox, outbox, to_mip>>

available_port(port) == \A i \in 1..Len(hosts) : hosts[i].port # port

\* Mutant: nothing is said when the port is taken.
send_port_responseApproved(fd, port, approved) ==
    IF approved THEN WriteTo(fd, [type |-> "answer", approved |-> TRUE, port |-> port])
    ELSE UNCHANGED <<inbox, status>>

send_port_response(fd, port, approved) ==
    WriteTo(fd, [type |-> "answer", approved |-> approved, port |-> port])

\* The next message of the application in slot i.
ReadsApp(i) ==
    /\ Serves(i, "in")
    /\ outbox[Client(i)] # <<>>
    /\ outbox' = [outbox EXCEPT ![Client(i)] = Tail(@)]

\* How many packets the daemon has read.
Taken == Len(arrived) - Len(from_mip)

\* The slot has no port: the first byte is taken for the one that is asked for.
PortRequest(i) ==
    LET port == Head(outbox[Client(i)]).byte
        approved == available_port(port)
        given == IF approved THEN port ELSE 0
    IN  /\ ReadsApp(i)
        /\ hosts[i].port = 0
        /\ hosts' = [hosts EXCEPT ![i].port = given, ![i].since = IF approved THEN Taken ELSE 0]
        /\ send_port_response(hosts[i].fd, given, approved)
        /\ UNCHANGED <<socket, to_mip>>

\* The slot has a port: this is a message to pass on.
forward_to_mip(i) ==
    LET client == Client(i)
    IN  /\ ReadsApp(i)
        /\ hosts[i].port # 0
        /\ to_mip' = Append(to_mip, [type |-> Head(outbox[client]).type,
                                     port |-> hosts[i].port, app |-> client])
        /\ UNCHANGED <<status, hosts, socket, inbox>>

Loop ==
    \/ Accept \/ AcceptNoRoom \/ read_message \/ Poll
    \/ \E i \in Slots : Hup(i) \/ PortRequest(i) \/ forward_to_mip(i)

Program(a) == Ask(a) \/ ReadAnswer(a) \/ GiveUp(a) \/ Write(a)

Next ==
    \/ \E a \in Apps : Connect(a)
    \/ \E a \in Apps : Program(a)
    \/ \E a \in Apps : Leave(a)
    \/ Arrive
    \/ Loop
    \/ MipGone

Spec == Init /\ [][Next]_vars

\* The daemon never stops at poll with an event, and an application goes on once
\* somebody has started it.
Fairness ==
    /\ WF_vars(Loop)
    /\ \A a \in Apps : WF_vars(Program(a))

FairSpec == Spec /\ Fairness

-----------------------------------------------------------------------------
(* Properties *)

\* The places of the packets in what was written to a and is not read yet.
Handed(a) == {k \in 1..Len(inbox[a]) : inbox[a][k].type = "packet"}

\* From the moment its slot has a port, an application is handed the packets for
\* that port that the daemon reads, all of them, once and in their order, and no
\* others: none that was on its way to an application whose place it took, because
\* neither the slot nor the port of one that left is used again, although its
\* descriptor is (miptp_daemon.c:100-103, miptp_utils.c:285, 296 and 325).  What
\* it was handed before that was for port 0.
HandedItsOwn ==
    \A i \in 1..Len(hosts) :
        LET host == hosts[i]
            self == host.app
        IN  status = "runs" /\ app[self].phase # "left" =>
            /\ host.port # 0 =>
                {n \in {inbox[self][k].nr : k \in Handed(self)} : n > host.since}
                    = {n \in 1..Taken : n > host.since /\ arrived[n].port = host.port}
            /\ \A k \in Handed(self) :
                inbox[self][k].port \in {0, host.port} /\ inbox[self][k].owners \subseteq {self}
            /\ \A j, k \in Handed(self) : j < k => inbox[self][j].nr < inbox[self][k].nr

\* What goes out (miptp_utils.c:149) goes out under the port that was given to the
\* slot of the application that wrote it, whoever had its descriptor before; and
\* it is a message, under the port the application was told, unless the
\* application took a packet for the answer to its request (file_transfer.c:75,
\* file_server.c:64).
OwnPort ==
    \A k \in 1..Len(to_mip) :
        LET m == to_mip[k]
        IN  /\ \E i \in 1..Len(hosts) : hosts[i].app = m.app /\ hosts[i].port = m.port
            /\ app[m.app].misled \/ (m.type = "message" /\ app[m.app].port = m.port)

\* An application takes a packet for its answer only if the daemon has read one
\* for port 0: one for the port it asks for is handed to it after the answer,
\* however early it comes (miptp_daemon.c:111-113, miptp_utils.c:184-188).
MisledByPortZero ==
    (\E a \in Apps : app[a].misled) => \E n \in 1..Taken : arrived[n].port = 0

\* When no more packets and connections come, as after MaxPackets and everybody
\* in Apps, an application that has connected, stays and was not misled has all
\* its requests denied, or is given its port and everything it writes is passed
\* on, if the daemon goes on.
Served ==
    \A a \in Apps \ Leaving :
        app[a].phase # "off"
            ~> \/ status # "runs"
               \/ app[a].phase = "left" \/ app[a].misled
               \/ /\ app[a].phase = "ready"
                  /\ Cardinality({k \in 1..Len(to_mip) : to_mip[k].app = a}) = Msgs[a]
=============================================================================
