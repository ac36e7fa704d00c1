----------------------------- MODULE MipClients -----------------------------
(***************************************************************************)
(* The client programs of one MIP daemon and the array of descriptors it   *)
(* polls (mip_daemon.c): slot 0 is the listening socket, 1 the raw socket, *)
(* 2 a ping program, 3 the routing daemon, 4 the MIPTP daemon, and 5 and 6 *)
(* are connections that have not said yet which of these they are.  The    *)
(* programs are ping_client.c, ping_server.c, routing_daemon.c and         *)
(* miptp_daemon.c, of each as many runs as there are in Programs; what the *)
(* last two say is the matter of the modules Routing and MiptpHosts.       *)
(*                                                                         *)
(* A round of poll_loop goes through the slots from 0 to 6 with the events *)
(* poll has reported for them: revents holds those not served yet.  While  *)
(* the round lasts programs go on, and a slot may get another program than *)
(* the one its event was reported for.                                     *)
(*                                                                         *)
(* An entry without a program has descriptor 0, the terminal, which is     *)
(* silent.  A write to a program that has left fails, and the result is    *)
(* not looked at.  The sockets keep message boundaries, for which Linux    *)
(* sends no SIGPIPE; where one is sent nobody handles it, and the daemon   *)
(* ends.                                                                   *)
(***************************************************************************)
EXTENDS Integers, Sequences, FiniteSets

CONSTANTS
    Programs,       \* runs of programs
    None,           \* no program: a descriptor of 0
    Kind,           \* Kind[p]: which program p runs
    Leaving,        \* programs that may end at any time
    FrameSlots,     \* frames for this node that may come: their clients' slots
    MaxFrames,      \* bound: frames that come
    MaxMsgs,        \* bound: messages a routing or MIPTP daemon writes
    BACKLOG         \* 2: connections that wait behind listen(.., 1)

Kinds == {"ping_client", "ping_server", "routing", "miptp"}

ASSUME ProgramsAssumption ==
    /\ None \notin Programs
    /\ Kind \in [Programs -> Kinds]
    /\ Leaving \subseteq Programs

ASSUME BoundsAssumption ==
    /\ FrameSlots \subseteq {2, 3, 4}
    /\ MaxFrames \in Nat /\ MaxMsgs \in Nat /\ BACKLOG \in Nat

VARIABLES
    status,     \* of the daemon: "runs", "stopped", "killed" or "crashed"
    fds,        \* fds[i]: the program behind slot i
    revents,    \* revents[i]: what poll reported of slot i, until it is served
    backlog,    \* connections that wait to be accepted
    frames,     \* frames on the raw socket
    came,       \* frames that have come
    phase,      \* phase[p]: how far the program is
    outbox,     \* outbox[p]: what p has written and the daemon not read
    inbox,      \* inbox[p]: what the daemon has written to a ping program
    written,    \* written[p]: messages p has written
    passed,     \* history: passed[p]: messages of p the daemon has taken
    identified, \* history: programs in the order the daemon identified them
    lost        \* history: programs whose connection was put nowhere

vars == <<status, fds, revents, backlog, frames, came, phase, outbox, inbox,
          written, passed, identified, lost>>

Named == 2..4
Pending == 5..6
Slots == Named \cup Pending
Entries == 0..6

SlotOf(p) == CASE Kind[p] \in {"ping_client", "ping_server"} -> 2
               [] Kind[p] = "routing" -> 3
               [] Kind[p] = "miptp" -> 4

TypeOK ==
    /\ status \in {"runs", "stopped", "killed", "crashed"}
    /\ fds \in [Slots -> Programs \cup {None}]
    /\ revents \in [Entries -> {"none", "in", "hup"}]
    /\ backlog \in Seq(Programs)
    /\ frames \in Seq(FrameSlots)
    /\ came \in 0..MaxFrames
    /\ phase \in [Programs -> {"off", "connected", "running", "left"}]
    /\ outbox \in [Programs -> Seq({"identifier", "message"})]
    /\ inbox \in [Programs -> Nat]
    /\ written \in [Programs -> Nat]
    /\ passed \in [Programs -> Nat]
    /\ identified \in Seq(Programs)
    /\ lost \subseteq Programs

Init ==
    /\ status = "runs"
    /\ fds = [i \in Slots |-> None]
    /\ revents = [i \in Entries |-> "none"]
    /\ backlog = <<>>
    /\ frames = <<>>
    /\ came = 0
    /\ phase = [p \in Programs |-> "off"]
    /\ outbox = [p \in Programs |-> <<>>]
    /\ inbox = [p \in Programs |-> 0]
    /\ written = [p \in Programs |-> 0]
    /\ passed = [p \in Programs |-> 0]
    /\ identified = <<>>
    /\ lost = {}

-----------------------------------------------------------------------------
(* The programs *)

daemon == <<status, fds, revents, frames, came, passed, identified, lost>>

Connect(p) ==
    /\ status = "runs"
    /\ phase[p] = "off"
    /\ Len(backlog) < BACKLOG
    /\ backlog' = Append(backlog, p)
    /\ phase' = [phase EXCEPT ![p] = "connected"]
    /\ UNCHANGED <<outbox, inbox, written, daemon>>

write_identifying_msg(p) ==
    /\ status = "runs"
    /\ phase[p] = "connected"
    /\ phase' = [phase EXCEPT ![p] = "running"]
    /\ outbox' = [outbox EXCEPT ![p] = Append(@, "identifier")]
    /\ UNCHANGED <<backlog, inbox, written, daemon>>

\* p writes a message to the daemon.
Writes(p) ==
    /\ status = "runs"
    /\ phase[p] = "running"
    /\ written' = [written EXCEPT ![p] = @ + 1]
    /\ outbox' = [outbox EXCEPT ![p] = Append(@, "message")]
    /\ UNCHANGED <<backlog, phase, daemon>>

\* A ping client writes one message, and the two daemons any number.
Message(p) ==
    /\ Kind[p] # "ping_server"
    /\ written[p] < (IF Kind[p] = "ping_client" THEN 1 ELSE MaxMsgs)
    /\ Writes(p)
    /\ UNCHANGED inbox

\* Mutant: an answer is written also when nothing was read.
PongUnasked(p) ==
    /\ Kind[p] = "ping_server"
    /\ inbox' = [inbox EXCEPT ![p] = @ - 1]
    /\ Writes(p)

\* A ping server answers what it reads.
Pong(p) ==
    /\ Kind[p] = "ping_server"
    /\ inbox[p] > 0
    /\ inbox' = [inbox EXCEPT ![p] = @ - 1]
    /\ Writes(p)

Leaves(p) ==
    /\ phase' = [phase EXCEPT ![p] = "left"]
    /\ UNCHANGED <<backlog, outbox, inbox, written, daemon>>

\* A ping client reads until the answer has come or a second is over, which it
\* measures in processor time.
PingEnds(p) ==
    /\ Kind[p] = "ping_client"
    /\ phase[p] = "running" /\ written[p] = 1
    /\ Leaves(p)

\* A ping client does not wait for its connection: with no room it ends.
ConnectFails(p) ==
    /\ Kind[p] = "ping_client"
    /\ status = "runs"
    /\ phase[p] = "off" /\ Len(backlog) >= BACKLOG
    /\ Leaves(p)

Leave(p) ==
    /\ p \in Leaving
    /\ phase[p] \in {"connected", "running"}
    /\ Leaves(p)

\* The daemon has gone: a read gives nothing, and the program ends.
SeesEnd(p) ==
    /\ status # "runs"
    /\ phase[p] \in {"connected", "running"}
    /\ Leaves(p)

-----------------------------------------------------------------------------
(* The daemon *)

programs == <<backlog, phase, outbox, inbox, written>>

\* The raw socket gets a frame for the client of slot i.
Arrive(i) ==
    /\ status = "runs"
    /\ came < MaxFrames
    /\ i \in FrameSlots
    /\ came' = came + 1
    /\ frames' = Append(frames, i)
    /\ UNCHANGED <<status, fds, revents, passed, identified, lost, programs>>

\* What poll reports of slot i.  The end of the other side comes before what
\* can still be read.
Event(i) ==
    IF i = 0 THEN (IF backlog # <<>> THEN "in" ELSE "none")
    ELSE IF i = 1 THEN (IF frames # <<>> THEN "in" ELSE "none")
    ELSE IF fds[i] = None THEN "none"
    ELSE IF phase[fds[i]] = "left" THEN "hup"
    ELSE IF outbox[fds[i]] # <<>> THEN "in"
    ELSE "none"

\* Mutant: the last slot is left out.
PolledShort == 0..5

\* The slots that poll is given.
Polled == Entries

\* The round is over.
AllServed == \A i \in Entries : revents[i] = "none"

Poll ==
    /\ status = "runs"
    /\ AllServed
    /\ \E i \in Polled : Event(i) # "none"
    /\ revents' = [i \in Entries |-> IF i \in Polled THEN Event(i) ELSE "none"]
    /\ UNCHANGED <<status, fds, frames, came, passed, identified, lost, programs>>

\* No event for ten seconds, or sixty seconds since the start.
Stop ==
    /\ status = "runs"
    /\ AllServed
    /\ status' = "stopped"
    /\ UNCHANGED <<fds, revents, frames, came, passed, identified, lost, programs>>

\* Mutant: the array is gone through from its end.
BeforeFromEnd(j, i) == j > i

\* The loop comes to slot j before slot i.
Before(j, i) == j < i

\* The next event of the round is one of slot i.
Serves(i, event) ==
    /\ status = "runs"
    /\ revents[i] = event
    /\ \A j \in Entries : Before(j, i) => revents[j] = "none"
    /\ revents' = [revents EXCEPT ![i] = "none"]

\* A program has left; what it wrote last is not read.
Disconnect(i) ==
    /\ Serves(i, "hup")
    /\ fds' = [fds EXCEPT ![i] = None]
    /\ UNCHANGED <<status, frames, came, passed, identified, lost, programs>>

\* Mutant: only the first of the two slots is looked at.
FreeFirst == {i \in {5} : fds[i] = None}

Free == {i \in Pending : fds[i] = None}

handle_new_client ==
    /\ Serves(0, "in")
    /\ Free # {}
    /\ \E i \in Free :
        /\ \A j \in Free : i <= j
        /\ fds' = [fds EXCEPT ![i] = Head(backlog)]
    /\ backlog' = Tail(backlog)
    /\ UNCHANGED <<status, frames, came, passed, identified, lost, phase, outbox, inbox, written>>

\* With both slots taken the loop goes on behind the array: what it writes
\* there is not polled, and may crash the daemon.
NoSlot ==
    /\ Serves(0, "in")
    /\ Free = {}
    /\ status' \in {"runs", "crashed"}
    /\ lost' = lost \cup {Head(backlog)}
    /\ backlog' = Tail(backlog)
    /\ UNCHANGED <<fds, frames, came, passed, identified, phase, outbox, inbox, written>>

\* A write to slot i: to nobody, to one that has left, or to its program.
WriteTo(i) ==
    IF fds[i] = None THEN UNCHANGED <<status, inbox>>
    ELSE IF phase[fds[i]] = "left" THEN status' \in {"runs", "killed"} /\ UNCHANGED inbox
    ELSE /\ inbox' = IF i = 2 THEN [inbox EXCEPT ![fds[i]] = @ + 1] ELSE inbox
         /\ UNCHANGED status

\* A frame for a client of this node.
RawPacket ==
    /\ Serves(1, "in")
    /\ frames' = Tail(frames)
    /\ WriteTo(Head(frames))
    /\ UNCHANGED <<fds, came, passed, identified, lost, backlog, phase, outbox, written>>

\* Takes the next message of the program in slot i.
Reads(i) ==
    /\ Serves(i, "in")
    /\ outbox[fds[i]] # <<>>
    /\ outbox' = [outbox EXCEPT ![fds[i]] = Tail(@)]
    /\ UNCHANGED <<frames, came, lost, backlog, phase, written>>

\* Mutant: the pending entry stays.
MovedKeepsPending(i) == [fds EXCEPT ![SlotOf(fds[i])] = fds[i]]

\* The entry is moved to the slot of its kind; the one that was there, if any,
\* is neither closed nor polled from now on.
Moved(i) == [fds EXCEPT ![SlotOf(fds[i])] = fds[i], ![i] = None]

identify_unix_client(i) ==
    /\ i \in Pending
    /\ Reads(i)
    /\ fds' = Moved(i)
    /\ identified' = Append(identified, fds[i])
    /\ UNCHANGED <<status, inbox, passed>>

handle_routing_msg ==
    /\ Reads(3)
    /\ passed' = [passed EXCEPT ![fds[3]] = @ + 1]
    /\ UNCHANGED <<status, fds, inbox, identified>>

\* A message of a ping program or the MIPTP daemon: the routing daemon is
\* asked for its next hop.
UpperMessage(i) ==
    /\ i \in {2, 4}
    /\ Reads(i)
    /\ passed' = [passed EXCEPT ![fds[i]] = @ + 1]
    /\ WriteTo(3)
    /\ UNCHANGED <<fds, identified>>

poll_loop ==
    \/ Poll
    \/ handle_new_client
    \/ NoSlot
    \/ RawPacket
    \/ handle_routing_msg
    \/ \E i \in Slots : Disconnect(i) \/ identify_unix_client(i) \/ UpperMessage(i)

Program(p) ==
    \/ Connect(p) \/ write_identifying_msg(p) \/ Message(p) \/ Pong(p)
    \/ PingEnds(p) \/ ConnectFails(p) \/ SeesEnd(p)

Next ==
    \/ \E p \in Programs : Program(p)
    \/ \E p \in Programs : Leave(p)
    \/ \E i \in Slots : Arrive(i)
    \/ poll_loop
    \/ Stop

Spec == Init /\ [][Next]_vars

\* The daemon serves the events it finds, and the programs go on.
Fairness ==
    /\ WF_vars(poll_loop)
    /\ \A p \in Programs : WF_vars(Program(p))

FairSpec == Spec /\ Fairness

-----------------------------------------------------------------------------
(* Properties *)

\* No program of the same slot was identified after the k-th.
Latest(k) ==
    \A j \in k + 1..Len(identified) : SlotOf(identified[j]) # SlotOf(identified[k])

\* The last program of its kind that the daemon identified is in its slot for
\* as long as it runs, however it came and an older one went: the end of the
\* older one (mip_daemon.c:532-536) is always seen before the slot is taken over
\* (474-491), or not at all.
LatestInSlot ==
    \A k \in 1..Len(identified) :
        LET p == identified[k]
        IN  status = "runs" /\ phase[p] # "left" /\ Latest(k) => fds[SlotOf(p)] = p

\* How many messages of p the daemon has not read yet.
Unread(p) == Cardinality({k \in 1..Len(outbox[p]) : outbox[p][k] = "message"})

\* Every message of a program is taken as one, once: not for an identifier, and
\* not out of two slots (mip_daemon.c:470-491, 653-661).
MessagesKept ==
    \A p \in Programs : written[p] = passed[p] + Unread(p)

InSeq(p, s) == \E k \in 1..Len(s) : s[k] = p

\* A program that has connected is identified, unless it left, its connection
\* found no slot (mip_daemon.c:453-459), or the daemon ended.
Attended ==
    \A p \in Programs :
        phase[p] = "running"
            ~> \/ InSeq(p, identified) \/ p \in lost
               \/ phase[p] = "left" \/ status # "runs"

\* The daemon has the connection of p, and has not identified it.
Undecided(p) == (\E i \in Slots : fds[i] = p) /\ ~InSeq(p, identified)

\* A connection is put nowhere (mip_daemon.c:453-459 finds no slot) only while the
\* daemon has those of two other programs that it has not identified: however many
\* came, were identified, took the place of another or left before, both slots
\* for connections that have not said who they are come free again.
LossNeedsTwo ==
    [][lost' # lost => \E p, q \in Programs : p # q /\ Undecided(p) /\ Undecided(q)]_vars
=============================================================================
