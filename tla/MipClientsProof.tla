--------------------------- MODULE MipClientsProof ---------------------------
(***************************************************************************)
(* Proofs about MipClients, for every set of programs, every mix of kinds  *)
(* and every limit: the newest program of a kind keeps its slot, every     *)
(* message is taken as a message, once, and a connection is put nowhere    *)
(* only when two others that are not identified hold both slots for them.  *)
(*                                                                         *)
(* None is inductive.  They rest on what the loop over the slots relies on *)
(* without checking it: that an event reported for a slot still applies    *)
(* when the loop comes to it (Current), that a connection is behind one    *)
(* slot at most (OnePlace), and that a connection that has not been        *)
(* identified has its identifier in front (Identifiers) and is not among   *)
(* those that were (NotIdentified).                                        *)
(***************************************************************************)
EXTENDS MipClients, SequenceFacts, FiniteSetTheorems

-----------------------------------------------------------------------------
(* The inductive invariant *)

Letters == {"identifier", "message"}

AllMessages(s) == \A k \in 1..Len(s) : s[k] = "message"

\* An identifier and then messages.
Introduced(s) ==
    /\ s # <<>>
    /\ s[1] = "identifier"
    /\ \A k \in 2..Len(s) : s[k] = "message"

\* What poll reported of slot i is still so.
CurrentAt(i) ==
    /\ revents[i] # "none" => fds[i] # None
    /\ revents[i] = "hup" => phase[fds[i]] = "left"
    /\ revents[i] = "in" => outbox[fds[i]] # <<>>

\* The events not served yet still apply.
Current ==
    /\ revents[0] = "in" => backlog # <<>>
    /\ revents[1] = "in" => frames # <<>>
    /\ \A i \in Slots : CurrentAt(i)

\* A connection waits, or is behind one slot, or neither; a program that has
\* not connected has none.
OnePlace ==
    /\ \A i, j \in Slots : fds[i] = fds[j] /\ fds[i] # None => i = j
    /\ \A k, l \in 1..Len(backlog) : backlog[k] = backlog[l] => k = l
    /\ \A k \in 1..Len(backlog), i \in Slots : fds[i] # backlog[k]
    /\ \A k \in 1..Len(backlog) : phase[backlog[k]] # "off"
    /\ \A i \in Slots : fds[i] # None => phase[fds[i]] # "off"

\* What a program that has not been identified has written, and how far it is:
\* nothing was read of it.
Fresh(s, ph) ==
    \/ s = <<>> /\ ph \in {"connected", "left"}
    \/ Introduced(s)

\* The identifier of a program is the first it writes, and is unread for as
\* long as the program is behind no slot of its own.
Identifiers ==
    /\ \A p \in Programs : phase[p] \in {"off", "connected"} => outbox[p] = <<>>
    /\ \A p \in Programs : AllMessages(outbox[p]) \/ Introduced(outbox[p])
    /\ \A k \in 1..Len(backlog) : Fresh(outbox[backlog[k]], phase[backlog[k]])
    /\ \A i \in Pending : fds[i] # None => Fresh(outbox[fds[i]], phase[fds[i]])
    /\ \A i \in Named :
        fds[i] # None => phase[fds[i]] # "connected" /\ AllMessages(outbox[fds[i]])

\* The inductive invariant.
ClientsInv == TypeOK /\ Current /\ OnePlace /\ Identifiers

-----------------------------------------------------------------------------
(* What programs write *)

\* A program that has introduced itself still has when it writes more.
LEMMA AppendMessage ==
    ASSUME NEW s \in Seq(Letters)
    PROVE  /\ AllMessages(s) => AllMessages(Append(s, "message"))
           /\ Introduced(s) => Introduced(Append(s, "message"))
<1> "message" \in Letters
  BY DEF Letters
<1>1. /\ Len(s) \in Nat
      /\ Append(s, "message") # <<>>
      /\ Len(Append(s, "message")) = Len(s) + 1
      /\ \A k \in 1..Len(s) : Append(s, "message")[k] = s[k]
      /\ Append(s, "message")[Len(s) + 1] = "message"
  BY AppendFacts
<1>2. s # <<>> => Len(s) > 0
  BY EmptyFacts
<1> DEFINE t == Append(s, "message")
<1> HIDE DEF t
<1>3. AllMessages(s) => AllMessages(t)
  BY <1>1, SMT DEF AllMessages, t
<1>4. Introduced(s) => Introduced(t)
  BY <1>1, <1>2, SMT DEF Introduced, t
<1> QED BY <1>3, <1>4 DEF t

\* What is left when the first of it has been read.
LEMMA TailMessages ==
    ASSUME NEW s \in Seq(Letters), s # <<>>
    PROVE  AllMessages(s) \/ Introduced(s) => AllMessages(Tail(s))
<1>1. /\ Len(s) \in Nat /\ Len(s) > 0
      /\ Len(Tail(s)) = Len(s) - 1
      /\ \A k \in 1..Len(Tail(s)) : Tail(s)[k] = s[k + 1]
  BY TailFacts
<1> DEFINE t == Tail(s)
<1> HIDE DEF t
<1> QED BY <1>1, SMT DEF AllMessages, Introduced, t

\* An identifier alone introduces.
LEMMA FirstLetter == Append(<<>>, "identifier") \in Seq(Letters) /\ Introduced(Append(<<>>, "identifier"))
<1> "identifier" \in Letters /\ <<>> \in Seq(Letters) /\ Len(<<>>) = 0
  BY EmptyFacts DEF Letters
<1> DEFINE t == Append(<<>>, "identifier")
<1>1. t \in Seq(Letters) /\ t # <<>> /\ Len(t) = 0 + 1 /\ t[0 + 1] = "identifier"
  BY AppendFacts
<1> HIDE DEF t
<1>2. Introduced(t)
  BY <1>1, SMT DEF Introduced
<1> QED BY <1>1, <1>2 DEF t

\* The slots, and those of the kinds.
LEMMA SlotFacts ==
    /\ Slots = {2, 3, 4, 5, 6} /\ Named = {2, 3, 4} /\ Pending = {5, 6}
    /\ Entries = {0, 1, 2, 3, 4, 5, 6}
  BY SMT DEF Slots, Named, Pending, Entries

\* An identified program has one of the named slots.
LEMMA SlotOfNamed ==
    ASSUME NEW p \in Programs
    PROVE  SlotOf(p) \in Named
<1> Kind[p] \in Kinds
  BY ProgramsAssumption
<1> QED BY SlotFacts DEF SlotOf, Kinds

\* Who is behind a slot or waits for one.
LEMMA PlacesTyped ==
    ASSUME TypeOK
    PROVE  /\ \A i \in Slots : fds[i] \in Programs \/ fds[i] = None
           /\ \A k \in 1..Len(backlog) : backlog[k] \in Programs
<1>1. \A i \in Slots : fds[i] \in Programs \/ fds[i] = None
  BY DEF TypeOK
<1>2. backlog \in Seq(Programs)
  BY DEF TypeOK
<1>3. \A k \in 1..Len(backlog) : backlog[k] \in Programs
  BY <1>2
<1> QED BY <1>1, <1>3

-----------------------------------------------------------------------------
(* The steps of the programs *)

\* A connection is put behind the others that wait.
LEMMA ConnectStep ==
    ASSUME ClientsInv, NEW p \in Programs, Connect(p)
    PROVE  ClientsInv'
<1> USE DEF ClientsInv
<1>1. /\ backlog' = Append(backlog, p)
      /\ phase[p] = "off"
      /\ phase' = [phase EXCEPT ![p] = "connected"]
      /\ UNCHANGED <<status, fds, revents, frames, came, passed, identified, lost, outbox, inbox, written>>
  BY DEF Connect, daemon
<1>2. /\ backlog' \in Seq(Programs) /\ backlog' # <<>>
      /\ Len(backlog) \in Nat /\ Len(backlog') = Len(backlog) + 1
      /\ \A k \in 1..Len(backlog) : backlog'[k] = backlog[k]
      /\ backlog'[Len(backlog) + 1] = p
  <2>1. backlog \in Seq(Programs)
    BY DEF TypeOK
  <2> QED BY <1>1, <2>1, AppendFacts
<1>3. \A q \in Programs : phase'[q] = IF q = p THEN "connected" ELSE phase[q]
  BY <1>1 DEF TypeOK
<1>4. TypeOK'
  BY <1>1, <1>2 DEF TypeOK
<1>5. /\ \A i \in Slots : fds[i] # p
      /\ \A k \in 1..Len(backlog) : backlog[k] # p /\ backlog[k] \in Programs
  BY <1>1, ProgramsAssumption, PlacesTyped DEF OnePlace
<1>6. \A i \in Slots : fds[i] \in Programs \/ fds[i] = None
  BY PlacesTyped
<1>7. Current'
  <2>1. \A i \in Slots : CurrentAt(i)'
    BY <1>1, <1>3, <1>5, <1>6 DEF Current, CurrentAt
  <2> QED BY <1>1, <1>2, <2>1 DEF Current
<1>8. OnePlace'
  <2>1. \A k \in 1..Len(backlog') : k \in 1..Len(backlog) \/ k = Len(backlog) + 1
    BY <1>2
  <2>2. \A k, l \in 1..Len(backlog') : backlog'[k] = backlog'[l] => k = l
    BY <1>2, <1>5, <2>1 DEF OnePlace
  <2>3. \A k \in 1..Len(backlog'), i \in Slots : fds[i] # backlog'[k]
    BY <1>2, <1>5, <2>1 DEF OnePlace
  <2>4. \A k \in 1..Len(backlog') : phase'[backlog'[k]] # "off"
    BY <1>2, <1>3, <1>5, <2>1 DEF OnePlace
  <2>5. \A i \in Slots : fds[i] # None => phase'[fds[i]] # "off"
    BY <1>3, <1>6 DEF OnePlace
  <2> QED BY <1>1, <2>2, <2>3, <2>4, <2>5 DEF OnePlace
<1>9. Identifiers'
  <2>1. outbox[p] = <<>>
    BY <1>1 DEF Identifiers
  <2>2. \A q \in Programs : Fresh(outbox[q], phase[q]) \/ q = p => Fresh(outbox'[q], phase'[q])
    BY <1>1, <1>3, <2>1 DEF Fresh
  <2>3. \A k \in 1..Len(backlog') : Fresh(outbox'[backlog'[k]], phase'[backlog'[k]])
    BY <1>2, <1>5, <2>2 DEF Identifiers
  <2>4. \A i \in Pending : fds[i] # None => Fresh(outbox'[fds[i]], phase'[fds[i]])
    BY <1>6, <2>2 DEF Identifiers, Slots
  <2> QED BY <1>1, <1>3, <1>5, <1>6, <2>1, <2>3, <2>4 DEF Identifiers, Slots
<1> QED BY <1>4, <1>7, <1>8, <1>9

\* A program writes its identifier before anything else.
LEMMA IdentifierStep ==
    ASSUME ClientsInv, NEW p \in Programs, write_identifying_msg(p)
    PROVE  ClientsInv'
<1> USE DEF ClientsInv
<1>1. /\ phase[p] = "connected"
      /\ phase' = [phase EXCEPT ![p] = "running"]
      /\ outbox' = [outbox EXCEPT ![p] = Append(@, "identifier")]
      /\ UNCHANGED <<status, fds, revents, frames, came, passed, identified, lost, backlog, inbox, written>>
  BY DEF write_identifying_msg, daemon
<1>2. outbox[p] = <<>>
  BY <1>1 DEF Identifiers
<1>3. /\ outbox' \in [Programs -> Seq(Letters)]
      /\ Introduced(outbox'[p])
      /\ \A q \in Programs : q # p => outbox'[q] = outbox[q]
  BY <1>1, <1>2, FirstLetter DEF TypeOK, Letters
<1>4. \A q \in Programs : phase'[q] = IF q = p THEN "running" ELSE phase[q]
  BY <1>1 DEF TypeOK
<1>5. TypeOK'
  BY <1>1, <1>3 DEF TypeOK, Letters
<1>6. /\ \A i \in Slots : fds[i] \in Programs \/ fds[i] = None
      /\ \A k \in 1..Len(backlog) : backlog[k] \in Programs
  BY PlacesTyped
<1>7. \A i \in Named : fds[i] # p
  BY <1>1, ProgramsAssumption DEF Identifiers
<1>8. Current'
  <2>1. \A i \in Slots : CurrentAt(i)'
    BY <1>1, <1>3, <1>4, <1>6 DEF Current, CurrentAt, Introduced
  <2> QED BY <1>1, <2>1 DEF Current
<1>9. OnePlace'
  BY <1>1, <1>4, <1>6 DEF OnePlace
<1>10. Identifiers'
  <2>1. \A q \in Programs : Fresh(outbox[q], phase[q]) => Fresh(outbox'[q], phase'[q])
    BY <1>3, <1>4 DEF Fresh
  <2>2. \A k \in 1..Len(backlog) : Fresh(outbox'[backlog[k]], phase'[backlog[k]])
    BY <1>6, <2>1 DEF Identifiers
  <2>3. \A i \in Pending : fds[i] # None => Fresh(outbox'[fds[i]], phase'[fds[i]])
    BY <1>6, <2>1 DEF Identifiers, Slots
  <2>4. \A q \in Programs : phase'[q] \in {"off", "connected"} => outbox'[q] = <<>>
    BY <1>3, <1>4 DEF Identifiers
  <2>5. \A q \in Programs : AllMessages(outbox'[q]) \/ Introduced(outbox'[q])
    BY <1>3 DEF Identifiers
  <2>6. \A i \in Named :
            fds[i] # None => phase'[fds[i]] # "connected" /\ AllMessages(outbox'[fds[i]])
    BY <1>3, <1>4, <1>6, <1>7 DEF Identifiers, Slots
  <2> QED BY <1>1, <2>2, <2>3, <2>4, <2>5, <2>6 DEF Identifiers
<1> QED BY <1>5, <1>8, <1>9, <1>10

\* A program writes a message behind what it wrote before.
LEMMA WritesStep ==
    ASSUME ClientsInv, NEW p \in Programs, Writes(p), inbox' \in [Programs -> Nat]
    PROVE  ClientsInv'
<1> USE DEF ClientsInv
<1>1. /\ phase[p] = "running"
      /\ written' = [written EXCEPT ![p] = @ + 1]
      /\ outbox' = [outbox EXCEPT ![p] = Append(@, "message")]
      /\ UNCHANGED <<status, fds, revents, frames, came, passed, identified, lost, backlog, phase>>
  BY DEF Writes, daemon
<1>2. outbox[p] \in Seq(Letters) /\ "message" \in Letters
  BY DEF TypeOK, Letters
<1>3. /\ outbox' \in [Programs -> Seq(Letters)]
      /\ outbox'[p] # <<>>
      /\ AllMessages(outbox[p]) => AllMessages(outbox'[p])
      /\ Introduced(outbox[p]) => Introduced(outbox'[p])
      /\ \A q \in Programs : q # p => outbox'[q] = outbox[q]
  BY <1>1, <1>2, AppendFacts, AppendMessage DEF TypeOK, Letters
<1>4. TypeOK'
  BY <1>1, <1>3 DEF TypeOK, Letters
<1>5. /\ \A i \in Slots : fds[i] \in Programs \/ fds[i] = None
      /\ \A k \in 1..Len(backlog) : backlog[k] \in Programs
  BY PlacesTyped
<1>6. Current'
  <2>1. \A i \in Slots : CurrentAt(i)'
    BY <1>1, <1>3, <1>5 DEF Current, CurrentAt
  <2> QED BY <1>1, <2>1 DEF Current
<1>7. OnePlace'
  BY <1>1 DEF OnePlace
<1>8. Identifiers'
  <2>1. \A q \in Programs : Fresh(outbox[q], phase[q]) => Fresh(outbox'[q], phase'[q])
    BY <1>1, <1>3 DEF Fresh
  <2>2. \A k \in 1..Len(backlog) : Fresh(outbox'[backlog[k]], phase'[backlog[k]])
    BY <1>5, <2>1 DEF Identifiers
  <2>3. \A i \in Pending : fds[i] # None => Fresh(outbox'[fds[i]], phase'[fds[i]])
    BY <1>5, <2>1 DEF Identifiers, Slots
  <2>4. \A q \in Programs : phase[q] \in {"off", "connected"} => outbox'[q] = <<>>
    BY <1>1, <1>3 DEF Identifiers
  <2>5. \A q \in Programs : AllMessages(outbox'[q]) \/ Introduced(outbox'[q])
    BY <1>3 DEF Identifiers
  <2>6. \A i \in Named :
            fds[i] # None => phase[fds[i]] # "connected" /\ AllMessages(outbox'[fds[i]])
    BY <1>3, <1>5 DEF Identifiers, Slots
  <2> QED BY <1>1, <2>2, <2>3, <2>4, <2>5, <2>6 DEF Identifiers
<1> QED BY <1>4, <1>6, <1>7, <1>8

\* A program ends, with or without something unread.
LEMMA LeavesStep ==
    ASSUME ClientsInv, NEW p \in Programs, Leaves(p)
    PROVE  ClientsInv'
<1> USE DEF ClientsInv
<1>1. /\ phase' = [phase EXCEPT ![p] = "left"]
      /\ UNCHANGED <<status, fds, revents, frames, came, passed, identified, lost, backlog, outbox, inbox, written>>
  BY DEF Leaves, daemon
<1>2. \A q \in Programs : phase'[q] = IF q = p THEN "left" ELSE phase[q]
  BY <1>1 DEF TypeOK
<1>3. TypeOK'
  BY <1>1 DEF TypeOK
<1>4. /\ \A i \in Slots : fds[i] \in Programs \/ fds[i] = None
      /\ \A k \in 1..Len(backlog) : backlog[k] \in Programs
  BY PlacesTyped
<1>5. Current'
  <2>1. \A i \in Slots : CurrentAt(i)'
    BY <1>1, <1>2, <1>4 DEF Current, CurrentAt
  <2> QED BY <1>1, <2>1 DEF Current
<1>6. OnePlace'
  BY <1>1, <1>2, <1>4 DEF OnePlace
<1>7. Identifiers'
  <2>1. \A q \in Programs : Fresh(outbox[q], phase[q]) => Fresh(outbox'[q], phase'[q])
    BY <1>1, <1>2 DEF Fresh
  <2>2. \A k \in 1..Len(backlog) : Fresh(outbox'[backlog[k]], phase'[backlog[k]])
    BY <1>4, <2>1 DEF Identifiers
  <2>3. \A i \in Pending : fds[i] # None => Fresh(outbox'[fds[i]], phase'[fds[i]])
    BY <1>4, <2>1 DEF Identifiers, Slots
  <2>4. \A i \in Named :
            fds[i] # None => phase'[fds[i]] # "connected" /\ AllMessages(outbox[fds[i]])
    BY <1>2, <1>4 DEF Identifiers, Slots
  <2> QED BY <1>1, <1>2, <2>2, <2>3, <2>4 DEF Identifiers
<1> QED BY <1>3, <1>5, <1>6, <1>7

\* Every step of a program keeps the invariant.
LEMMA ProgramStep ==
    ASSUME ClientsInv, NEW p \in Programs, Program(p) \/ Leave(p)
    PROVE  ClientsInv'
<1>1. CASE Connect(p)
  BY <1>1, ConnectStep
<1>2. CASE write_identifying_msg(p)
  BY <1>2, IdentifierStep
<1>3. CASE Message(p)
  BY <1>3, WritesStep DEF Message, ClientsInv, TypeOK
<1>4. CASE Pong(p)
  <2>1. inbox' \in [Programs -> Nat]
    BY <1>4 DEF Pong, ClientsInv, TypeOK
  <2> QED BY <1>4, <2>1, WritesStep DEF Pong
<1>5. CASE PingEnds(p) \/ ConnectFails(p) \/ SeesEnd(p) \/ Leave(p)
  BY <1>5, LeavesStep DEF PingEnds, ConnectFails, SeesEnd, Leave
<1> QED BY <1>1, <1>2, <1>3, <1>4, <1>5 DEF Program

-----------------------------------------------------------------------------
(* The steps of the daemon *)

\* A frame is put behind the others.
LEMMA ArriveStep ==
    ASSUME ClientsInv, NEW i \in Slots, Arrive(i)
    PROVE  ClientsInv'
<1> USE DEF ClientsInv
<1>1. /\ came < MaxFrames /\ i \in FrameSlots
      /\ came' = came + 1
      /\ frames' = Append(frames, i)
      /\ UNCHANGED <<status, fds, revents, passed, identified, lost, backlog, phase, outbox, inbox, written>>
  BY DEF Arrive, programs
<1>2. frames' \in Seq(FrameSlots) /\ frames' # <<>>
  <2>1. frames \in Seq(FrameSlots)
    BY DEF TypeOK
  <2> QED BY <1>1, <2>1, AppendFacts
<1>3. came' \in 0..MaxFrames
  BY <1>1, BoundsAssumption DEF TypeOK
<1>4. TypeOK'
  BY <1>1, <1>2, <1>3 DEF TypeOK
<1>5. Current'
  BY <1>1, <1>2 DEF Current, CurrentAt
<1>6. OnePlace' /\ Identifiers'
  BY <1>1 DEF OnePlace, Identifiers
<1> QED BY <1>4, <1>5, <1>6

\* What poll reports is so when it reports it.
LEMMA PollStep ==
    ASSUME ClientsInv, Poll
    PROVE  ClientsInv'
<1> USE DEF ClientsInv
<1>1. /\ revents' = [i \in Entries |-> IF i \in Polled THEN Event(i) ELSE "none"]
      /\ UNCHANGED <<status, fds, frames, came, passed, identified, lost, backlog, phase, outbox, inbox, written>>
  BY DEF Poll, programs
<1>2. \A i \in Entries : revents'[i] = Event(i)
  BY <1>1 DEF Polled
<1>3. \A i \in Entries : Event(i) \in {"none", "in", "hup"}
  BY DEF Event
<1>4. TypeOK'
  BY <1>1, <1>3 DEF TypeOK, Polled
<1>5. Current'
  <2>1. revents'[0] = "in" => backlog # <<>>
    BY <1>2, SlotFacts DEF Event
  <2>2. revents'[1] = "in" => frames # <<>>
    BY <1>2, SlotFacts DEF Event
  <2>3. ASSUME NEW i \in Slots PROVE CurrentAt(i)'
    <3>1. i \in Entries /\ i # 0 /\ i # 1
      BY SlotFacts
    <3> QED BY <1>1, <1>2, <3>1 DEF Event, CurrentAt
  <2> QED BY <1>1, <2>1, <2>2, <2>3 DEF Current
<1>6. OnePlace' /\ Identifiers'
  BY <1>1 DEF OnePlace, Identifiers
<1> QED BY <1>4, <1>5, <1>6

\* Serving an event leaves the other events as they are.
LEMMA ServesFacts ==
    ASSUME TypeOK, NEW i \in Entries, NEW event, Serves(i, event)
    PROVE  /\ revents[i] = event
           /\ revents' \in [Entries -> {"none", "in", "hup"}]
           /\ \A j \in Entries : revents'[j] = IF j = i THEN "none" ELSE revents[j]
           /\ \A j \in Entries : j < i => revents[j] = "none"
  BY DEF TypeOK, Serves, Before

\* The program behind slot i is forgotten.
LEMMA DisconnectStep ==
    ASSUME ClientsInv, NEW i \in Slots, Disconnect(i)
    PROVE  ClientsInv'
<1> USE DEF ClientsInv
<1>1. /\ Serves(i, "hup")
      /\ fds' = [fds EXCEPT ![i] = None]
      /\ UNCHANGED <<status, frames, came, passed, identified, lost, backlog, phase, outbox, inbox, written>>
  BY DEF Disconnect, programs
<1>2. i \in Entries
  BY SlotFacts
<1>3. /\ revents' \in [Entries -> {"none", "in", "hup"}]
      /\ \A j \in Entries : revents'[j] = IF j = i THEN "none" ELSE revents[j]
  BY <1>1, <1>2, ServesFacts
<1>4. /\ fds' \in [Slots -> Programs \cup {None}]
      /\ \A j \in Slots : fds'[j] = IF j = i THEN None ELSE fds[j]
  BY <1>1 DEF TypeOK
<1>5. TypeOK'
  BY <1>1, <1>3, <1>4 DEF TypeOK
<1>6. Current'
  <2>1. revents'[0] = revents[0] /\ revents'[1] = revents[1]
    BY <1>3, SlotFacts
  <2>2. \A j \in Slots : CurrentAt(j)'
    BY <1>1, <1>3, <1>4, SlotFacts DEF Current, CurrentAt
  <2> QED BY <1>1, <2>1, <2>2 DEF Current
<1>7. OnePlace'
  <2>1. \A k \in 1..Len(backlog) : backlog[k] # None
    BY PlacesTyped, ProgramsAssumption
  <2> QED BY <1>1, <1>4, <2>1 DEF OnePlace
<1>8. Identifiers'
  <2>1. Named \subseteq Slots /\ Pending \subseteq Slots
    BY DEF Slots
  <2> QED BY <1>1, <1>4, <2>1 DEF Identifiers
<1> QED BY <1>5, <1>6, <1>7, <1>8

\* What the backlog is without its first.
LEMMA BacklogTail ==
    ASSUME TypeOK, backlog # <<>>
    PROVE  /\ Tail(backlog) \in Seq(Programs)
           /\ Head(backlog) = backlog[1] /\ Head(backlog) \in Programs
           /\ 1 \in 1..Len(backlog)
           /\ \A k \in 1..Len(Tail(backlog)) :
                /\ k + 1 \in 1..Len(backlog) /\ k + 1 # 1
                /\ Tail(backlog)[k] = backlog[k + 1]
<1>1. backlog \in Seq(Programs)
  BY DEF TypeOK
<1>2. /\ Head(backlog) = backlog[1] /\ Head(backlog) \in Programs
      /\ Tail(backlog) \in Seq(Programs)
      /\ Len(backlog) \in Nat /\ Len(backlog) > 0
      /\ Len(Tail(backlog)) = Len(backlog) - 1
      /\ \A k \in 1..Len(Tail(backlog)) : Tail(backlog)[k] = backlog[k + 1]
  BY <1>1, TailFacts
<1> QED BY <1>2

\* A connection is taken from the backlog and put into a free slot i, or
\* nowhere.
LEMMA AcceptStep ==
    ASSUME ClientsInv, Serves(0, "in"),
           backlog' = Tail(backlog),
           \/ UNCHANGED fds
           \/ \E i \in Free : fds' = [fds EXCEPT ![i] = Head(backlog)],
           status' \in {"runs", "crashed"},
           lost' = lost \/ lost' = lost \cup {Head(backlog)},
           UNCHANGED <<frames, came, passed, identified, phase, outbox, inbox, written>>
    PROVE  ClientsInv'
<1> USE DEF ClientsInv
<1> 0 \in Entries
  BY SlotFacts
<1>1. /\ revents[0] = "in"
      /\ revents' \in [Entries -> {"none", "in", "hup"}]
      /\ \A j \in Entries : revents'[j] = IF j = 0 THEN "none" ELSE revents[j]
  BY ServesFacts
<1>2. backlog # <<>>
  BY <1>1 DEF Current
<1> DEFINE p == Head(backlog)
           b == Tail(backlog)
<1>3. /\ b \in Seq(Programs) /\ p \in Programs /\ p = backlog[1]
      /\ 1 \in 1..Len(backlog)
      /\ \A k \in 1..Len(b) : /\ k + 1 \in 1..Len(backlog) /\ k + 1 # 1
                              /\ b[k] = backlog[k + 1]
  BY <1>2, BacklogTail
<1>4. backlog' = b
  OBVIOUS
<1>5. \E i \in Pending :
        /\ fds' \in [Slots -> Programs \cup {None}]
        /\ \A j \in Slots : j # i => fds'[j] = fds[j]
        /\ fds'[i] = fds[i] \/ (fds[i] = None /\ fds'[i] = p)
  <2>1. CASE UNCHANGED fds
    <3>1. 5 \in Pending
      BY SlotFacts
    <3> QED BY <2>1, <3>1 DEF TypeOK
  <2>2. CASE \E i \in Free : fds' = [fds EXCEPT ![i] = Head(backlog)]
    BY <2>2, <1>3 DEF TypeOK, Free, Slots
  <2> QED BY <2>1, <2>2
<1> HIDE DEF p, b
<1>6. PICK i \in Pending :
        /\ fds' \in [Slots -> Programs \cup {None}]
        /\ \A j \in Slots : j # i => fds'[j] = fds[j]
        /\ fds'[i] = fds[i] \/ (fds[i] = None /\ fds'[i] = p)
  BY <1>5
<1>7. TypeOK'
  <2>1. lost' \subseteq Programs
    BY <1>3 DEF TypeOK, p
  <2> QED BY <1>1, <1>3, <1>4, <1>6, <2>1 DEF TypeOK
<1>8. i \in Slots /\ i \notin Named /\ i \in Entries /\ i # 0 /\ i # 1
  BY SlotFacts
<1>9. /\ \A j \in Slots : fds[j] # p
      /\ p # None /\ phase[p] # "off"
      /\ Fresh(outbox[p], phase[p])
      /\ \A k \in 1..Len(b) : b[k] # p
  BY <1>3, ProgramsAssumption DEF OnePlace, Identifiers
<1>10. Current'
  <2>1. revents'[0] = "none" /\ revents'[1] = revents[1]
    BY <1>1, SlotFacts
  <2>2. \A j \in Slots : revents'[j] = revents[j]
    BY <1>1, SlotFacts
  <2>3. \A j \in Slots : revents[j] # "none" => fds'[j] = fds[j]
    BY <1>6, <1>8 DEF Current, CurrentAt
  <2>4. \A j \in Slots : CurrentAt(j)'
    BY <2>2, <2>3 DEF Current, CurrentAt
  <2> QED BY <2>1, <2>4 DEF Current
<1>11. OnePlace'
  <2>1. \A j \in Slots : fds'[j] = fds[j] \/ fds'[j] = p
    BY <1>6
  <2>2. \A j, k \in Slots : fds'[j] = fds'[k] /\ fds'[j] # None => j = k
    BY <1>6, <1>8, <1>9 DEF OnePlace
  <2>3. \A k, l \in 1..Len(b) : b[k] = b[l] => k = l
    <3> SUFFICES ASSUME NEW k \in 1..Len(b), NEW l \in 1..Len(b), b[k] = b[l]
                 PROVE  k = l
      OBVIOUS
    <3>1. backlog[k + 1] = backlog[l + 1] /\ k + 1 \in 1..Len(backlog) /\ l + 1 \in 1..Len(backlog)
      BY <1>3
    <3>2. k + 1 = l + 1
      BY <3>1 DEF OnePlace
    <3> QED BY <3>2
  <2>4. \A k \in 1..Len(b), j \in Slots : fds'[j] # b[k]
    BY <1>3, <1>9, <2>1 DEF OnePlace
  <2>5. \A k \in 1..Len(b) : phase[b[k]] # "off"
    BY <1>3 DEF OnePlace
  <2>6. \A j \in Slots : fds'[j] # None => phase[fds'[j]] # "off"
    BY <1>9, <2>1 DEF OnePlace
  <2> QED BY <1>4, <2>2, <2>3, <2>4, <2>5, <2>6 DEF OnePlace
<1>12. Identifiers'
  <2>1. \A k \in 1..Len(b) : Fresh(outbox[b[k]], phase[b[k]])
    BY <1>3 DEF Identifiers
  <2>2. \A j \in Pending : fds'[j] # None => Fresh(outbox[fds'[j]], phase[fds'[j]])
    BY <1>6, <1>9 DEF Identifiers, Slots
  <2>3. \A j \in Named : fds'[j] = fds[j]
    BY <1>6, <1>8 DEF Slots
  <2> QED BY <1>4, <2>1, <2>2, <2>3 DEF Identifiers
<1> QED BY <1>7, <1>10, <1>11, <1>12

\* A write of the daemon changes its status and the inbox of a program at most.
LEMMA WriteToTyped ==
    ASSUME TypeOK, NEW i \in Slots, status = "runs", WriteTo(i)
    PROVE  /\ status' \in {"runs", "stopped", "killed", "crashed"}
           /\ inbox' \in [Programs -> Nat]
           /\ status' = "runs" => status = "runs"
<1>1. CASE fds[i] = None
  BY <1>1 DEF WriteTo, TypeOK
<1>2. CASE fds[i] # None /\ phase[fds[i]] = "left"
  BY <1>2 DEF WriteTo, TypeOK
<1>3. CASE fds[i] # None /\ phase[fds[i]] # "left"
  <2>1. fds[i] \in Programs
    BY <1>3, PlacesTyped
  <2>2. status' = status
    BY <1>3 DEF WriteTo
  <2>3. inbox' = IF i = 2 THEN [inbox EXCEPT ![fds[i]] = @ + 1] ELSE inbox
    BY <1>3 DEF WriteTo
  <2> QED BY <2>1, <2>2, <2>3 DEF TypeOK
<1> QED BY <1>1, <1>2, <1>3

\* A frame is handed over; it came when its event was reported.
LEMMA RawPacketStep ==
    ASSUME ClientsInv, RawPacket
    PROVE  ClientsInv' /\ (status' = "runs" => status = "runs")
<1> USE DEF ClientsInv
<1>1. /\ Serves(1, "in")
      /\ frames' = Tail(frames)
      /\ WriteTo(Head(frames))
      /\ UNCHANGED <<fds, came, passed, identified, lost, backlog, phase, outbox, written>>
      /\ status = "runs"
  BY DEF RawPacket, Serves
<1> 1 \in Entries
  BY SlotFacts
<1>2. /\ revents[1] = "in"
      /\ revents' \in [Entries -> {"none", "in", "hup"}]
      /\ \A j \in Entries : revents'[j] = IF j = 1 THEN "none" ELSE revents[j]
  BY <1>1, ServesFacts
<1>3. frames # <<>> /\ frames \in Seq(FrameSlots)
  BY <1>2 DEF Current, TypeOK
<1>4. Head(frames) \in FrameSlots /\ Tail(frames) \in Seq(FrameSlots)
  BY <1>3, TailFacts
<1>5. Head(frames) \in Slots
  BY <1>4, BoundsAssumption, SlotFacts
<1> DEFINE i == Head(frames)
<1> HIDE DEF i
<1>6. /\ status' \in {"runs", "stopped", "killed", "crashed"}
      /\ inbox' \in [Programs -> Nat]
      /\ status' = "runs" => status = "runs"
  BY <1>1, <1>5, WriteToTyped DEF i
<1>7. TypeOK'
  BY <1>1, <1>2, <1>4, <1>6 DEF TypeOK
<1>8. Current'
  <2>1. revents'[0] = revents[0] /\ revents'[1] = "none"
    BY <1>2, SlotFacts
  <2>2. \A j \in Slots : revents'[j] = revents[j]
    BY <1>2, SlotFacts
  <2>3. \A j \in Slots : CurrentAt(j)'
    BY <1>1, <2>2 DEF Current, CurrentAt
  <2> QED BY <1>1, <2>1, <2>3 DEF Current
<1>9. OnePlace' /\ Identifiers'
  BY <1>1 DEF OnePlace, Identifiers
<1> QED BY <1>6, <1>7, <1>8, <1>9

\* What the daemon reads from slot i: the program there has written it, and
\* from now on all that is unread of it are messages.
LEMMA ReadsFacts ==
    ASSUME ClientsInv, NEW i \in Slots, Reads(i)
    PROVE  /\ i \in Entries
           /\ fds[i] \in Programs /\ fds[i] # None
           /\ outbox[fds[i]] \in Seq(Letters) /\ outbox[fds[i]] # <<>>
           /\ outbox' \in [Programs -> Seq(Letters)]
           /\ outbox' = [outbox EXCEPT ![fds[i]] = Tail(@)]
           /\ outbox'[fds[i]] = Tail(outbox[fds[i]])
           /\ AllMessages(outbox'[fds[i]])
           /\ \A q \in Programs : q # fds[i] => outbox'[q] = outbox[q]
           /\ revents' \in [Entries -> {"none", "in", "hup"}]
           /\ \A j \in Entries : revents'[j] = IF j = i THEN "none" ELSE revents[j]
           /\ \A j \in Entries : j < i => revents[j] = "none"
           /\ phase[fds[i]] \notin {"off", "connected"}
<1> USE DEF ClientsInv
<1>1. i \in Entries
  BY SlotFacts
<1>2. Serves(i, "in") /\ outbox' = [outbox EXCEPT ![fds[i]] = Tail(@)]
  BY DEF Reads
<1>3. /\ revents[i] = "in"
      /\ revents' \in [Entries -> {"none", "in", "hup"}]
      /\ \A j \in Entries : revents'[j] = IF j = i THEN "none" ELSE revents[j]
      /\ \A j \in Entries : j < i => revents[j] = "none"
  BY <1>1, <1>2, ServesFacts
<1>4. fds[i] # None /\ outbox[fds[i]] # <<>>
  BY <1>3 DEF Current, CurrentAt
<1>5. fds[i] \in Programs
  BY <1>4, PlacesTyped
<1> DEFINE p == fds[i]
<1> HIDE DEF p
<1>6. outbox[p] \in Seq(Letters) /\ outbox[p] # <<>>
  BY <1>4, <1>5 DEF TypeOK, Letters, p
<1>7. AllMessages(outbox[p]) \/ Introduced(outbox[p])
  BY <1>5 DEF Identifiers, p
<1>8. AllMessages(Tail(outbox[p])) /\ Tail(outbox[p]) \in Seq(Letters)
  BY <1>6, <1>7, TailMessages, TailFacts
<1>9. /\ outbox' \in [Programs -> Seq(Letters)]
      /\ outbox'[p] = Tail(outbox[p])
      /\ \A q \in Programs : q # p => outbox'[q] = outbox[q]
  BY <1>2, <1>5, <1>8 DEF TypeOK, Letters, p
<1>10. phase[p] \notin {"off", "connected"}
  BY <1>4, <1>5 DEF Identifiers, p
<1> QED BY <1>1, <1>2, <1>3, <1>4, <1>5, <1>6, <1>8, <1>9, <1>10 DEF p

\* A message is read: from a slot of its kind.
LEMMA ReadStep ==
    ASSUME ClientsInv, NEW i \in Named, Reads(i), UNCHANGED <<fds, identified>>,
           status' \in {"runs", "stopped", "killed", "crashed"},
           inbox' \in [Programs -> Nat],
           passed' \in [Programs -> Nat]
    PROVE  ClientsInv'
<1> USE DEF ClientsInv
<1> DEFINE p == fds[i]
<1> i \in Slots
  BY DEF Slots
<1>1. /\ i \in Entries /\ p \in Programs /\ p # None
      /\ outbox' \in [Programs -> Seq(Letters)]
      /\ AllMessages(outbox'[p])
      /\ \A q \in Programs : q # p => outbox'[q] = outbox[q]
      /\ revents' \in [Entries -> {"none", "in", "hup"}]
      /\ \A j \in Entries : revents'[j] = IF j = i THEN "none" ELSE revents[j]
      /\ phase[p] \notin {"off", "connected"}
  BY ReadsFacts
<1>2. UNCHANGED <<frames, came, lost, backlog, phase, written>>
  BY DEF Reads
<1>3. /\ \A j \in Slots : j # i => fds[j] # p
      /\ \A k \in 1..Len(backlog) : backlog[k] # p
  BY <1>1 DEF OnePlace
<1>4. /\ \A j \in Slots : fds[j] \in Programs \/ fds[j] = None
      /\ \A k \in 1..Len(backlog) : backlog[k] \in Programs
  BY PlacesTyped
<1> HIDE DEF p
<1>5. TypeOK'
  BY <1>1, <1>2 DEF TypeOK, Letters
<1>6. Current'
  <2>1. revents'[0] = revents[0] /\ revents'[1] = revents[1]
    BY <1>1, SlotFacts
  <2>2. \A j \in Slots : j # i /\ fds[j] # None => outbox'[fds[j]] = outbox[fds[j]]
    BY <1>1, <1>3, <1>4
  <2>3. \A j \in Slots : revents'[j] = IF j = i THEN "none" ELSE revents[j]
    BY <1>1, SlotFacts
  <2>4. \A j \in Slots : CurrentAt(j)'
    BY <1>2, <2>2, <2>3 DEF Current, CurrentAt
  <2> QED BY <1>2, <2>1, <2>4 DEF Current
<1>7. OnePlace'
  BY <1>2 DEF OnePlace
<1>8. Identifiers'
  <2>1. \A q \in Programs : phase[q] \in {"off", "connected"} => outbox'[q] = <<>>
    BY <1>1 DEF Identifiers
  <2>2. \A q \in Programs : AllMessages(outbox'[q]) \/ Introduced(outbox'[q])
    BY <1>1 DEF Identifiers
  <2>3. \A k \in 1..Len(backlog) : Fresh(outbox'[backlog[k]], phase[backlog[k]])
    BY <1>1, <1>3, <1>4 DEF Identifiers
  <2>4. \A j \in Pending : j # i /\ j \in Slots
    BY SlotFacts
  <2>5. \A j \in Pending : fds[j] # None => Fresh(outbox'[fds[j]], phase[fds[j]])
    BY <1>1, <1>3, <1>4, <2>4 DEF Identifiers
  <2>6. \A j \in Named :
            fds[j] # None => phase[fds[j]] # "connected" /\ AllMessages(outbox'[fds[j]])
    BY <1>1, <1>4 DEF Identifiers, Slots
  <2> QED BY <1>2, <2>1, <2>2, <2>3, <2>5, <2>6 DEF Identifiers
<1> QED BY <1>5, <1>6, <1>7, <1>8

\* Where the programs are when the one in slot i has been identified.
LEMMA MovedFacts ==
    ASSUME TypeOK, NEW i \in Pending, fds[i] \in Programs
    PROVE  /\ SlotOf(fds[i]) \in Named /\ SlotOf(fds[i]) # i
           /\ Moved(i) \in [Slots -> Programs \cup {None}]
           /\ Moved(i)[i] = None
           /\ Moved(i)[SlotOf(fds[i])] = fds[i]
           /\ \A j \in Slots : j # i /\ j # SlotOf(fds[i]) => Moved(i)[j] = fds[j]
<1>1. SlotOf(fds[i]) \in Named
  BY SlotOfNamed
<1>2. i \in Slots /\ i \notin Named /\ Named \subseteq Slots
  BY SlotFacts
<1> DEFINE t == SlotOf(fds[i])
<1> HIDE DEF t
<1>3. t \in Slots /\ t # i
  BY <1>1, <1>2 DEF t
<1>4. Moved(i) = [fds EXCEPT ![t] = fds[i], ![i] = None]
  BY DEF Moved, t
<1>5. fds \in [Slots -> Programs \cup {None}]
  BY DEF TypeOK
<1>6. /\ Moved(i) \in [Slots -> Programs \cup {None}]
      /\ Moved(i)[i] = None
      /\ Moved(i)[t] = fds[i]
      /\ \A j \in Slots : j # i /\ j # t => Moved(i)[j] = fds[j]
  BY <1>2, <1>3, <1>4, <1>5
<1> QED BY <1>1, <1>3, <1>6 DEF t

\* A program is identified: it was in a pending slot with its identifier
\* unread, and is put into the slot of its kind, whose event was served.
LEMMA IdentifyStep ==
    ASSUME ClientsInv, NEW i \in Pending, identify_unix_client(i)
    PROVE  ClientsInv'
<1> USE DEF ClientsInv
<1> DEFINE p == fds[i]
           t == SlotOf(fds[i])
<1> i \in Slots
  BY DEF Slots
<1>1. /\ Reads(i) /\ fds' = Moved(i)
      /\ identified' = Append(identified, p)
      /\ UNCHANGED <<status, inbox, passed>>
  BY DEF identify_unix_client
<1>2. /\ i \in Entries /\ p \in Programs /\ p # None
      /\ outbox' \in [Programs -> Seq(Letters)]
      /\ AllMessages(outbox'[p])
      /\ \A q \in Programs : q # p => outbox'[q] = outbox[q]
      /\ revents' \in [Entries -> {"none", "in", "hup"}]
      /\ \A j \in Entries : revents'[j] = IF j = i THEN "none" ELSE revents[j]
      /\ \A j \in Entries : j < i => revents[j] = "none"
      /\ phase[p] \notin {"off", "connected"}
  BY <1>1, ReadsFacts
<1>3. UNCHANGED <<frames, came, lost, backlog, phase, written>>
  BY <1>1 DEF Reads
<1>4. /\ t \in Named /\ t # i
      /\ fds' \in [Slots -> Programs \cup {None}]
      /\ fds'[i] = None /\ fds'[t] = p
      /\ \A j \in Slots : j # i /\ j # t => fds'[j] = fds[j]
  BY <1>1, <1>2, MovedFacts
<1>5. /\ \A j \in Slots : j # i => fds[j] # p
      /\ \A k \in 1..Len(backlog) : backlog[k] # p
  BY <1>2 DEF OnePlace
<1>6. /\ \A j \in Slots : fds[j] \in Programs \/ fds[j] = None
      /\ \A k \in 1..Len(backlog) : backlog[k] \in Programs
      /\ None \notin Programs
  BY PlacesTyped, ProgramsAssumption
<1>7. identified' \in Seq(Programs)
  <2>1. identified \in Seq(Programs)
    BY DEF TypeOK
  <2> QED BY <1>1, <1>2, <2>1, AppendFacts
<1> HIDE DEF p, t
<1>8. t \in Slots /\ t \in Entries /\ t < i
  BY <1>4, SlotFacts
<1>9. TypeOK'
  BY <1>1, <1>2, <1>3, <1>4, <1>7 DEF TypeOK, Letters
<1>10. \A j \in Slots : \/ fds'[j] = None
                        \/ j = t /\ fds'[j] = p
                        \/ j # i /\ j # t /\ fds'[j] = fds[j] /\ fds[j] # p
  BY <1>4, <1>5
<1>11. Current'
  <2>1. revents'[0] = revents[0] /\ revents'[1] = revents[1]
    BY <1>2, SlotFacts
  <2>2. \A j \in Slots : revents'[j] = IF j = i THEN "none" ELSE revents[j]
    BY <1>2, SlotFacts
  <2>3. \A j \in Slots : revents'[j] # "none" => j # i /\ j # t
    BY <1>2, <1>8, <2>2
  <2>4. \A j \in Slots : CurrentAt(j)'
    <3> SUFFICES ASSUME NEW j \in Slots PROVE CurrentAt(j)'
      OBVIOUS
    <3>1. CASE revents'[j] = "none"
      BY <3>1 DEF CurrentAt
    <3>2. CASE revents'[j] # "none"
      <4>1. j # i /\ fds'[j] = fds[j] /\ fds[j] # p /\ revents'[j] = revents[j]
        BY <1>4, <1>5, <2>2, <2>3, <3>2
      <4>2. fds[j] \in Programs
        BY <1>6, <3>2, <4>1 DEF Current, CurrentAt
      <4>3. outbox'[fds[j]] = outbox[fds[j]]
        BY <1>2, <4>1, <4>2
      <4> QED BY <1>3, <4>1, <4>3 DEF Current, CurrentAt
    <3> QED BY <3>1, <3>2
  <2> QED BY <1>3, <2>1, <2>4 DEF Current
<1>12. OnePlace'
  <2>1. \A j, k \in Slots : fds'[j] = fds'[k] /\ fds'[j] # None => j = k
    BY <1>10 DEF OnePlace
  <2>2. \A k \in 1..Len(backlog), j \in Slots : fds'[j] # backlog[k]
    BY <1>5, <1>6, <1>10 DEF OnePlace
  <2>3. \A j \in Slots : fds'[j] # None => phase[fds'[j]] # "off"
    BY <1>2, <1>10 DEF OnePlace
  <2> QED BY <1>3, <2>1, <2>2, <2>3 DEF OnePlace
<1>13. Identifiers'
  <2>1. \A q \in Programs : phase[q] \in {"off", "connected"} => outbox'[q] = <<>>
    BY <1>2 DEF Identifiers
  <2>2. \A q \in Programs : AllMessages(outbox'[q]) \/ Introduced(outbox'[q])
    BY <1>2 DEF Identifiers
  <2>3. \A k \in 1..Len(backlog) : Fresh(outbox'[backlog[k]], phase[backlog[k]])
    BY <1>2, <1>5, <1>6 DEF Identifiers
  <2>4. \A j \in Pending : j # t /\ j \in Slots
    BY <1>4, SlotFacts
  <2>5. \A j \in Pending : fds'[j] # None => Fresh(outbox'[fds'[j]], phase[fds'[j]])
    BY <1>2, <1>6, <1>10, <2>4 DEF Identifiers
  <2>6. \A j \in Named :
            fds'[j] # None => phase[fds'[j]] # "connected" /\ AllMessages(outbox'[fds'[j]])
    BY <1>2, <1>6, <1>10 DEF Identifiers, Slots
  <2> QED BY <1>3, <2>1, <2>2, <2>3, <2>5, <2>6 DEF Identifiers
<1> QED BY <1>9, <1>11, <1>12, <1>13

\* A connection is accepted.
LEMMA NewClientStep ==
    ASSUME ClientsInv, handle_new_client \/ NoSlot
    PROVE  /\ ClientsInv'
           /\ \A i \in Named : fds'[i] = fds[i]
<1>1. CASE handle_new_client
  <2>1. PICK i \in Free : fds' = [fds EXCEPT ![i] = Head(backlog)]
    BY <1>1 DEF handle_new_client
  <2>2. \A j \in Named : fds'[j] = fds[j]
    <3>1. i \notin Named /\ Named \subseteq Slots
      BY <2>1, SlotFacts DEF Free
    <3>2. fds \in [Slots -> Programs \cup {None}]
      BY DEF ClientsInv, TypeOK
    <3> QED BY <2>1, <3>1, <3>2
  <2>3. status' \in {"runs", "crashed"}
    BY <1>1 DEF handle_new_client, Serves
  <2> QED BY <1>1, <2>1, <2>2, <2>3, AcceptStep DEF handle_new_client
<1>2. CASE NoSlot
  BY <1>2, AcceptStep DEF NoSlot
<1> QED BY <1>1, <1>2

\* A message is taken from a slot of a kind.
LEMMA MessageStep ==
    ASSUME ClientsInv, NEW i \in Named,
           \/ i = 3 /\ handle_routing_msg
           \/ UpperMessage(i)
    PROVE  /\ ClientsInv' /\ Reads(i)
           /\ passed' = [passed EXCEPT ![fds[i]] = @ + 1]
           /\ UNCHANGED <<fds, identified>>
           /\ status' = "runs" => status = "runs"
<1> USE DEF ClientsInv
<1>1. /\ Reads(i)
      /\ passed' = [passed EXCEPT ![fds[i]] = @ + 1]
      /\ UNCHANGED <<fds, identified>>
  BY DEF handle_routing_msg, UpperMessage
<1>2. fds[i] \in Programs
  BY <1>1, ReadsFacts DEF Slots
<1>3. passed' \in [Programs -> Nat]
  BY <1>1, <1>2 DEF TypeOK
<1>4. /\ status' \in {"runs", "stopped", "killed", "crashed"}
      /\ inbox' \in [Programs -> Nat]
      /\ status' = "runs" => status = "runs"
  <2>1. CASE handle_routing_msg
    BY <2>1 DEF handle_routing_msg, TypeOK
  <2>2. CASE UpperMessage(i)
    <3>1. WriteTo(3) /\ 3 \in Slots /\ status = "runs"
      BY <2>2, SlotFacts DEF UpperMessage, Reads, Serves
    <3> QED BY <3>1, WriteToTyped
  <2> QED BY <2>1, <2>2
<1> QED BY <1>1, <1>3, <1>4, ReadStep

\* The end of the daemon changes its status alone.
LEMMA StopStep ==
    ASSUME ClientsInv, Stop \/ UNCHANGED vars
    PROVE  /\ ClientsInv'
           /\ status' = "runs" => status = "runs"
           /\ UNCHANGED <<fds, phase, identified, outbox, written, passed>>
<1> USE DEF ClientsInv
<1>1. /\ status' \in {"runs", "stopped", "killed", "crashed"}
      /\ status' = "runs" => status = "runs"
      /\ UNCHANGED <<fds, revents, frames, came, passed, identified, lost, backlog, phase, outbox, inbox, written>>
  BY DEF Stop, programs, vars, TypeOK
<1>2. TypeOK'
  BY <1>1 DEF TypeOK
<1>3. Current'
  BY <1>1 DEF Current, CurrentAt
<1>4. OnePlace' /\ Identifiers'
  BY <1>1 DEF OnePlace, Identifiers
<1> QED BY <1>1, <1>2, <1>3, <1>4

\* A step is one of a program, one that only adds to what is on the way or ends
\* the daemon, or one of the loop.
LEMMA StepCases ==
    ASSUME [Next]_vars
    PROVE  \/ \E p \in Programs : Program(p) \/ Leave(p)
           \/ \E i \in Slots : Arrive(i)
           \/ Poll
           \/ \E i \in Slots : Disconnect(i)
           \/ handle_new_client \/ NoSlot
           \/ RawPacket
           \/ \E i \in Pending : identify_unix_client(i)
           \/ \E i \in Named : \/ i = 3 /\ handle_routing_msg
                               \/ UpperMessage(i)
           \/ Stop \/ UNCHANGED vars
<1>1. ASSUME NEW i, UpperMessage(i) PROVE i \in Named
  BY <1>1, SlotFacts DEF UpperMessage
<1>2. ASSUME NEW i, identify_unix_client(i) PROVE i \in Pending
  BY <1>2 DEF identify_unix_client
<1>3. 3 \in Named
  BY SlotFacts
<1> QED BY <1>1, <1>2, <1>3 DEF Next, poll_loop

\* Every step keeps the invariant.
LEMMA ClientsInvStep ==
    ASSUME ClientsInv, [Next]_vars
    PROVE  ClientsInv'
<1>1. CASE \E p \in Programs : Program(p) \/ Leave(p)
  BY <1>1, ProgramStep
<1>2. CASE \E i \in Slots : Arrive(i)
  BY <1>2, ArriveStep
<1>3. CASE Poll
  BY <1>3, PollStep
<1>4. CASE \E i \in Slots : Disconnect(i)
  BY <1>4, DisconnectStep
<1>5. CASE handle_new_client \/ NoSlot
  BY <1>5, NewClientStep
<1>6. CASE RawPacket
  BY <1>6, RawPacketStep
<1>7. CASE \E i \in Pending : identify_unix_client(i)
  BY <1>7, IdentifyStep
<1>8. CASE \E i \in Named : \/ i = 3 /\ handle_routing_msg
                            \/ UpperMessage(i)
  BY <1>8, MessageStep
<1>9. CASE Stop \/ UNCHANGED vars
  BY <1>9, StopStep
<1> QED BY <1>1, <1>2, <1>3, <1>4, <1>5, <1>6, <1>7, <1>8, <1>9, StepCases

\* The loop over the slots (mip_daemon.c:529-716) acts on events that still
\* apply, finds every connection behind one slot at most, and reads the
\* identifier of a program in a pending slot and nowhere else.
THEOREM ClientsInvariant == Spec => []ClientsInv
<1>1. Init => ClientsInv
  <2> SUFFICES ASSUME Init PROVE ClientsInv
    OBVIOUS
  <2> USE DEF Init
  <2>1. TypeOK
    BY EmptyFacts, BoundsAssumption DEF TypeOK
  <2>2. Current
    BY SlotFacts DEF Current, CurrentAt
  <2>3. Len(backlog) = 0
    BY EmptyFacts
  <2>4. OnePlace
    BY <2>3 DEF OnePlace
  <2>5. AllMessages(<<>>)
    BY EmptyFacts DEF AllMessages
  <2>6. Identifiers
    BY <2>3, <2>5 DEF Identifiers, Slots
  <2> QED BY <2>1, <2>2, <2>4, <2>6 DEF ClientsInv
<1>2. ClientsInv /\ [Next]_vars => ClientsInv'
  BY ClientsInvStep
<1> QED BY <1>1, <1>2, PTL DEF Spec

\* Every variable of the array of descriptors (mip_daemon.c:735-752) keeps its
\* type: nothing is taken from a queue that is empty, and no ping server
\* answers more than it was asked (ping_server.c:131-138).
THEOREM TypeCorrect == Spec => []TypeOK
  BY ClientsInvariant, PTL DEF ClientsInv

-----------------------------------------------------------------------------
(* Every message is taken, once *)

\* The number of messages in s.
MessagesIn(s) == Cardinality({k \in 1..Len(s) : s[k] = "message"})

\* In what a program writes, only the first can be something else.
LEMMA CountMessages ==
    ASSUME NEW s \in Seq(Letters)
    PROVE  /\ AllMessages(s) => MessagesIn(s) = Len(s)
           /\ Introduced(s) => MessagesIn(s) = Len(s) - 1
<1>1. Len(s) \in Nat /\ (s # <<>> => Len(s) > 0)
  BY EmptyFacts
<1>2. ASSUME AllMessages(s) PROVE MessagesIn(s) = Len(s)
  <2>1. {k \in 1..Len(s) : s[k] = "message"} = 1..Len(s)
    BY <1>2 DEF AllMessages
  <2>2. Cardinality(1..Len(s)) = Len(s)
    BY <1>1, FS_Interval
  <2> QED BY <2>1, <2>2 DEF MessagesIn
<1>3. ASSUME Introduced(s) PROVE MessagesIn(s) = Len(s) - 1
  <2>1. s[1] # "message" /\ Len(s) > 0
    BY <1>1, <1>3 DEF Introduced
  <2>2. \A k \in 2..Len(s) : s[k] = "message"
    BY <1>3 DEF Introduced
  <2>3. {k \in 1..Len(s) : s[k] = "message"} = 2..Len(s)
    BY <1>1, <2>1, <2>2
  <2>4. Cardinality(2..Len(s)) = Len(s) - 1
    BY <1>1, <2>1, FS_Interval
  <2> QED BY <2>3, <2>4 DEF MessagesIn
<1> QED BY <1>2, <1>3

\* There is no message in what a program has written at first.
LEMMA CountFirst ==
    MessagesIn(<<>>) = 0 /\ MessagesIn(Append(<<>>, "identifier")) = 0
<1>1. {k \in 1..Len(<<>>) : <<>>[k] = "message"} = {}
  BY EmptyFacts
<1>2. MessagesIn(<<>>) = 0
  BY <1>1, FS_EmptySet DEF MessagesIn
<1> DEFINE t == Append(<<>>, "identifier")
<1>3. t \in Seq(Letters) /\ Introduced(t)
  BY FirstLetter
<1>4. Len(t) = 1
  BY EmptyFacts
<1> HIDE DEF t
<1>5. MessagesIn(t) = Len(t) - 1
  BY <1>3, CountMessages
<1>6. MessagesIn(t) = 0
  BY <1>4, <1>5
<1> QED BY <1>2, <1>6 DEF t

\* What one more message adds.
LEMMA CountAppend ==
    ASSUME NEW s \in Seq(Letters), AllMessages(s) \/ Introduced(s)
    PROVE  MessagesIn(Append(s, "message")) = MessagesIn(s) + 1
<1> DEFINE t == Append(s, "message")
<1> "message" \in Letters
  BY DEF Letters
<1>1. t \in Seq(Letters) /\ Len(s) \in Nat /\ Len(t) = Len(s) + 1
  BY AppendFacts
<1>2. /\ AllMessages(s) => AllMessages(t)
      /\ Introduced(s) => Introduced(t)
  BY AppendMessage
<1> HIDE DEF t
<1>3. /\ AllMessages(t) => MessagesIn(t) = Len(t)
      /\ Introduced(t) => MessagesIn(t) = Len(t) - 1
  BY <1>1, CountMessages
<1>4. MessagesIn(t) = MessagesIn(s) + 1
  BY <1>1, <1>2, <1>3, CountMessages
<1> QED BY <1>4 DEF t

\* What reading takes away: an identifier, or a message.
LEMMA CountTail ==
    ASSUME NEW s \in Seq(Letters), s # <<>>
    PROVE  /\ AllMessages(s) => MessagesIn(Tail(s)) = MessagesIn(s) - 1
           /\ Introduced(s) => MessagesIn(Tail(s)) = MessagesIn(s)
<1> DEFINE t == Tail(s)
<1>1. t \in Seq(Letters) /\ Len(s) \in Nat /\ Len(t) = Len(s) - 1
  BY TailFacts
<1>2. AllMessages(s) \/ Introduced(s) => AllMessages(t)
  BY TailMessages
<1> HIDE DEF t
<1>3. AllMessages(t) => MessagesIn(t) = Len(t)
  BY <1>1, CountMessages
<1>4. /\ AllMessages(s) => MessagesIn(t) = MessagesIn(s) - 1
      /\ Introduced(s) => MessagesIn(t) = MessagesIn(s)
  BY <1>1, <1>2, <1>3, CountMessages
<1> QED BY <1>4 DEF t


\* The steps that write.
LEMMA WritesKept ==
    ASSUME ClientsInv, MessagesKept, NEW p \in Programs, Program(p) \/ Leave(p)
    PROVE  \A q \in Programs : written'[q] = passed'[q] + MessagesIn(outbox'[q])
<1>0. \A q \in Programs : written[q] = passed[q] + MessagesIn(outbox[q])
  BY DEF MessagesKept, Unread, MessagesIn
<1>1. CASE Message(p) \/ Pong(p)
  <2>1. /\ written' = [written EXCEPT ![p] = @ + 1]
        /\ outbox' = [outbox EXCEPT ![p] = Append(@, "message")]
        /\ passed' = passed
    BY <1>1 DEF Message, Pong, Writes, daemon
  <2>2. outbox[p] \in Seq(Letters) /\ (AllMessages(outbox[p]) \/ Introduced(outbox[p]))
    BY DEF ClientsInv, TypeOK, Letters, Identifiers
  <2>3. MessagesIn(Append(outbox[p], "message")) = MessagesIn(outbox[p]) + 1
    BY <2>2, CountAppend
  <2>4. outbox'[p] = Append(outbox[p], "message") /\ \A q \in Programs : q # p => outbox'[q] = outbox[q]
    BY <2>1 DEF ClientsInv, TypeOK
  <2>5. written'[p] = written[p] + 1 /\ \A q \in Programs : q # p => written'[q] = written[q]
    BY <2>1 DEF ClientsInv, TypeOK
  <2>6. /\ written[p] = passed[p] + MessagesIn(outbox[p])
        /\ written[p] \in Nat /\ passed[p] \in Nat /\ MessagesIn(outbox[p]) \in Int
    <3>1. Len(outbox[p]) \in Nat
      BY <2>2, EmptyFacts
    <3>2. MessagesIn(outbox[p]) = Len(outbox[p]) \/ MessagesIn(outbox[p]) = Len(outbox[p]) - 1
      BY <2>2, CountMessages
    <3> QED BY <1>0, <3>1, <3>2 DEF ClientsInv, TypeOK
  <2>7. written'[p] = passed'[p] + MessagesIn(outbox'[p])
    BY <2>1, <2>3, <2>4, <2>5, <2>6
  <2> QED BY <1>0, <2>1, <2>4, <2>5, <2>7
<1>2. CASE write_identifying_msg(p)
  <2>1. /\ outbox' = [outbox EXCEPT ![p] = Append(@, "identifier")]
        /\ phase[p] = "connected"
        /\ UNCHANGED <<written, passed>>
    BY <1>2 DEF write_identifying_msg, daemon
  <2>2. outbox[p] = <<>>
    BY <2>1 DEF ClientsInv, Identifiers
  <2>3. /\ outbox'[p] = Append(<<>>, "identifier")
        /\ \A q \in Programs : q # p => outbox'[q] = outbox[q]
    BY <2>1, <2>2 DEF ClientsInv, TypeOK
  <2> QED BY <1>0, <2>1, <2>2, <2>3, CountFirst
<1>3. CASE Connect(p) \/ PingEnds(p) \/ ConnectFails(p) \/ SeesEnd(p) \/ Leave(p)
  <2>1. UNCHANGED <<outbox, written, passed>>
    BY <1>3 DEF Connect, PingEnds, ConnectFails, SeesEnd, Leave, Leaves, daemon
  <2> QED BY <1>0, <2>1
<1> QED BY <1>1, <1>2, <1>3 DEF Program

\* A program that is identified loses its identifier only.
LEMMA IdentifyKept ==
    ASSUME ClientsInv, MessagesKept, NEW i \in Pending, identify_unix_client(i)
    PROVE  \A q \in Programs : written'[q] = passed'[q] + MessagesIn(outbox'[q])
<1>0. \A q \in Programs : written[q] = passed[q] + MessagesIn(outbox[q])
  BY DEF MessagesKept, Unread, MessagesIn
<1> DEFINE p == fds[i]
<1>1. Reads(i) /\ i \in Slots /\ UNCHANGED passed
  BY DEF identify_unix_client, Slots
<1>2. /\ p \in Programs /\ p # None
      /\ outbox[p] \in Seq(Letters) /\ outbox[p] # <<>>
      /\ outbox'[p] = Tail(outbox[p])
      /\ \A q \in Programs : q # p => outbox'[q] = outbox[q]
  BY <1>1, ReadsFacts
<1>3. UNCHANGED written
  BY <1>1 DEF Reads
<1>4. Introduced(outbox[p])
  BY <1>2 DEF ClientsInv, Identifiers, Fresh
<1> HIDE DEF p
<1>5. MessagesIn(outbox'[p]) = MessagesIn(outbox[p])
  BY <1>2, <1>4, CountTail
<1> QED BY <1>0, <1>1, <1>2, <1>3, <1>5

\* A message that is read is taken.
LEMMA TakenKept ==
    ASSUME ClientsInv, MessagesKept, NEW i \in Named, Reads(i),
           passed' = [passed EXCEPT ![fds[i]] = @ + 1]
    PROVE  \A q \in Programs : written'[q] = passed'[q] + MessagesIn(outbox'[q])
<1>0. \A q \in Programs : written[q] = passed[q] + MessagesIn(outbox[q])
  BY DEF MessagesKept, Unread, MessagesIn
<1> DEFINE p == fds[i]
<1>1. /\ p \in Programs /\ p # None
      /\ outbox[p] \in Seq(Letters) /\ outbox[p] # <<>>
      /\ outbox'[p] = Tail(outbox[p])
      /\ \A q \in Programs : q # p => outbox'[q] = outbox[q]
  BY ReadsFacts DEF Slots
<1>2. UNCHANGED written
  BY DEF Reads
<1>3. AllMessages(outbox[p])
  BY <1>1 DEF ClientsInv, Identifiers
<1>4. passed'[p] = passed[p] + 1 /\ \A q \in Programs : q # p => passed'[q] = passed[q]
  BY <1>1 DEF ClientsInv, TypeOK
<1>5. written[p] \in Nat /\ passed[p] \in Nat
  BY <1>1 DEF ClientsInv, TypeOK
<1> HIDE DEF p
<1>6. MessagesIn(outbox'[p]) = MessagesIn(outbox[p]) - 1
  BY <1>1, <1>3, CountTail
<1>7. MessagesIn(outbox[p]) \in Int
  <2>1. MessagesIn(outbox[p]) = Len(outbox[p]) /\ Len(outbox[p]) \in Nat
    BY <1>1, <1>3, CountMessages, EmptyFacts
  <2> QED BY <2>1
<1>8. written'[p] = passed'[p] + MessagesIn(outbox'[p])
  BY <1>0, <1>1, <1>2, <1>4, <1>5, <1>6, <1>7
<1> QED BY <1>0, <1>1, <1>2, <1>4, <1>8

\* Every step keeps account of the messages.
LEMMA MessagesStep ==
    ASSUME ClientsInv, MessagesKept, [Next]_vars
    PROVE  MessagesKept'
<1> SUFFICES \A q \in Programs : written'[q] = passed'[q] + MessagesIn(outbox'[q])
  BY DEF MessagesKept, Unread, MessagesIn
<1>0. \A q \in Programs : written[q] = passed[q] + MessagesIn(outbox[q])
  BY DEF MessagesKept, Unread, MessagesIn
<1>1. CASE \E p \in Programs : Program(p) \/ Leave(p)
  BY <1>1, WritesKept
<1>2. CASE \E i \in Pending : identify_unix_client(i)
  BY <1>2, IdentifyKept
<1>3. CASE \E i \in Named : \/ i = 3 /\ handle_routing_msg
                            \/ UpperMessage(i)
  BY <1>3, MessageStep, TakenKept
<1>4. CASE \/ \E i \in Slots : Arrive(i)
           \/ Poll
           \/ \E i \in Slots : Disconnect(i)
           \/ handle_new_client \/ NoSlot
           \/ RawPacket
           \/ Stop \/ UNCHANGED vars
  <2>1. UNCHANGED <<outbox, written, passed>>
    BY <1>4 DEF Arrive, Poll, Disconnect, handle_new_client, NoSlot, RawPacket, Stop, programs, vars
  <2> QED BY <1>0, <2>1
<1> QED BY <1>1, <1>2, <1>3, <1>4, StepCases

\* Every message of a client program is taken as one, once: an identifier is
\* never taken for a message, nor a message for an identifier, and no message
\* is read out of two slots (mip_daemon.c:470-491, 653-661).
THEOREM EveryMessageTaken == Spec => []MessagesKept
<1>1. Init => MessagesKept
  <2> SUFFICES ASSUME Init, NEW p \in Programs PROVE written[p] = passed[p] + Unread(p)
    BY DEF MessagesKept
  <2>1. written[p] = 0 /\ passed[p] = 0 /\ outbox[p] = <<>>
    BY DEF Init
  <2> QED BY <2>1, CountFirst DEF Unread, MessagesIn
<1>2. ClientsInv /\ MessagesKept /\ [Next]_vars => MessagesKept'
  BY MessagesStep
<1> QED BY <1>1, <1>2, ClientsInvariant, PTL DEF Spec

-----------------------------------------------------------------------------
(* The newest program keeps its slot *)

\* A step that identifies nobody: a slot is left only by a program that left.
LEMMA SlotsKept ==
    ASSUME ClientsInv, LatestInSlot,
           UNCHANGED identified,
           status' = "runs" => status = "runs",
           \A p \in Programs : phase'[p] # "left" => phase[p] # "left",
           \A i \in Named : fds[i] \in Programs /\ phase[fds[i]] # "left" => fds'[i] = fds[i]
    PROVE  LatestInSlot'
<1> SUFFICES ASSUME NEW k \in 1..Len(identified), status' = "runs",
                    phase'[identified[k]] # "left", Latest(k)
             PROVE  fds'[SlotOf(identified[k])] = identified[k]
  BY DEF LatestInSlot, Latest
<1> DEFINE p == identified[k]
<1>1. p \in Programs
  <2>1. identified \in Seq(Programs)
    BY DEF ClientsInv, TypeOK
  <2> QED BY <2>1
<1>2. fds[SlotOf(p)] = p
  BY <1>1 DEF LatestInSlot
<1>3. SlotOf(p) \in Named
  BY <1>1, SlotOfNamed
<1> QED BY <1>1, <1>2, <1>3

\* A program is identified: it is the newest of its kind, and the others keep
\* their slots.
LEMMA SlotTaken ==
    ASSUME ClientsInv, LatestInSlot, NEW i \in Pending, identify_unix_client(i)
    PROVE  LatestInSlot'
<1> DEFINE q == fds[i]
           n == Len(identified)
<1>1. /\ Reads(i) /\ fds' = Moved(i) /\ i \in Slots
      /\ identified' = Append(identified, q)
      /\ UNCHANGED <<status, phase>>
  BY DEF identify_unix_client, Reads, Slots
<1>2. q \in Programs
  BY <1>1, ReadsFacts
<1>3. /\ SlotOf(q) \in Named
      /\ fds'[SlotOf(q)] = q
      /\ \A j \in Slots : j # i /\ j # SlotOf(q) => fds'[j] = fds[j]
  BY <1>1, <1>2, MovedFacts DEF ClientsInv
<1>4. identified \in Seq(Programs)
  BY DEF ClientsInv, TypeOK
<1>5. /\ n \in Nat /\ Len(identified') = n + 1
      /\ \A k \in 1..n : identified'[k] = identified[k]
      /\ identified'[n + 1] = q
  BY <1>1, <1>2, <1>4, AppendFacts
<1> HIDE DEF q
<1> SUFFICES ASSUME NEW k \in 1..n + 1, status = "runs",
                    phase[identified'[k]] # "left",
                    \A j \in k + 1..n + 1 : SlotOf(identified'[j]) # SlotOf(identified'[k])
             PROVE  fds'[SlotOf(identified'[k])] = identified'[k]
  BY <1>1, <1>5 DEF LatestInSlot, Latest
<1>6. CASE k = n + 1
  BY <1>3, <1>5, <1>6
<1>7. CASE k # n + 1
  <2> DEFINE p == identified[k]
  <2>1. k \in 1..n /\ n + 1 \in k + 1..n + 1
    BY <1>5, <1>7
  <2>2. p \in Programs /\ identified'[k] = p
    BY <1>4, <1>5, <2>1
  <2>3. SlotOf(p) # SlotOf(q)
    BY <1>5, <2>1, <2>2
  <2>4. Latest(k)
    <3> SUFFICES ASSUME NEW j \in k + 1..n PROVE SlotOf(identified[j]) # SlotOf(identified[k])
      BY DEF Latest
    <3>1. j \in k + 1..n + 1 /\ j \in 1..n
      BY <1>5, <2>1
    <3> QED BY <1>5, <2>1, <3>1
  <2>5. fds[SlotOf(p)] = p
    BY <2>1, <2>2, <2>4 DEF LatestInSlot
  <2>6. SlotOf(p) \in Slots /\ SlotOf(p) # i
    BY <2>2, SlotOfNamed, SlotFacts
  <2> QED BY <1>3, <2>2, <2>3, <2>5, <2>6
<1> QED BY <1>6, <1>7

\* Every step leaves the newest programs where they are.
LEMMA LatestStep ==
    ASSUME ClientsInv, LatestInSlot, [Next]_vars
    PROVE  LatestInSlot'
<1> USE DEF ClientsInv
<1>1. CASE \E p \in Programs : Program(p) \/ Leave(p)
  <2>1. PICK p \in Programs : Program(p) \/ Leave(p)
    BY <1>1
  <2>2. UNCHANGED <<status, fds, identified>>
    BY <2>1 DEF Program, Leave, Connect, write_identifying_msg, Message, Pong, Writes,
                PingEnds, ConnectFails, SeesEnd, Leaves, daemon
  <2>3. \/ UNCHANGED phase
        \/ phase' = [phase EXCEPT ![p] = "left"]
        \/ phase[p] # "left" /\ \E to \in {"connected", "running"} : phase' = [phase EXCEPT ![p] = to]
    BY <2>1 DEF Program, Leave, Connect, write_identifying_msg, Message, Pong, Writes,
                PingEnds, ConnectFails, SeesEnd, Leaves
  <2>4. \A q \in Programs : phase'[q] # "left" => phase[q] # "left"
    BY <2>3 DEF TypeOK
  <2> QED BY <2>2, <2>4, SlotsKept
<1>2. CASE \E i \in Slots : Arrive(i)
  <2>1. UNCHANGED <<status, fds, identified, phase>>
    BY <1>2 DEF Arrive, programs
  <2> QED BY <2>1, SlotsKept
<1>3. CASE Poll
  <2>1. UNCHANGED <<status, fds, identified, phase>>
    BY <1>3 DEF Poll, programs
  <2> QED BY <2>1, SlotsKept
<1>4. CASE \E i \in Slots : Disconnect(i)
  <2>1. PICK i \in Slots : Disconnect(i)
    BY <1>4
  <2>2. /\ Serves(i, "hup") /\ UNCHANGED <<status, identified, phase>>
        /\ fds' = [fds EXCEPT ![i] = None]
    BY <2>1 DEF Disconnect, programs
  <2>3. phase[fds[i]] = "left"
    BY <2>2 DEF Serves, Current, CurrentAt
  <2>4. \A j \in Named : fds[j] \in Programs /\ phase[fds[j]] # "left" => fds'[j] = fds[j]
    BY <2>2, <2>3 DEF TypeOK, Slots
  <2> QED BY <2>2, <2>4, SlotsKept
<1>5. CASE handle_new_client \/ NoSlot
  <2>1. /\ \A i \in Named : fds'[i] = fds[i]
        /\ status = "runs" /\ UNCHANGED <<identified, phase>>
    BY <1>5, NewClientStep DEF handle_new_client, NoSlot, Serves
  <2> QED BY <2>1, SlotsKept
<1>6. CASE RawPacket
  <2>1. UNCHANGED <<fds, identified, phase>> /\ (status' = "runs" => status = "runs")
    BY <1>6, RawPacketStep DEF RawPacket
  <2> QED BY <2>1, SlotsKept
<1>7. CASE \E i \in Pending : identify_unix_client(i)
  BY <1>7, SlotTaken
<1>8. CASE \E i \in Named : \/ i = 3 /\ handle_routing_msg
                            \/ UpperMessage(i)
  <2>1. UNCHANGED <<fds, identified, phase>> /\ (status' = "runs" => status = "runs")
    BY <1>8, MessageStep DEF Reads
  <2> QED BY <2>1, SlotsKept
<1>9. CASE Stop \/ UNCHANGED vars
  <2>1. UNCHANGED <<fds, identified, phase>> /\ (status' = "runs" => status = "runs")
    BY <1>9, StopStep
  <2> QED BY <2>1, SlotsKept
<1> QED BY <1>1, <1>2, <1>3, <1>4, <1>5, <1>6, <1>7, <1>8, <1>9, StepCases

\* The last program of its kind that the daemon identified is in its slot for
\* as long as it runs: the end of an older one (mip_daemon.c:532-536) is never
\* taken for the end of the one that took its place (474-491).
THEOREM NewestKeepsItsSlot == Spec => []LatestInSlot
<1>1. Init => LatestInSlot
  BY EmptyFacts DEF Init, LatestInSlot
<1>2. ClientsInv /\ LatestInSlot /\ [Next]_vars => LatestInSlot'
  BY LatestStep
<1> QED BY <1>1, <1>2, ClientsInvariant, PTL DEF Spec

-----------------------------------------------------------------------------
(* Both slots for new connections come free again *)

\* A connection that waits, or is in a slot for those that have not said who they
\* are, was not identified; one that was has connected.
NotIdentified ==
    /\ \A i \in Pending : fds[i] # None => ~InSeq(fds[i], identified)
    /\ \A k \in 1..Len(backlog) : ~InSeq(backlog[k], identified)
    /\ \A k \in 1..Len(identified) : phase[identified[k]] # "off"

\* A step that identifies nobody and brings no new connection.
LEMMA NotIdentifiedKept ==
    ASSUME NotIdentified, UNCHANGED identified,
           \A i \in Pending : fds'[i] \in {fds[i], None},
           UNCHANGED backlog,
           \A k \in 1..Len(identified) :
                phase[identified[k]] # "off" => phase'[identified[k]] # "off"
    PROVE  NotIdentified'
<1>1. \A i \in Pending : fds'[i] # None => ~InSeq(fds'[i], identified)
  BY DEF NotIdentified
<1>2. \A k \in 1..Len(identified) : phase'[identified[k]] # "off"
  BY DEF NotIdentified
<1>3. \A x : InSeq(x, identified)' = InSeq(x, identified)
  BY DEF InSeq
<1>4. \A i \in Pending : fds'[i] # None => ~\E k \in 1..Len(identified') : identified'[k] = fds'[i]
  BY <1>1 DEF InSeq
<1>5. \A k \in 1..Len(backlog') : ~\E l \in 1..Len(identified') : identified'[l] = backlog'[k]
  BY DEF NotIdentified, InSeq
<1> QED BY <1>2, <1>4, <1>5 DEF NotIdentified, InSeq

\* A program does something: it is a new connection only if it had none.
LEMMA ProgramNotIdentified ==
    ASSUME ClientsInv, NotIdentified, NEW p \in Programs, Program(p) \/ Leave(p)
    PROVE  NotIdentified'
<1>1. /\ identified \in Seq(Programs) /\ backlog \in Seq(Programs) /\ Len(backlog) \in Nat
      /\ phase \in [Programs -> {"off", "connected", "running", "left"}]
  BY DEF ClientsInv, TypeOK
<1>2. \A k \in 1..Len(identified) : identified[k] \in Programs
  BY <1>1
<1>3. UNCHANGED <<fds, identified>>
  BY DEF Program, Leave, Connect, write_identifying_msg, Message, Pong, Writes,
         PingEnds, ConnectFails, SeesEnd, Leaves, daemon
<1>4. \A q \in Programs : phase[q] # "off" => phase'[q] # "off"
  <2>1. \/ UNCHANGED phase
        \/ \E to \in {"connected", "running", "left"} : phase' = [phase EXCEPT ![p] = to]
    BY DEF Program, Leave, Connect, write_identifying_msg, Message, Pong, Writes,
           PingEnds, ConnectFails, SeesEnd, Leaves
  <2> QED BY <1>1, <2>1
<1>5. CASE Connect(p)
  <2>1. phase[p] = "off" /\ backlog' = Append(backlog, p)
    BY <1>5 DEF Connect
  <2>2. /\ Len(backlog') = Len(backlog) + 1
        /\ \A k \in 1..Len(backlog) : backlog'[k] = backlog[k]
        /\ backlog'[Len(backlog) + 1] = p
    BY <1>1, <2>1, AppendFacts
  <2>3. ~InSeq(p, identified)
    BY <2>1 DEF NotIdentified, InSeq
  <2>4. \A k \in 1..Len(backlog') : ~InSeq(backlog'[k], identified)
    <3>1. \A k \in 1..Len(backlog') : k \in 1..Len(backlog) \/ k = Len(backlog) + 1
      BY <1>1, <2>2
    <3> QED BY <2>2, <2>3, <3>1 DEF NotIdentified
  <2>5. \A k \in 1..Len(identified) : phase'[identified[k]] # "off"
    BY <1>2, <1>4 DEF NotIdentified
  <2> QED BY <1>3, <2>4, <2>5 DEF NotIdentified, InSeq
<1>6. CASE ~Connect(p)
  <2>1. UNCHANGED backlog
    BY <1>6 DEF Program, Leave, write_identifying_msg, Message, Pong, Writes,
                PingEnds, ConnectFails, SeesEnd, Leaves
  <2> QED BY <1>2, <1>3, <1>4, <2>1, NotIdentifiedKept
<1> QED BY <1>5, <1>6

\* A connection is accepted: put into a free slot or nowhere.
LEMMA AcceptedNotIdentified ==
    ASSUME ClientsInv, NotIdentified, handle_new_client \/ NoSlot
    PROVE  NotIdentified'
<1>1. /\ backlog' = Tail(backlog) /\ UNCHANGED <<identified, phase>>
      /\ Serves(0, "in")
      /\ UNCHANGED fds \/ \E i \in Free : fds' = [fds EXCEPT ![i] = Head(backlog)]
  BY DEF handle_new_client, NoSlot
<1>2. backlog # <<>>
  BY <1>1, SlotFacts, ServesFacts DEF ClientsInv, Current
<1>3. /\ Head(backlog) = backlog[1] /\ 1 \in 1..Len(backlog)
      /\ \A k \in 1..Len(backlog') : k + 1 \in 1..Len(backlog) /\ backlog'[k] = backlog[k + 1]
  BY <1>1, <1>2, BacklogTail DEF ClientsInv
<1>4. ~InSeq(Head(backlog), identified)
  BY <1>3 DEF NotIdentified
<1>5. \A i \in Pending : fds'[i] = fds[i] \/ fds'[i] = Head(backlog)
  BY <1>1 DEF Free, ClientsInv, TypeOK, Slots
<1>6. \A i \in Pending : fds'[i] # None => ~InSeq(fds'[i], identified)
  BY <1>4, <1>5 DEF NotIdentified
<1>7. \A k \in 1..Len(backlog') : ~InSeq(backlog'[k], identified)
  BY <1>3 DEF NotIdentified
<1> QED BY <1>1, <1>6, <1>7 DEF NotIdentified, InSeq

\* A program is identified, and its connection is moved to a slot of its own.
LEMMA IdentifiedLeaves ==
    ASSUME ClientsInv, NotIdentified, NEW i \in Pending, identify_unix_client(i)
    PROVE  NotIdentified'
<1> DEFINE q == fds[i]
<1>1. /\ Reads(i) /\ fds' = Moved(i) /\ i \in Slots
      /\ identified' = Append(identified, q)
      /\ UNCHANGED <<backlog, phase>>
  BY DEF identify_unix_client, Reads, Slots
<1>2. q \in Programs /\ q # None /\ phase[q] # "off"
  BY <1>1, ReadsFacts
<1>3. identified \in Seq(Programs) /\ fds \in [Slots -> Programs \cup {None}] /\ OnePlace
  BY DEF ClientsInv, TypeOK
<1>4. /\ Len(identified) \in Nat /\ Len(identified') = Len(identified) + 1
      /\ \A k \in 1..Len(identified) : identified'[k] = identified[k]
      /\ identified'[Len(identified) + 1] = q
  BY <1>1, <1>2, <1>3, AppendFacts
<1>5. \A k \in 1..Len(identified') : k \in 1..Len(identified) \/ k = Len(identified) + 1
  BY <1>4
<1>6. \A x : (\E k \in 1..Len(identified') : identified'[k] = x) => InSeq(x, identified) \/ x = q
  BY <1>4, <1>5 DEF InSeq
<1>7. \A j \in Pending : fds'[j] = None \/ (j # i /\ fds'[j] = fds[j])
  <2>1. SlotOf(q) \in Named
    BY <1>2, SlotOfNamed
  <2> QED BY <1>1, <1>3, <2>1, SlotFacts DEF Moved
<1>8. \A j \in Pending : fds'[j] # None => fds'[j] # q /\ ~InSeq(fds'[j], identified)
  BY <1>3, <1>7 DEF OnePlace, NotIdentified, Slots
<1>9. \A k \in 1..Len(backlog) : backlog[k] # q /\ ~InSeq(backlog[k], identified)
  BY <1>1, <1>3 DEF OnePlace, NotIdentified
<1>10. \A k \in 1..Len(identified') : phase[identified'[k]] # "off"
  BY <1>2, <1>4, <1>5 DEF NotIdentified
<1> HIDE DEF q
<1>11. \A j \in Pending : fds'[j] # None => ~\E k \in 1..Len(identified') : identified'[k] = fds'[j]
  BY <1>6, <1>8
<1>12. \A l \in 1..Len(backlog) : ~\E k \in 1..Len(identified') : identified'[k] = backlog[l]
  BY <1>6, <1>9
<1> QED BY <1>1, <1>10, <1>11, <1>12 DEF NotIdentified, InSeq

\* Every step keeps it.
LEMMA NotIdentifiedStep ==
    ASSUME ClientsInv, NotIdentified, [Next]_vars
    PROVE  NotIdentified'
<1>1. CASE \E p \in Programs : Program(p) \/ Leave(p)
  BY <1>1, ProgramNotIdentified
<1>2. CASE handle_new_client \/ NoSlot
  BY <1>2, AcceptedNotIdentified
<1>3. CASE \E i \in Pending : identify_unix_client(i)
  BY <1>3, IdentifiedLeaves
<1>4. CASE \E i \in Slots : Disconnect(i)
  <2>1. PICK i \in Slots : Disconnect(i)
    BY <1>4
  <2>2. UNCHANGED <<backlog, identified, phase>> /\ fds' = [fds EXCEPT ![i] = None]
    BY <2>1 DEF Disconnect, programs
  <2>3. \A j \in Pending : fds'[j] \in {fds[j], None}
    BY <2>2 DEF ClientsInv, TypeOK, Slots
  <2> QED BY <2>2, <2>3, NotIdentifiedKept
<1>5. CASE \/ \E i \in Slots : Arrive(i)
           \/ Poll \/ RawPacket
           \/ \E i \in Named : \/ i = 3 /\ handle_routing_msg
                               \/ UpperMessage(i)
           \/ Stop \/ UNCHANGED vars
  <2>1. UNCHANGED <<fds, backlog, identified, phase>>
    BY <1>5 DEF Arrive, Poll, RawPacket, handle_routing_msg, UpperMessage, Reads, Stop, programs, vars
  <2> QED BY <2>1, NotIdentifiedKept
<1> QED BY <1>1, <1>2, <1>3, <1>4, <1>5, StepCases

\* A connection is put nowhere only when nothing is free.
LEMMA LossStep ==
    ASSUME ClientsInv, NotIdentified, [Next]_vars, lost' # lost
    PROVE  \E p, q \in Programs : p # q /\ Undecided(p) /\ Undecided(q)
<1>1. NoSlot
  <2>1. \A p \in Programs : Program(p) \/ Leave(p) => UNCHANGED lost
    BY DEF Program, Leave, Connect, write_identifying_msg, Message, Pong, Writes,
           PingEnds, ConnectFails, SeesEnd, Leaves, daemon
  <2>2. (\E i \in Slots : Arrive(i) \/ Disconnect(i)) \/ Poll \/ handle_new_client => UNCHANGED lost
    BY DEF Arrive, Disconnect, Poll, handle_new_client
  <2>3. RawPacket \/ handle_routing_msg \/ Stop \/ UNCHANGED vars => UNCHANGED lost
    BY DEF RawPacket, handle_routing_msg, Reads, Stop, vars
  <2>4. \A i : UpperMessage(i) \/ identify_unix_client(i) => UNCHANGED lost
    BY DEF UpperMessage, identify_unix_client, Reads
  <2> QED BY <2>1, <2>2, <2>3, <2>4, StepCases
<1>2. 5 \in Pending /\ 6 \in Pending /\ 5 \in Slots /\ 6 \in Slots
  BY SlotFacts
<1>3. fds[5] # None /\ fds[6] # None
  BY <1>1, <1>2 DEF NoSlot, Free
<1>4. fds[5] \in Programs /\ fds[6] \in Programs
  BY <1>2, <1>3, PlacesTyped DEF ClientsInv
<1>5. fds[5] # fds[6]
  BY <1>2, <1>3 DEF ClientsInv, OnePlace
<1>6. Undecided(fds[5]) /\ Undecided(fds[6])
  BY <1>2, <1>3 DEF Undecided, NotIdentified
<1> QED BY <1>4, <1>5, <1>6

\* A connection is put nowhere only while the daemon has those of two others that
\* it has not identified: the two slots for connections of unknown kind
\* (mip_daemon.c:453-459) come free again, however the ones in them went.
THEOREM TwoUndecidedFirst == Spec => LossNeedsTwo
<1>1. Init => NotIdentified
  BY EmptyFacts, SlotFacts DEF Init, NotIdentified, Slots, InSeq
<1>2. ClientsInv /\ NotIdentified /\ [Next]_vars => NotIdentified'
  BY NotIdentifiedStep
<1>3. ClientsInv /\ NotIdentified /\ [Next]_vars =>
        [lost' # lost => \E p, q \in Programs : p # q /\ Undecided(p) /\ Undecided(q)]_vars
  BY LossStep
<1> QED BY <1>1, <1>2, <1>3, ClientsInvariant, PTL DEF Spec, LossNeedsTwo
=============================================================================
