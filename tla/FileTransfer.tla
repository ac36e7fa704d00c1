---------------------------- MODULE FileTransfer ----------------------------
(***************************************************************************)
(* The file programs: every file_transfer (file_transfer.c) sends the size *)
(* of its file and then the file in chunks; one file_server                *)
(* (file_server.c, file_transfer_utils.c) receives them all, tells them    *)
(* apart by MIP address and port, and closes a file when it has counted as *)
(* many bytes as were announced.                                           *)
(*                                                                         *)
(* The MIPTP daemons between them are chan[s], the messages of sender s in *)
(* order, which is what Miptp shows of them; its streams may begin with a  *)
(* later packet than the first, and so do those of the senders in Late.    *)
(* The length a message arrives with is that of Frames.                    *)
(***************************************************************************)
EXTENDS Frames, Sequences, FiniteSets

CONSTANTS
    Senders,        \* <<mip, port>> of the file_transfer programs
    Length,         \* Length[s]: bytes in the file of s
    Zeros,          \* Zeros[s]: positions of bytes of value 0 in it
    Late,           \* senders whose first messages may be missed
    ChunkAsSize,    \* numbers the first four bytes of a chunk may stand for
    CHUNK,          \* 1400: bytes in a chunk
    UINT32          \* 2^32: the numbers a uint32_t holds

ASSUME SendersAssumption ==
    /\ Length \in [Senders -> 0..UINT32 - 1]
    /\ Zeros \in [Senders -> SUBSET (Nat \ {0})]
    /\ Late \subseteq Senders

ASSUME ChunkAssumption ==
    /\ CHUNK \in 1..2036 /\ CHUNK % 4 = 0
    /\ UINT32 \in Nat \ {0}
    /\ ChunkAsSize \subseteq 0..UINT32 - 1

VARIABLES
    sent,       \* sent[s]: bytes of its file s has sent, -1 before the size
    chan,       \* chan[s]: messages of s on their way to the server
    links,      \* the senders the server knows, in the order it met them
    done        \* the server has ended

vars == <<sent, chan, links, done>>

\* A byte is <<s, i>>, the i-th of the file of s, or <<s, 0>>, a byte of padding.
Bytes == Senders \X Nat
SizeMsg == [type : {"size"}, size : Nat]
ChunkMsg == [type : {"chunk"}, sdu : Seq(Bytes)]

\* file_size counts down the bytes to come.  The field whole is history: the
\* link was made from the first message of the sender.
Link == [sender : Senders, file_size : 0..UINT32 - 1, file : Seq(Bytes),
         state : {"open", "closed", "written after close"}, whole : BOOLEAN]

TypeOK ==
    /\ sent \in [Senders -> {-1} \cup Nat]
    /\ chan \in [Senders -> Seq(SizeMsg \cup ChunkMsg)]
    /\ links \in Seq(Link)
    /\ done \in BOOLEAN

Init ==
    /\ sent = [s \in Senders |-> -1]
    /\ chan = [s \in Senders |-> <<>>]
    /\ links = <<>>
    /\ done = FALSE

-----------------------------------------------------------------------------
(* file_transfer *)

SendSize(s) ==
    /\ sent[s] = -1
    /\ sent' = [sent EXCEPT ![s] = 0]
    /\ chan' = [chan EXCEPT ![s] = Append(@, [type |-> "size", size |-> Length[s]])]
    /\ UNCHANGED <<links, done>>

\* Mutant: a chunk does not end at a word.
freadOdd(s) ==
    LET rest == Length[s] - sent[s]
        size == IF rest < CHUNK THEN rest ELSE CHUNK - 1
    IN  [i \in 1..size |-> <<s, sent[s] + i>>]

\* What fread gives: the next bytes of the file, at most CHUNK.
fread(s) ==
    LET rest == Length[s] - sent[s]
        size == IF rest < CHUNK THEN rest ELSE CHUNK
    IN  [i \in 1..size |-> <<s, sent[s] + i>>]

\* Mutant: the end of the file is noticed after an empty chunk was sent.
SendChunkAtEnd(s) ==
    /\ sent[s] \in 0..Length[s]
    /\ sent' = [sent EXCEPT ![s] = @ + Len(fread(s))]
    /\ chan' = [chan EXCEPT ![s] = Append(@, [type |-> "chunk", sdu |-> fread(s)])]
    /\ UNCHANGED <<links, done>>

SendChunk(s) ==
    /\ sent[s] \in 0..Length[s] - 1
    /\ sent' = [sent EXCEPT ![s] = @ + Len(fread(s))]
    /\ chan' = [chan EXCEPT ![s] = Append(@, [type |-> "chunk", sdu |-> fread(s)])]
    /\ UNCHANGED <<links, done>>

-----------------------------------------------------------------------------
(* The MIPTP daemons *)

\* The payload as it is handed over: cut, or with bytes of padding.
Handed(s, sdu) ==
    LET n == HandedPayload(Len(sdu))
    IN  [i \in 1..n |-> IF i <= Len(sdu) THEN sdu[i] ELSE <<s, 0>>]

\* A stream begins with a later message.
MissFirst(s) ==
    /\ s \in Late
    /\ chan[s] # <<>>
    /\ \A k \in 1..Len(links) : links[k].sender # s
    /\ chan' = [chan EXCEPT ![s] = Tail(@)]
    /\ UNCHANGED <<sent, links, done>>

-----------------------------------------------------------------------------
(* file_server *)

\* Mutant: senders of one node are not told apart.
check_linkByMip(s) == {k \in 1..Len(links) : links[k].sender[1] = s[1]}

\* The links of sender s: there is at most one.
check_link(s) == {k \in 1..Len(links) : links[k].sender = s}

\* Mutant: all bytes are counted.
strlenAll(sdu) == Len(sdu)

\* The bytes of a chunk up to the first one of value 0.
strlen(sdu) ==
    LET IsZero(b) == b[2] = 0 \/ b[2] \in Zeros[b[1]]
    IN  Cardinality({i \in 1..Len(sdu) : \A j \in 1..i : ~IsZero(sdu[j])})

\* The number in the first four bytes of a message.
FileSizes(msg) == IF msg.type = "size" THEN {msg.size} ELSE ChunkAsSize

\* The server reads the first message of s.
Reads(s) ==
    /\ ~done
    /\ chan[s] # <<>>
    /\ chan' = [chan EXCEPT ![s] = Tail(@)]
    /\ UNCHANGED <<sent, done>>

create_new_link(s) ==
    /\ Reads(s)
    /\ check_link(s) = {}
    /\ \E size \in FileSizes(Head(chan[s])) :
        links' = Append(links, [sender |-> s, file_size |-> size, file |-> <<>>,
                                state |-> "open", whole |-> Head(chan[s]).type = "size"])

\* Mutant: the difference is kept as a signed number.
BytesLeftSigned(link, sdu) == link.file_size - strlen(sdu)

\* The bytes left in a link after sdu was counted, as a uint32_t.
BytesLeft(link, sdu) == (link.file_size + UINT32 - strlen(sdu)) % UINT32

\* The link after a chunk: the file is closed when no bytes are left, and a
\* closed file is written to all the same.
WithChunk(link, sdu) ==
    LET left == BytesLeft(link, sdu)
    IN  [link EXCEPT !.file = @ \o sdu,
                     !.file_size = left,
                     !.state = IF @ # "open" THEN "written after close"
                               ELSE IF left = 0 THEN "closed" ELSE "open"]

\* What comes from a known sender is written to its file, whatever it is.
ReceiveChunk(s) ==
    LET msg == Head(chan[s])
        sdu == IF msg.type = "chunk" THEN Handed(s, msg.sdu) ELSE [i \in 1..8 |-> <<s, 0>>]
    IN  /\ Reads(s)
        /\ \E k \in check_link(s) : links' = [links EXCEPT ![k] = WithChunk(@, sdu)]

\* The MIPTP daemon has gone: the server ends.
ServerEnds ==
    /\ ~done
    /\ done' = TRUE
    /\ UNCHANGED <<sent, chan, links>>

Next ==
    \/ \E s \in Senders : SendSize(s) \/ SendChunk(s)
    \/ \E s \in Senders : MissFirst(s)
    \/ \E s \in Senders : create_new_link(s) \/ ReceiveChunk(s)
    \/ ServerEnds

Spec == Init /\ [][Next]_vars

\* Each program does one thing after the other, and the MIPTP daemons hand
\* over what they have taken (AllAcknowledged of Miptp).
Fairness ==
    \A s \in Senders : /\ WF_vars(SendSize(s) \/ SendChunk(s))
                       /\ WF_vars(create_new_link(s) \/ ReceiveChunk(s))

FairSpec == Spec /\ Fairness

-----------------------------------------------------------------------------
(* Properties *)

\* The file of s, byte by byte.
File(s) == [i \in 1..Length[s] |-> <<s, i>>]

WholeLinks == {k \in 1..Len(links) : links[k].whole}

\* When the server says "Transmission complete" (file_server.c:102-105) every
\* byte of that sender's file is in place, however the chunks of several
\* senders came in between.
CompleteFiles ==
    \A k \in WholeLinks : links[k].state = "closed" =>
        LET s == links[k].sender
        IN  /\ Len(links[k].file) >= Length[s]
            /\ SubSeq(links[k].file, 1, Length[s]) = File(s)

\* No file is written to after fclose (file_server.c:96-103): the bytes counted
\* reach the size only with the last chunk, although a chunk may arrive with
\* bytes of padding.
NoWriteAfterClose ==
    \A k \in WholeLinks : links[k].state # "written after close"

\* The count of the bytes left never passes below zero, where it would start
\* again at 2^32 - 1 (file_server.c:99-101).
NoUnderflow ==
    \A k \in WholeLinks : links[k].file_size <= Length[links[k].sender]

\* The files that are counted to the end: not empty, no byte of value 0, and
\* not cut by the padding.
Countable(s) == Length[s] > 0 /\ Zeros[s] = {} /\ Length[s] % 4 # 3

\* Such a file is completed in the end, unless the first message was missed or
\* the server ended.
Completed ==
    \A s \in Senders \ Late : Countable(s) =>
        <>(done \/ \E k \in 1..Len(links) : links[k].sender = s /\ links[k].state = "closed")

\* "the miptp_daemon that will ensure that the file reaches its destination in
\* order" (file_transfer.c:37): a complete file is the file that was sent.
FileIntact ==
    \A k \in WholeLinks : links[k].state = "closed" =>
        links[k].file = File(links[k].sender)
=============================================================================
