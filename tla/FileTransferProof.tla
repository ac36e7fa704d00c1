------------------------- MODULE FileTransferProof -------------------------
(***************************************************************************)
(* Proofs about the file programs, for every number of senders, every size *)
(* of their files and every order of their messages.  The argument is that *)
(* the chunks of a sender lie end to end: the one the server reads next    *)
(* begins where the file it has written ends, as long as one is to come.   *)
(***************************************************************************)
EXTENDS FileTransfer, FramesProof, SequenceTheorems, FiniteSetTheorems

-----------------------------------------------------------------------------
(* The inductive invariant *)

\* The bytes in the chunk of s that begins after p bytes.
ChunkLen(s, p) == IF Length[s] - p < CHUNK THEN Length[s] - p ELSE CHUNK

\* The message of s at position p: the size stands before the file.
MessageAt(s, p) ==
    IF p = -CHUNK THEN [type |-> "size", size |-> Length[s]]
    ELSE [type |-> "chunk", sdu |-> [i \in 1..ChunkLen(s, p) |-> <<s, p + i>>]]

\* Where in the file a message begins.
Pos(msg) == IF msg.type = "size" THEN -CHUNK ELSE msg.sdu[1][2] - 1

Positions(s) == {-CHUNK} \cup 0..Length[s] - 1

\* The messages q of s under way, each of which begins where the one before it
\* ends, and the last of which ends at the n bytes s has sent.
InOrder(s, q, n) ==
    /\ n \in -1..Length[s]
    /\ n = -1 => q = <<>>
    /\ \A i \in 1..Len(q) :
        /\ Pos(q[i]) \in Positions(s)
        /\ q[i] = MessageAt(s, Pos(q[i]))
        /\ i < Len(q) => Pos(q[i + 1]) = Pos(q[i]) + CHUNK
        /\ i = Len(q) /\ n < Length[s] => Pos(q[i]) + CHUNK = n

\* Whether the server will read more of s, and where that begins.
ToCome(s, q, n) == q # <<>> \/ n < Length[s]

\* Where the next message begins.
Expected(q, n) == IF q # <<>> THEN Pos(q[1]) ELSE n

\* The file of a link is a part of the one that is sent, with no fewer bytes
\* than were counted.
Counted(l) ==
    LET s == l.sender
    IN  /\ l.file_size <= Length[s]
        /\ Length[s] - l.file_size <= Len(l.file)
        /\ \A i \in 1..Len(l.file) : i <= Length[s] => l.file[i] = <<s, i>>
        /\ l.state = "open" \/ (l.state = "closed" /\ l.file_size = 0)

\* The next chunk belongs at the end of the file of the link.
Continued(l, q, n) ==
    /\ n # -1
    /\ \A i \in 1..Len(q) : q[i].type = "chunk"
    /\ ToCome(l.sender, q, n) => Len(l.file) = Expected(q, n)

\* The link of a sender fits the file it writes.
LinkInv(l) ==
    l.whole => Counted(l) /\ Continued(l, chan[l.sender], sent[l.sender])

OneLinkEach ==
    \A j, k \in 1..Len(links) : links[j].sender = links[k].sender => j = k

\* The inductive invariant.
FileInv ==
    /\ TypeOK
    /\ \A s \in Senders : InOrder(s, chan[s], sent[s])
    /\ OneLinkEach
    /\ \A k \in 1..Len(links) : LinkInv(links[k])

Messages == SizeMsg \cup ChunkMsg

-----------------------------------------------------------------------------
(* Messages *)

\* The constants are numbers.
LEMMA Numbers ==
    ASSUME NEW s \in Senders
    PROVE  /\ Length[s] \in Nat /\ Length[s] < UINT32
           /\ CHUNK \in Nat /\ CHUNK >= 1 /\ CHUNK <= 2036 /\ CHUNK % 4 = 0
           /\ UINT32 \in Nat /\ UINT32 >= 1
  BY SendersAssumption, ChunkAssumption

\* A chunk is as long as the rest of the file, and at most CHUNK.
LEMMA ChunkLength ==
    ASSUME NEW s \in Senders, NEW p \in 0..Length[s] - 1
    PROVE  /\ ChunkLen(s, p) \in Nat /\ ChunkLen(s, p) >= 1
           /\ ChunkLen(s, p) <= CHUNK /\ ChunkLen(s, p) <= 2036
           /\ p + ChunkLen(s, p) <= Length[s]
           /\ p + CHUNK <= Length[s] => ChunkLen(s, p) = CHUNK
           /\ p + ChunkLen(s, p) < Length[s] => ChunkLen(s, p) = CHUNK
           /\ ChunkLen(s, p) # CHUNK => p + ChunkLen(s, p) = Length[s]
  <1>1. /\ Length[s] \in Nat /\ CHUNK \in Nat /\ CHUNK >= 1 /\ CHUNK <= 2036
    BY Numbers
  <1>. QED  BY <1>1 DEF ChunkLen

\* A message has the position it is the message of.
LEMMA MessageTyped ==
    ASSUME NEW s \in Senders, NEW p \in Positions(s)
    PROVE  /\ MessageAt(s, p) \in Messages
           /\ Pos(MessageAt(s, p)) = p
           /\ p = -CHUNK => MessageAt(s, p) = [type |-> "size", size |-> Length[s]]
           /\ p # -CHUNK =>
                /\ p \in 0..Length[s] - 1
                /\ MessageAt(s, p).type = "chunk"
                /\ MessageAt(s, p).sdu \in Seq(Bytes)
                /\ Len(MessageAt(s, p).sdu) = ChunkLen(s, p)
                /\ \A i \in 1..ChunkLen(s, p) : MessageAt(s, p).sdu[i] = <<s, p + i>>
  <1>1. Length[s] \in Nat /\ CHUNK \in Nat /\ CHUNK >= 1
    BY Numbers
  <1>2. CASE p = -CHUNK
    <2>1. MessageAt(s, p) = [type |-> "size", size |-> Length[s]]
      BY <1>2 DEF MessageAt
    <2>. QED  BY <1>1, <1>2, <2>1 DEF Messages, SizeMsg, Pos
  <1>3. CASE p # -CHUNK
    <2>. DEFINE c == [i \in 1..ChunkLen(s, p) |-> <<s, p + i>>]
                msg == MessageAt(s, p)
    <2>1. p \in 0..Length[s] - 1
      BY <1>3 DEF Positions
    <2>2. ChunkLen(s, p) \in Nat /\ ChunkLen(s, p) >= 1
      BY <2>1, ChunkLength
    <2>3. msg = [type |-> "chunk", sdu |-> c]
      BY <1>3 DEF MessageAt
    <2>4. /\ c \in Seq(Bytes) /\ Len(c) = ChunkLen(s, p)
          /\ \A i \in 1..ChunkLen(s, p) : c[i] = <<s, p + i>>
      <3>1. \A i \in 1..ChunkLen(s, p) : <<s, p + i>> \in Bytes
        BY <2>1, <2>2 DEF Bytes
      <3>2. c \in [1..ChunkLen(s, p) -> Bytes]
        BY <3>1
      <3>. QED  BY <2>2, <3>2
    <2>5. c[1][2] = p + 1
      BY <2>2
    <2>. HIDE DEF c
    <2>6. msg \in Messages /\ msg.type = "chunk" /\ msg.sdu = c
      BY <2>3, <2>4 DEF Messages, ChunkMsg
    <2>7. Pos(msg) = p
      BY <2>1, <2>3, <2>5 DEF Pos
    <2>. QED  BY <1>3, <2>1, <2>4, <2>6, <2>7
  <1>. QED  BY <1>2, <1>3

\* What is handed over of a chunk: all of it when it is a full one, and bytes
\* of padding behind it (miptp_utils.c:132-141, 325).
LEMMA ChunkHanded ==
    ASSUME NEW s \in Senders, NEW p \in 0..Length[s] - 1, NEW c \in Seq(Bytes),
           Len(c) = ChunkLen(s, p), \A i \in 1..ChunkLen(s, p) : c[i] = <<s, p + i>>
    PROVE  /\ Handed(s, c) \in Seq(Bytes)
           /\ ChunkLen(s, p) = CHUNK => Len(Handed(s, c)) = CHUNK
           /\ \A i \in 1..Len(Handed(s, c)) :
                Handed(s, c)[i] = IF i <= ChunkLen(s, p) THEN <<s, p + i>> ELSE <<s, 0>>
  <1> DEFINE m == ChunkLen(s, p)
             n == HandedPayload(m)
             h == Handed(s, c)
  <1>1. m \in Nat /\ m <= 2036
    BY ChunkLength
  <1>2. CHUNK % 4 = 0
    BY Numbers
  <1>3. n = m + (IF m % 4 = 1 THEN 2 ELSE IF m % 4 = 3 THEN -2 ELSE 0)
    BY <1>1, HandedPayloadLength
  <1>4. h = [i \in 1..n |-> IF i <= m THEN c[i] ELSE <<s, 0>>]
    BY DEF Handed
  <1>. HIDE DEF m, n
  <1>5. n \in Nat
    BY <1>1, <1>3
  <1>6. m = CHUNK => n = CHUNK
    BY <1>1, <1>2, <1>3
  <1>. HIDE DEF h
  <1>7. ASSUME NEW i \in 1..n
        PROVE  /\ h[i] = IF i <= m THEN <<s, p + i>> ELSE <<s, 0>>
               /\ h[i] \in Bytes
    <2>1. h[i] = IF i <= m THEN c[i] ELSE <<s, 0>>
      BY <1>4
    <2>2. CASE i <= m
      <3>1. i \in 1..m /\ p + i \in Nat
        BY <1>1, <1>5, <2>2
      <3>2. c[i] = <<s, p + i>>
        BY <3>1 DEF m
      <3>3. h[i] = <<s, p + i>>
        BY <2>1, <2>2, <3>2
      <3>. QED  BY <2>2, <3>1, <3>3 DEF Bytes
    <2>3. CASE ~(i <= m)
      <3>1. h[i] = <<s, 0>>
        BY <2>1, <2>3
      <3>. QED  BY <2>3, <3>1 DEF Bytes
    <2>. QED  BY <2>2, <2>3
  <1>9. h \in [1..n -> Bytes]
    BY <1>4, <1>7
  <1>10. h \in Seq(Bytes) /\ Len(h) = n
    BY <1>5, <1>9
  <1>. QED  BY <1>6, <1>7, <1>10 DEF m, h

\* strlen counts bytes of the chunk, and none from one of value 0 on.
LEMMA strlenBounds ==
    ASSUME NEW sdu \in Seq(Bytes)
    PROVE  /\ strlen(sdu) \in Nat /\ strlen(sdu) <= Len(sdu)
           /\ \A m \in Nat : (\A i \in 1..Len(sdu) : i > m => sdu[i][2] = 0)
                => strlen(sdu) <= m
  <1> DEFINE IsZero(b) == b[2] = 0 \/ b[2] \in Zeros[b[1]]
             C == {i \in 1..Len(sdu) : \A j \in 1..i : ~IsZero(sdu[j])}
  <1>1. strlen(sdu) = Cardinality(C)
    BY DEF strlen
  <1>2. Len(sdu) \in Nat
    OBVIOUS
  <1>3. ASSUME NEW m \in Nat, C \subseteq 1..m
        PROVE  Cardinality(C) \in Nat /\ Cardinality(C) <= m
    <2>1. IsFiniteSet(1..m) /\ Cardinality(1..m) = m
      BY FS_Interval
    <2>. HIDE DEF C
    <2>. QED  BY <1>3, <2>1, FS_Subset, FS_CardinalityType
  <1>4. C \subseteq 1..Len(sdu)
    OBVIOUS
  <1>5. ASSUME NEW m \in Nat, \A i \in 1..Len(sdu) : i > m => sdu[i][2] = 0
        PROVE  C \subseteq 1..m
    <2>. SUFFICES ASSUME NEW i \in C, i > m PROVE FALSE
      OBVIOUS
    <2>1. i \in 1..Len(sdu) /\ ~IsZero(sdu[i])
      OBVIOUS
    <2>. QED  BY <1>5, <2>1
  <1>. HIDE DEF C
  <1>. QED  BY <1>1, <1>2, <1>3, <1>4, <1>5

\* A count that is not larger than what is left is just subtracted.
LEMMA Subtracted ==
    ASSUME NEW u \in Nat, NEW x \in 0..u - 1, NEW y \in 0..x
    PROVE  (x + u - y) % u = x - y
  OBVIOUS

-----------------------------------------------------------------------------
(* Messages under way *)

\* A message is taken from its stream: what is left is in order, consists of
\* chunks, and goes on where the message ended.
LEMMA TailInOrder ==
    ASSUME NEW s \in Senders, NEW q \in Seq(Messages), NEW n, InOrder(s, q, n), q # <<>>
    PROVE  /\ InOrder(s, Tail(q), n)
           /\ n # -1
           /\ \A i \in 1..Len(Tail(q)) : Tail(q)[i].type = "chunk"
           /\ ToCome(s, Tail(q), n) =>
                /\ Expected(Tail(q), n) = Pos(q[1]) + CHUNK
                /\ Pos(q[1]) + CHUNK < Length[s]
  <1> DEFINE r == Tail(q)
             L == Len(q)
  <1>1. /\ r \in Seq(Messages) /\ L \in Nat /\ L >= 1 /\ Len(r) = L - 1
        /\ \A i \in 1..Len(r) : r[i] = q[i + 1]
    BY HeadTailProperties
  <1>2. /\ Length[s] \in Nat /\ CHUNK \in Nat /\ CHUNK >= 1
    BY Numbers
  <1>3. n \in -1..Length[s] /\ n # -1
    BY DEF InOrder
  <1>4. \A i \in 1..L :
        /\ Pos(q[i]) \in Positions(s)
        /\ q[i] = MessageAt(s, Pos(q[i]))
        /\ i < L => Pos(q[i + 1]) = Pos(q[i]) + CHUNK
        /\ i = L /\ n < Length[s] => Pos(q[i]) + CHUNK = n
    BY DEF InOrder
  <1>. HIDE DEF r, L
  <1>5. ASSUME NEW i \in 1..Len(r)
        PROVE  /\ i + 1 \in 1..L /\ r[i] = q[i + 1]
               /\ i < Len(r) => i + 1 < L /\ i + 1 \in 1..Len(r)
               /\ i = Len(r) => i + 1 = L
    BY <1>1
  <1>6. InOrder(s, r, n)
    <2>1. ASSUME NEW i \in 1..Len(r)
          PROVE  /\ Pos(r[i]) \in Positions(s)
                 /\ r[i] = MessageAt(s, Pos(r[i]))
                 /\ i < Len(r) => Pos(r[i + 1]) = Pos(r[i]) + CHUNK
                 /\ i = Len(r) /\ n < Length[s] => Pos(r[i]) + CHUNK = n
      <3>1. Pos(r[i]) \in Positions(s) /\ r[i] = MessageAt(s, Pos(r[i]))
        BY <1>4, <1>5
      <3>2. i < Len(r) => Pos(r[i + 1]) = Pos(r[i]) + CHUNK
        <4>. SUFFICES ASSUME i < Len(r) PROVE Pos(r[i + 1]) = Pos(r[i]) + CHUNK
          OBVIOUS
        <4>1. i + 1 < L /\ i + 1 \in 1..Len(r) /\ i + 1 \in 1..L /\ r[i] = q[i + 1]
          BY <1>5
        <4>2. r[i + 1] = q[(i + 1) + 1]
          BY <1>5, <4>1
        <4>3. Pos(q[(i + 1) + 1]) = Pos(q[i + 1]) + CHUNK
          BY <1>4, <4>1
        <4>. QED  BY <4>1, <4>2, <4>3
      <3>3. i = Len(r) /\ n < Length[s] => Pos(r[i]) + CHUNK = n
        BY <1>4, <1>5
      <3>. QED  BY <3>1, <3>2, <3>3
    <2>. QED  BY <1>3, <2>1 DEF InOrder
  <1>7. ASSUME NEW i \in 1..Len(r)
        PROVE  /\ r[i].type = "chunk" /\ Pos(r[i]) \in 0..Length[s] - 1
    <2>1. i \in 1..L /\ i < L
      BY <1>1
    <2>2. Pos(q[i + 1]) = Pos(q[i]) + CHUNK /\ Pos(q[i]) \in Positions(s)
      BY <1>4, <2>1
    <2>. DEFINE p == Pos(r[i])
    <2>3. p \in Positions(s) /\ r[i] = MessageAt(s, p) /\ p = Pos(q[i]) + CHUNK
      BY <1>4, <1>5, <2>2
    <2>. HIDE DEF p
    <2>4. p # -CHUNK
      BY <1>2, <2>2, <2>3 DEF Positions
    <2>. QED  BY <2>3, <2>4, MessageTyped DEF p
  <1>8. ASSUME ToCome(s, r, n)
        PROVE  /\ Expected(r, n) = Pos(q[1]) + CHUNK
               /\ Pos(q[1]) + CHUNK < Length[s]
    <2>1. CASE r # <<>>
      <3>1. 1 \in 1..Len(r)
        BY <1>1, <2>1
      <3>2. Expected(r, n) = Pos(r[1])
        BY <2>1 DEF Expected
      <3>3. 1 \in 1..L /\ 1 < L /\ r[1] = q[1 + 1]
        BY <1>1, <3>1
      <3>4. Pos(q[1 + 1]) = Pos(q[1]) + CHUNK
        BY <1>4, <3>3
      <3>5. Pos(r[1]) \in 0..Length[s] - 1
        BY <1>7, <3>1
      <3>. QED  BY <1>2, <3>2, <3>3, <3>4, <3>5
    <2>2. CASE r = <<>>
      <3>1. n < Length[s] /\ Expected(r, n) = n
        BY <1>8, <2>2 DEF ToCome, Expected
      <3>2. Len(r) = 0
        BY <2>2
      <3>3. L = 1
        BY <1>1, <3>2
      <3>4. Pos(q[1]) + CHUNK = n
        BY <1>4, <3>1, <3>3
      <3>. QED  BY <3>1, <3>4
    <2>. QED  BY <2>1, <2>2
  <1>. QED  BY <1>3, <1>6, <1>7, <1>8 DEF r

\* A sender writes its next message: the stream stays in order, and what the
\* server reads next does not change.
LEMMA AppendInOrder ==
    ASSUME NEW s \in Senders, NEW q \in Seq(Messages), NEW n, InOrder(s, q, n),
           NEW p \in Positions(s), NEW m,
           \/ n = -1 /\ p = -CHUNK /\ m = 0
           \/ n \in 0..Length[s] - 1 /\ p = n /\ m = n + ChunkLen(s, n)
    PROVE  /\ Append(q, MessageAt(s, p)) \in Seq(Messages)
           /\ m \in Nat
           /\ InOrder(s, Append(q, MessageAt(s, p)), m)
           /\ \A l \in Link : l.sender = s /\ Continued(l, q, n) =>
                Continued(l, Append(q, MessageAt(s, p)), m)
  <1> DEFINE msg == MessageAt(s, p)
             r == Append(q, msg)
             L == Len(q)
  <1>1. msg \in Messages /\ Pos(msg) = p
    BY MessageTyped
  <1>2. /\ Length[s] \in Nat /\ CHUNK \in Nat /\ CHUNK >= 1
    BY Numbers
  <1>. HIDE DEF msg
  <1>3. /\ r \in Seq(Messages) /\ L \in Nat /\ Len(r) = L + 1
        /\ \A i \in 1..L : r[i] = q[i]
        /\ r[L + 1] = msg
    BY <1>1, AppendProperties
  <1>4. \A i \in 1..L :
        /\ Pos(q[i]) \in Positions(s)
        /\ q[i] = MessageAt(s, Pos(q[i]))
        /\ i < L => Pos(q[i + 1]) = Pos(q[i]) + CHUNK
        /\ i = L /\ n < Length[s] => Pos(q[i]) + CHUNK = n
    BY DEF InOrder
  <1>5. n = -1 => L = 0
    BY DEF InOrder
  <1>6. /\ m \in 0..Length[s]
        /\ m < Length[s] => p + CHUNK = m
        /\ n # -1 => n < Length[s] /\ p = n /\ n \in Nat
    <2>1. CASE n = -1 /\ p = -CHUNK /\ m = 0
      BY <1>2, <2>1
    <2>2. CASE n \in 0..Length[s] - 1 /\ p = n /\ m = n + ChunkLen(s, n)
      BY <1>2, <2>2, ChunkLength
    <2>. QED  BY <2>1, <2>2
  <1>. HIDE DEF r, L
  <1>7. ASSUME NEW i \in 1..Len(r)
        PROVE  /\ Pos(r[i]) \in Positions(s)
               /\ r[i] = MessageAt(s, Pos(r[i]))
               /\ i < Len(r) => Pos(r[i + 1]) = Pos(r[i]) + CHUNK
               /\ i = Len(r) /\ m < Length[s] => Pos(r[i]) + CHUNK = m
    <2>1. CASE i = L + 1
      <3>1. r[i] = msg /\ ~(i < Len(r))
        BY <1>3, <2>1
      <3>. QED  BY <1>1, <1>6, <3>1 DEF msg
    <2>2. CASE i = L /\ i # L + 1
      <3>1. i \in 1..L /\ r[i] = q[i] /\ r[i + 1] = msg /\ i # Len(r)
        BY <1>3, <2>2
      <3>2. n # -1
        BY <1>5, <2>2, <3>1
      <3>3. Pos(q[i]) + CHUNK = n
        BY <1>4, <1>6, <2>2, <3>1, <3>2
      <3>. QED  BY <1>1, <1>4, <1>6, <3>1, <3>2, <3>3
    <2>3. CASE i < L
      <3>1. i \in 1..L /\ i + 1 \in 1..L /\ i # Len(r)
        BY <1>3, <2>3
      <3>2. r[i] = q[i] /\ r[i + 1] = q[i + 1]
        BY <1>3, <3>1
      <3>. QED  BY <1>4, <2>3, <3>1, <3>2
    <2>. QED  BY <1>3, <2>1, <2>2, <2>3
  <1>8. InOrder(s, r, m)
    BY <1>6, <1>7 DEF InOrder
  <1>9. ASSUME NEW l \in Link, l.sender = s, Continued(l, q, n)
        PROVE  Continued(l, r, m)
    <2>1. /\ n # -1
          /\ \A i \in 1..L : q[i].type = "chunk"
          /\ ToCome(s, q, n) => Len(l.file) = Expected(q, n)
      BY <1>9 DEF Continued, L
    <2>2. p # -CHUNK
      BY <1>2, <1>6, <2>1
    <2>3. msg.type = "chunk"
      BY <2>2, MessageTyped DEF msg
    <2>4. \A i \in 1..Len(r) : r[i].type = "chunk"
      BY <1>3, <2>1, <2>3
    <2>5. Len(l.file) = Expected(q, n)
      BY <1>6, <2>1 DEF ToCome
    <2>6. r # <<>> /\ Expected(r, m) = Pos(r[1])
      BY <1>3 DEF Expected
    <2>7. Pos(r[1]) = Expected(q, n)
      <3>1. CASE q = <<>>
        <4>1. Len(q) = 0
          BY <3>1
        <4>2. L = 0
          BY <4>1 DEF L
        <4>3. r[1] = msg
          BY <1>3, <4>2
        <4>. QED  BY <1>1, <1>6, <2>1, <3>1, <4>3 DEF Expected
      <3>2. CASE q # <<>>
        <4>1. Len(q) >= 1
          BY <3>2
        <4>2. 1 \in 1..L
          BY <1>3, <4>1 DEF L
        <4>. QED  BY <1>3, <3>2, <4>2 DEF Expected
      <3>. QED  BY <3>1, <3>2
    <2>8. m # -1
      BY <1>2, <1>6
    <2>. QED  BY <1>9, <2>4, <2>5, <2>6, <2>7, <2>8 DEF Continued
  <1>. QED  BY <1>2, <1>3, <1>6, <1>8, <1>9 DEF r, msg

-----------------------------------------------------------------------------
(* The server *)

\* The fields of a link.
LEMMA LinkTyped ==
    ASSUME NEW l \in Link
    PROVE  /\ l.file_size \in Nat /\ l.file_size \in 0..UINT32 - 1
           /\ l.file \in Seq(Bytes) /\ l.sender \in Senders /\ l.whole \in BOOLEAN
           /\ UINT32 \in Nat /\ UINT32 # 0
  <1>1. UINT32 \in Nat /\ UINT32 # 0
    BY ChunkAssumption
  <1>2. /\ l.file_size \in 0..UINT32 - 1
        /\ l.file \in Seq(Bytes) /\ l.sender \in Senders /\ l.whole \in BOOLEAN
    BY DEF Link
  <1>. QED  BY <1>1, <1>2

\* A chunk that is written to a link leaves a link of the same sender.
LEMMA ChunkTyped ==
    ASSUME NEW l \in Link, NEW h \in Seq(Bytes)
    PROVE  /\ WithChunk(l, h) \in Link
           /\ WithChunk(l, h).sender = l.sender
           /\ WithChunk(l, h).whole = l.whole
           /\ WithChunk(l, h).file = l.file \o h
           /\ WithChunk(l, h).file_size = BytesLeft(l, h)
           /\ l.state = "open" =>
                WithChunk(l, h).state = IF BytesLeft(l, h) = 0 THEN "closed" ELSE "open"
  <1> DEFINE left == BytesLeft(l, h)
             st == IF l.state # "open" THEN "written after close"
                   ELSE IF left = 0 THEN "closed" ELSE "open"
             f == l.file \o h
  <1>1. WithChunk(l, h) = [l EXCEPT !.file = f, !.file_size = left, !.state = st]
    BY DEF WithChunk
  <1>2. left \in 0..UINT32 - 1
    <2>1. strlen(h) \in Nat
      BY strlenBounds
    <2>2. l.file_size \in Nat /\ UINT32 \in Nat /\ UINT32 # 0
      BY LinkTyped
    <2>. QED  BY <2>1, <2>2 DEF BytesLeft
  <1>3. f \in Seq(Bytes)
    <2>1. l.file \in Seq(Bytes)
      BY DEF Link
    <2>. QED  BY <2>1, ConcatProperties
  <1>4. st \in {"open", "closed", "written after close"}
    OBVIOUS
  <1>. HIDE DEF left, st, f
  <1>5. /\ WithChunk(l, h) \in Link
        /\ WithChunk(l, h).sender = l.sender
        /\ WithChunk(l, h).whole = l.whole
        /\ WithChunk(l, h).file = f
        /\ WithChunk(l, h).file_size = left
        /\ WithChunk(l, h).state = st
    BY <1>1, <1>2, <1>3, <1>4 DEF Link
  <1>. QED  BY <1>5 DEF left, st, f

\* The next chunk of a whole link is written in its place, and no more is
\* counted of it than there is.
LEMMA ChunkCounted ==
    ASSUME NEW s \in Senders, NEW q \in Seq(Messages), NEW n, InOrder(s, q, n), q # <<>>,
           NEW l \in Link, l.sender = s, Counted(l), Continued(l, q, n)
    PROVE  LET h == Handed(s, q[1].sdu)
           IN  /\ q[1].type = "chunk"
               /\ h \in Seq(Bytes)
               /\ Counted(WithChunk(l, h))
               /\ Continued(WithChunk(l, h), Tail(q), n)
  <1> DEFINE p == Pos(q[1])
             c == q[1].sdu
             h == Handed(s, c)
             m == ChunkLen(s, p)
             l2 == WithChunk(l, h)
             f == l.file
             size == l.file_size
             total == Length[s]
             count == strlen(h)
  <1>1. 1 \in 1..Len(q)
    BY LenProperties
  <1>2. q[1].type = "chunk" /\ p \in Positions(s) /\ q[1] = MessageAt(s, p)
    BY <1>1 DEF Continued, InOrder
  <1>3. Len(f) = p
    BY DEF Continued, ToCome, Expected
  <1>4. total \in Nat /\ total < UINT32 /\ CHUNK \in Nat /\ CHUNK >= 1 /\ UINT32 \in Nat
    BY Numbers
  <1>5. /\ p \in 0..total - 1 /\ c \in Seq(Bytes) /\ Len(c) = m
        /\ \A i \in 1..m : c[i] = <<s, p + i>>
    <2>1. p # -CHUNK
      <3>. SUFFICES ASSUME p = -CHUNK PROVE FALSE
        OBVIOUS
      <3>1. q[1] = [type |-> "size", size |-> Length[s]]
        BY <1>2 DEF MessageAt
      <3>. QED  BY <1>2, <3>1
    <2>. HIDE DEF p
    <2>. QED  BY <1>2, <2>1, MessageTyped
  <1>6. /\ m \in Nat /\ p + m <= total
        /\ p + CHUNK <= total => m = CHUNK
        /\ m # CHUNK => p + m = total
    <2>. HIDE DEF p
    <2>. QED  BY <1>5, ChunkLength
  <1>7. /\ h \in Seq(Bytes)
        /\ m = CHUNK => Len(h) = CHUNK
        /\ \A i \in 1..Len(h) : h[i] = IF i <= m THEN <<s, p + i>> ELSE <<s, 0>>
    <2>. HIDE DEF p, c
    <2>. QED  BY <1>5, ChunkHanded
  <1>8. count \in Nat /\ count <= Len(h) /\ count <= m
    <2>. HIDE DEF h, m
    <2>1. \A i \in 1..Len(h) : i > m => h[i][2] = 0
      <3>. SUFFICES ASSUME NEW i \in 1..Len(h), i > m PROVE h[i][2] = 0
        OBVIOUS
      <3>1. ~(i <= m)
        BY <1>6
      <3>2. h[i] = <<s, 0>>
        BY <1>7, <3>1
      <3>. QED  BY <3>2
    <2>. QED  BY <1>6, <1>7, <2>1, strlenBounds
  <1>9. /\ size \in Nat /\ size <= total /\ total - size <= p
        /\ \A i \in 1..Len(f) : i <= total => f[i] = <<s, i>>
        /\ f \in Seq(Bytes)
        /\ l.state = "open" \/ (l.state = "closed" /\ size = 0)
    <2>1. size \in Nat /\ f \in Seq(Bytes)
      BY LinkTyped
    <2>2. /\ size <= total /\ total - size <= Len(f)
          /\ \A i \in 1..Len(f) : i <= total => f[i] = <<s, i>>
          /\ l.state = "open" \/ (l.state = "closed" /\ size = 0)
      BY DEF Counted
    <2>. QED  BY <1>3, <2>1, <2>2
  <1>10. l.state = "open"
    <2>. HIDE DEF p, size, total
    <2>. QED  BY <1>4, <1>5, <1>9
  <1>11. BytesLeft(l, h) = size - count
    <2>1. BytesLeft(l, h) = (size + UINT32 - count) % UINT32
      BY DEF BytesLeft
    <2>. HIDE DEF size, count, total, m, p, h
    <2>2. size \in 0..UINT32 - 1 /\ count \in 0..size
      BY <1>4, <1>5, <1>6, <1>8, <1>9
    <2>. QED  BY <1>4, <2>1, <2>2, Subtracted
  <1>12. /\ l2 \in Link /\ l2.sender = s
         /\ l2.file = f \o h /\ l2.file_size = size - count
         /\ l2.state = IF size - count = 0 THEN "closed" ELSE "open"
    <2>1. /\ l2 \in Link /\ l2.sender = l.sender /\ l2.file = f \o h
          /\ l2.file_size = BytesLeft(l, h)
          /\ l2.state = IF BytesLeft(l, h) = 0 THEN "closed" ELSE "open"
      <3>1. h \in Seq(Bytes)
        BY <1>7
      <3>. HIDE DEF h
      <3>2. l2 \in Link /\ l2.sender = l.sender
        BY <3>1, ChunkTyped
      <3>3. l2.file = f \o h /\ l2.file_size = BytesLeft(l, h)
        BY <3>1, ChunkTyped
      <3>4. l2.state = IF BytesLeft(l, h) = 0 THEN "closed" ELSE "open"
        BY <1>10, <3>1, ChunkTyped
      <3>. HIDE DEF l2, f
      <3>. QED  BY <3>2, <3>3, <3>4
    <2>. HIDE DEF l2, f, h, size, count
    <2>. QED  BY <1>11, <2>1
  <1>13. /\ Len(f \o h) = p + Len(h) /\ Len(h) \in Nat
         /\ \A i \in 1..p + Len(h) : (f \o h)[i] = IF i <= p THEN f[i] ELSE h[i - p]
    <2>. HIDE DEF h, f, p
    <2>. QED  BY <1>3, <1>7, <1>9, ConcatProperties, LenProperties
  <1>14. ASSUME NEW i \in 1..p + Len(h), i <= total
         PROVE  (f \o h)[i] = <<s, i>>
    <2>1. CASE i <= p
      <3>1. i \in 1..Len(f) /\ f[i] = <<s, i>>
        <4>. HIDE DEF p, f, total
        <4>. QED  BY <1>3, <1>5, <1>9, <1>14, <2>1
      <3>2. (f \o h)[i] = f[i]
        BY <1>13, <2>1
      <3>. QED  BY <3>1, <3>2
    <2>2. CASE ~(i <= p)
      <3>. HIDE DEF p, m, h, total
      <3>1. i - p \in 1..Len(h) /\ p + (i - p) = i
        BY <1>5, <1>13, <2>2
      <3>2. i - p <= m
        BY <1>4, <1>5, <1>6, <1>7, <1>14, <3>1
      <3>3. h[i - p] = <<s, p + (i - p)>>
        BY <1>7, <3>1, <3>2
      <3>. QED  BY <1>13, <2>2, <3>1, <3>3
    <2>. QED  BY <2>1, <2>2
  <1>15. Counted(l2)
    <2>1. l2.file_size <= total /\ total - l2.file_size <= Len(l2.file)
      <3>1. size - count <= total /\ total - (size - count) <= p + Len(h)
        <4>. HIDE DEF p, m, h, total, size, count
        <4>. QED  BY <1>4, <1>5, <1>8, <1>9, <1>13
      <3>2. l2.file_size = size - count /\ Len(l2.file) = p + Len(h)
        BY <1>12, <1>13
      <3>. QED  BY <3>1, <3>2
    <2>2. \A i \in 1..Len(l2.file) : i <= total => l2.file[i] = <<s, i>>
      <3>. HIDE DEF p, h, f, l2
      <3>. QED  BY <1>12, <1>13, <1>14
    <2>3. l2.state = "open" \/ (l2.state = "closed" /\ l2.file_size = 0)
      BY <1>12
    <2>. QED  BY <1>12, <2>1, <2>2, <2>3 DEF Counted
  <1>16. Continued(l2, Tail(q), n)
    <2>1. /\ n # -1
          /\ \A i \in 1..Len(Tail(q)) : Tail(q)[i].type = "chunk"
          /\ ToCome(s, Tail(q), n) =>
                /\ Expected(Tail(q), n) = p + CHUNK
                /\ p + CHUNK < total
      BY TailInOrder
    <2>2. p + CHUNK < total => Len(l2.file) = p + CHUNK
      <3>1. Len(l2.file) = p + Len(h)
        BY <1>12, <1>13
      <3>2. p + CHUNK < total => m = CHUNK
        <4>. HIDE DEF p, m, total
        <4>. QED  BY <1>4, <1>5, <1>6
      <3>. QED  BY <1>7, <3>1, <3>2
    <2>. QED  BY <1>12, <2>1, <2>2 DEF Continued
  <1>. QED  BY <1>2, <1>7, <1>15, <1>16

-----------------------------------------------------------------------------
(* Steps *)

\* What the type invariant says of one sender or link.
LEMMA Typed ==
    ASSUME TypeOK
    PROVE  /\ chan \in [Senders -> Seq(Messages)]
           /\ sent \in [Senders -> {-1} \cup Nat]
           /\ links \in Seq(Link)
           /\ \A k \in 1..Len(links) : links[k] \in Link /\ links[k].sender \in Senders
  <1>1. /\ chan \in [Senders -> Seq(Messages)]
        /\ sent \in [Senders -> {-1} \cup Nat]
        /\ links \in Seq(Link)
    BY DEF TypeOK, Messages
  <1>2. \A k \in 1..Len(links) : links[k] \in Link
    BY <1>1, ElementOfSeq
  <1>. QED  BY <1>1, <1>2, LinkTyped

\* A sender writes a message.
LEMMA SendingStep ==
    ASSUME FileInv, NEW s \in Senders, NEW p \in Positions(s), NEW m,
           \/ sent[s] = -1 /\ p = -CHUNK /\ m = 0
           \/ sent[s] \in 0..Length[s] - 1 /\ p = sent[s] /\ m = sent[s] + ChunkLen(s, sent[s]),
           sent' = [sent EXCEPT ![s] = m],
           chan' = [chan EXCEPT ![s] = Append(@, MessageAt(s, p))],
           links' = links, done' = done
    PROVE  FileInv'
  <1> DEFINE q == chan[s]
             n == sent[s]
             r == Append(q, MessageAt(s, p))
  <1>1. /\ chan \in [Senders -> Seq(Messages)] /\ sent \in [Senders -> {-1} \cup Nat]
        /\ \A k \in 1..Len(links) : links[k] \in Link /\ links[k].sender \in Senders
    BY Typed DEF FileInv
  <1>2. /\ q \in Seq(Messages) /\ InOrder(s, q, n)
        /\ \/ n = -1 /\ p = -CHUNK /\ m = 0
           \/ n \in 0..Length[s] - 1 /\ p = n /\ m = n + ChunkLen(s, n)
    BY <1>1 DEF FileInv
  <1>3. /\ chan' = [chan EXCEPT ![s] = r] /\ sent' = [sent EXCEPT ![s] = m]
    OBVIOUS
  <1>. HIDE DEF q, n
  <1>4. r \in Seq(Messages) /\ m \in Nat /\ InOrder(s, r, m)
    BY <1>2, AppendInOrder
  <1>5. ASSUME NEW l \in Link, l.sender = s, Continued(l, q, n)
        PROVE  Continued(l, r, m)
    BY <1>2, <1>5, AppendInOrder
  <1>. HIDE DEF r
  <1>6. /\ chan' \in [Senders -> Seq(Messages)] /\ sent' \in [Senders -> {-1} \cup Nat]
        /\ chan'[s] = r /\ sent'[s] = m
        /\ \A t \in Senders \ {s} : chan'[t] = chan[t] /\ sent'[t] = sent[t]
    BY <1>1, <1>3, <1>4
  <1>7. TypeOK'
    BY <1>6 DEF FileInv, TypeOK, Messages
  <1>8. \A t \in Senders : InOrder(t, chan'[t], sent'[t])
    BY <1>4, <1>6 DEF FileInv
  <1>9. OneLinkEach'
    BY DEF FileInv, OneLinkEach
  <1>10. ASSUME NEW k \in 1..Len(links'), links'[k].whole
         PROVE  /\ Counted(links'[k])
                /\ Continued(links'[k], chan'[links'[k].sender], sent'[links'[k].sender])
    <2>1. links'[k] = links[k] /\ k \in 1..Len(links) /\ links[k] \in Link
      BY <1>1, <1>10
    <2>. DEFINE l == links[k]
    <2>2. Counted(l) /\ Continued(l, chan[l.sender], sent[l.sender])
      BY <1>10, <2>1 DEF FileInv, LinkInv
    <2>3. CASE l.sender = s
      <3>1. Continued(l, q, n)
        BY <2>2, <2>3 DEF q, n
      <3>2. Continued(l, r, m)
        BY <1>5, <2>1, <2>3, <3>1
      <3>. QED  BY <1>6, <2>1, <2>2, <2>3, <3>2
    <2>4. CASE l.sender # s
      BY <1>1, <1>6, <2>1, <2>2, <2>4
    <2>. QED  BY <2>3, <2>4
  <1>11. (\A k \in 1..Len(links) : LinkInv(links[k]))'
    BY <1>10 DEF LinkInv
  <1>. QED  BY <1>7, <1>8, <1>9, <1>11 DEF FileInv

\* The size of the file.
LEMMA SendSizeStep ==
    ASSUME FileInv, NEW s \in Senders, SendSize(s)
    PROVE  FileInv'
  <1>1. -CHUNK \in Positions(s)
    BY DEF Positions
  <1>2. MessageAt(s, -CHUNK) = [type |-> "size", size |-> Length[s]]
    BY DEF MessageAt
  <1>3. /\ sent[s] = -1 /\ sent' = [sent EXCEPT ![s] = 0]
        /\ chan' = [chan EXCEPT ![s] = Append(@, MessageAt(s, -CHUNK))]
        /\ links' = links /\ done' = done
    BY <1>2 DEF SendSize
  <1>. QED  BY <1>1, <1>3, SendingStep

\* A chunk of the file.
LEMMA SendChunkStep ==
    ASSUME FileInv, NEW s \in Senders, SendChunk(s)
    PROVE  FileInv'
  <1> DEFINE p == sent[s]
  <1>1. p \in 0..Length[s] - 1
    BY DEF SendChunk
  <1>2. p \in Positions(s) /\ p # -CHUNK
    <2>1. CHUNK \in Nat /\ CHUNK >= 1
      BY Numbers
    <2>. QED  BY <1>1, <2>1 DEF Positions
  <1>3. fread(s) = [i \in 1..ChunkLen(s, p) |-> <<s, p + i>>]
    BY DEF fread, ChunkLen
  <1>4. MessageAt(s, p) = [type |-> "chunk", sdu |-> fread(s)]
    BY <1>2, <1>3 DEF MessageAt
  <1>5. Len(fread(s)) = ChunkLen(s, p)
    BY <1>2, <1>4, MessageTyped
  <1>6. /\ sent' = [sent EXCEPT ![s] = p + ChunkLen(s, p)]
        /\ chan' = [chan EXCEPT ![s] = Append(@, MessageAt(s, p))]
        /\ links' = links /\ done' = done
    BY <1>4, <1>5 DEF SendChunk
  <1>. HIDE DEF p
  <1>7. sent[s] = p
    BY DEF p
  <1>. QED  BY <1>1, <1>2, <1>6, <1>7, SendingStep

\* The first message of s is taken: the streams stay in order.
LEMMA TakingStep ==
    ASSUME FileInv, NEW s \in Senders, chan[s] # <<>>, sent' = sent,
           chan' = [chan EXCEPT ![s] = Tail(@)]
    PROVE  /\ chan' \in [Senders -> Seq(Messages)]
           /\ chan'[s] = Tail(chan[s])
           /\ \A t \in Senders \ {s} : chan'[t] = chan[t]
           /\ \A t \in Senders : InOrder(t, chan'[t], sent'[t])
  <1> DEFINE q == chan[s]
             r == Tail(q)
  <1>1. chan \in [Senders -> Seq(Messages)] /\ q \in Seq(Messages) /\ q # <<>>
    BY Typed DEF FileInv
  <1>2. InOrder(s, q, sent[s])
    BY DEF FileInv
  <1>3. chan' = [chan EXCEPT ![s] = r]
    OBVIOUS
  <1>. HIDE DEF q
  <1>4. r \in Seq(Messages) /\ InOrder(s, r, sent[s])
    BY <1>1, <1>2, TailInOrder, HeadTailProperties
  <1>. HIDE DEF r
  <1>5. /\ chan' \in [Senders -> Seq(Messages)] /\ chan'[s] = r
        /\ \A t \in Senders \ {s} : chan'[t] = chan[t]
    BY <1>1, <1>3, <1>4
  <1>6. \A t \in Senders : InOrder(t, chan'[t], sent'[t])
    BY <1>4, <1>5 DEF FileInv
  <1>. QED  BY <1>5, <1>6 DEF r, q

\* The links of other senders are not concerned.
LEMMA LinkElsewhere ==
    ASSUME FileInv, NEW s \in Senders, sent' = sent,
           \A t \in Senders \ {s} : chan'[t] = chan[t],
           NEW k \in 1..Len(links), links[k].sender # s, links[k].whole
    PROVE  /\ Counted(links[k])
           /\ Continued(links[k], chan'[links[k].sender], sent'[links[k].sender])
  <1>1. links[k].sender \in Senders \ {s}
    BY Typed DEF FileInv
  <1>2. /\ Counted(links[k])
        /\ Continued(links[k], chan[links[k].sender], sent[links[k].sender])
    BY DEF FileInv, LinkInv
  <1>. QED  BY <1>1, <1>2

\* The first message of a stream is missed.
LEMMA MissStep ==
    ASSUME FileInv, NEW s \in Senders, MissFirst(s)
    PROVE  FileInv'
  <1>1. /\ chan[s] # <<>> /\ sent' = sent /\ links' = links /\ done' = done
        /\ chan' = [chan EXCEPT ![s] = Tail(@)]
        /\ \A k \in 1..Len(links) : links[k].sender # s
    BY DEF MissFirst
  <1>2. /\ chan' \in [Senders -> Seq(Messages)]
        /\ \A t \in Senders \ {s} : chan'[t] = chan[t]
        /\ \A t \in Senders : InOrder(t, chan'[t], sent'[t])
    BY <1>1, TakingStep
  <1>3. TypeOK'
    BY <1>1, <1>2 DEF FileInv, TypeOK, Messages
  <1>4. OneLinkEach'
    BY <1>1 DEF FileInv, OneLinkEach
  <1>5. (\A k \in 1..Len(links) : LinkInv(links[k]))'
    BY <1>1, <1>2, LinkElsewhere DEF LinkInv
  <1>. QED  BY <1>2, <1>3, <1>4, <1>5 DEF FileInv

\* The first message of a sender, and its number as the server reads it.
LEMMA FirstMessage ==
    ASSUME FileInv, NEW s \in Senders, chan[s] # <<>>
    PROVE  /\ Head(chan[s]) = chan[s][1] /\ 1 \in 1..Len(chan[s])
           /\ chan[s] \in Seq(Messages)
           /\ Pos(chan[s][1]) \in Positions(s)
           /\ chan[s][1] = MessageAt(s, Pos(chan[s][1]))
           /\ InOrder(s, chan[s], sent[s])
  <1> DEFINE q == chan[s]
  <1>1. q \in Seq(Messages) /\ q # <<>>
    BY Typed DEF FileInv
  <1>2. InOrder(s, q, sent[s])
    BY DEF FileInv
  <1>. HIDE DEF q
  <1>3. Head(q) = q[1] /\ 1 \in 1..Len(q)
    BY <1>1
  <1>4. Pos(q[1]) \in Positions(s) /\ q[1] = MessageAt(s, Pos(q[1]))
    BY <1>2, <1>3 DEF InOrder
  <1>. QED  BY <1>1, <1>2, <1>3, <1>4 DEF q

\* A sender that is not known gets a link.
LEMMA CreateStep ==
    ASSUME FileInv, NEW s \in Senders, create_new_link(s)
    PROVE  FileInv'
  <1> DEFINE q == chan[s]
             p == Pos(q[1])
  <1>1. /\ q # <<>> /\ sent' = sent /\ done' = done
        /\ chan' = [chan EXCEPT ![s] = Tail(@)]
        /\ check_link(s) = {}
    BY DEF create_new_link, Reads
  <1>2. \A k \in 1..Len(links) : links[k].sender # s
    BY <1>1 DEF check_link
  <1>3. /\ chan' \in [Senders -> Seq(Messages)] /\ chan'[s] = Tail(chan[s])
        /\ \A t \in Senders \ {s} : chan'[t] = chan[t]
        /\ \A t \in Senders : InOrder(t, chan'[t], sent'[t])
    BY <1>1, TakingStep
  <1>4. /\ Head(q) = q[1] /\ q \in Seq(Messages)
        /\ p \in Positions(s) /\ q[1] = MessageAt(s, p) /\ InOrder(s, q, sent[s])
    BY <1>1, FirstMessage
  <1>5. PICK size \in FileSizes(q[1]) :
            links' = Append(links, [sender |-> s, file_size |-> size, file |-> <<>>,
                                    state |-> "open", whole |-> q[1].type = "size"])
    BY <1>4 DEF create_new_link
  <1>. DEFINE l == [sender |-> s, file_size |-> size, file |-> <<>>,
                    state |-> "open", whole |-> q[1].type = "size"]
  <1>6. q[1].type = "size" => p = -CHUNK /\ size = Length[s]
    <2>. SUFFICES ASSUME q[1].type = "size" PROVE p = -CHUNK /\ size = Length[s]
      OBVIOUS
    <2>1. p = -CHUNK
      BY DEF Pos
    <2>2. q[1] = [type |-> "size", size |-> Length[s]]
      BY <1>4, <2>1 DEF MessageAt
    <2>3. FileSizes(q[1]) = {Length[s]}
      BY <2>2 DEF FileSizes
    <2>. QED  BY <2>1, <2>3
  <1>7. size \in 0..UINT32 - 1
    <2>1. CASE q[1].type = "size"
      BY <1>6, <2>1, SendersAssumption
    <2>2. CASE q[1].type # "size"
      <3>1. size \in ChunkAsSize
        BY <1>5, <2>2 DEF FileSizes
      <3>. QED  BY <3>1, ChunkAssumption
    <2>. QED  BY <2>1, <2>2
  <1>8. l \in Link
    <2>. DEFINE w == q[1].type = "size"
    <2>1. w \in BOOLEAN
      OBVIOUS
    <2>2. <<>> \in Seq(Bytes)
      OBVIOUS
    <2>. HIDE DEF w
    <2>3. [sender |-> s, file_size |-> size, file |-> <<>>,
           state |-> "open", whole |-> w] \in Link
      BY <1>7, <2>1, <2>2 DEF Link
    <2>. QED  BY <2>3 DEF w
  <1>9. l.sender = s /\ l.file_size = size /\ l.file = <<>> /\ l.state = "open"
        /\ (l.whole <=> q[1].type = "size")
    OBVIOUS
  <1>10. l.whole => Counted(l) /\ Continued(l, chan'[s], sent'[s])
    <2>. SUFFICES ASSUME q[1].type = "size"
                  PROVE  Counted(l) /\ Continued(l, Tail(q), sent[s])
      BY <1>1, <1>3, <1>9
    <2>1. Length[s] \in Nat /\ CHUNK \in Nat
      BY Numbers
    <2>2. p = -CHUNK /\ size = Length[s]
      BY <1>6
    <2>3. /\ sent[s] # -1
          /\ \A i \in 1..Len(Tail(q)) : Tail(q)[i].type = "chunk"
          /\ ToCome(s, Tail(q), sent[s]) => Expected(Tail(q), sent[s]) = p + CHUNK
      <3>. HIDE DEF q
      <3>. QED  BY <1>1, <1>4, TailInOrder DEF p
    <2>4. p + CHUNK = 0
      BY <2>1, <2>2
    <2>5. Len(l.file) = 0
      BY <1>9
    <2>. HIDE DEF l, q, p
    <2>6. Counted(l)
      BY <1>9, <2>1, <2>2, <2>5 DEF Counted
    <2>7. Continued(l, Tail(q), sent[s])
      BY <1>9, <2>3, <2>4, <2>5 DEF Continued
    <2>. QED  BY <2>6, <2>7
  <1>. HIDE DEF l
  <1>11. links \in Seq(Link) /\ links' = Append(links, l)
    BY <1>5, Typed DEF FileInv, l
  <1>12. /\ links' \in Seq(Link) /\ Len(links) \in Nat /\ Len(links') = Len(links) + 1
         /\ \A k \in 1..Len(links) : links'[k] = links[k]
         /\ links'[Len(links) + 1] = l
    BY <1>8, <1>11, AppendProperties
  <1>13. TypeOK'
    BY <1>1, <1>3, <1>12 DEF FileInv, TypeOK, Messages
  <1>14. ASSUME NEW k \in 1..Len(links')
         PROVE  \/ k \in 1..Len(links) /\ links'[k] = links[k] /\ links[k].sender # s
                \/ k = Len(links) + 1 /\ links'[k] = l
    BY <1>2, <1>12
  <1>15. OneLinkEach'
    <2>. SUFFICES ASSUME NEW j \in 1..Len(links'), NEW k \in 1..Len(links'),
                         links'[j].sender = links'[k].sender
                  PROVE  j = k
      BY DEF OneLinkEach
    <2>1. OneLinkEach
      BY DEF FileInv
    <2>. QED  BY <1>9, <1>14, <2>1 DEF OneLinkEach
  <1>16. ASSUME NEW k \in 1..Len(links'), links'[k].whole
         PROVE  /\ Counted(links'[k])
                /\ Continued(links'[k], chan'[links'[k].sender], sent'[links'[k].sender])
    <2>1. CASE k \in 1..Len(links) /\ links'[k] = links[k] /\ links[k].sender # s
      BY <1>1, <1>3, <1>16, <2>1, LinkElsewhere
    <2>2. CASE links'[k] = l
      BY <1>9, <1>10, <1>16, <2>2
    <2>. QED  BY <1>14, <2>1, <2>2
  <1>17. (\A k \in 1..Len(links) : LinkInv(links[k]))'
    BY <1>16 DEF LinkInv
  <1>. QED  BY <1>3, <1>13, <1>15, <1>17 DEF FileInv

\* A chunk of a known sender.
LEMMA ReceiveStep ==
    ASSUME FileInv, NEW s \in Senders, ReceiveChunk(s)
    PROVE  FileInv'
  <1> DEFINE q == chan[s]
             p == Pos(q[1])
             h == IF q[1].type = "chunk" THEN Handed(s, q[1].sdu)
                  ELSE [i \in 1..8 |-> <<s, 0>>]
  <1>1. /\ q # <<>> /\ sent' = sent /\ done' = done
        /\ chan' = [chan EXCEPT ![s] = Tail(@)]
    BY DEF ReceiveChunk, Reads
  <1>2. /\ chan' \in [Senders -> Seq(Messages)] /\ chan'[s] = Tail(chan[s])
        /\ \A t \in Senders \ {s} : chan'[t] = chan[t]
        /\ \A t \in Senders : InOrder(t, chan'[t], sent'[t])
    BY <1>1, TakingStep
  <1>3. /\ Head(q) = q[1] /\ q \in Seq(Messages)
        /\ p \in Positions(s) /\ q[1] = MessageAt(s, p) /\ InOrder(s, q, sent[s])
    BY <1>1, FirstMessage
  <1>4. PICK k \in check_link(s) : links' = [links EXCEPT ![k] = WithChunk(@, h)]
    BY <1>3 DEF ReceiveChunk
  <1>5. k \in 1..Len(links) /\ links[k].sender = s
    BY DEF check_link
  <1>6. h \in Seq(Bytes)
    <2>1. CASE q[1].type = "chunk"
      <3>. DEFINE c == q[1].sdu
      <3>1. p # -CHUNK
        <4>. SUFFICES ASSUME p = -CHUNK PROVE FALSE
          OBVIOUS
        <4>1. q[1] = [type |-> "size", size |-> Length[s]]
          BY <1>3 DEF MessageAt
        <4>. QED  BY <2>1, <4>1
      <3>. HIDE DEF p, q
      <3>2. /\ p \in 0..Length[s] - 1 /\ c \in Seq(Bytes) /\ Len(c) = ChunkLen(s, p)
            /\ \A i \in 1..ChunkLen(s, p) : c[i] = <<s, p + i>>
        BY <1>3, <3>1, MessageTyped
      <3>. HIDE DEF c
      <3>3. Handed(s, c) \in Seq(Bytes)
        BY <3>2, ChunkHanded
      <3>. QED  BY <2>1, <3>3 DEF c
    <2>2. CASE q[1].type # "chunk"
      <3>1. <<s, 0>> \in Bytes
        BY DEF Bytes
      <3>2. [i \in 1..8 |-> <<s, 0>>] \in [1..8 -> Bytes]
        BY <3>1
      <3>3. [i \in 1..8 |-> <<s, 0>>] \in Seq(Bytes)
        BY <3>2
      <3>. QED  BY <2>2, <3>3
    <2>. QED  BY <2>1, <2>2
  <1>. DEFINE l == links[k]
              l2 == WithChunk(l, h)
  <1>7. links \in Seq(Link) /\ l \in Link
    BY <1>5, Typed DEF FileInv
  <1>8. l2 \in Link /\ l2.sender = s /\ l2.whole = l.whole
    <2>. HIDE DEF h, l
    <2>1. l.sender = s
      BY <1>5 DEF l
    <2>. QED  BY <1>6, <1>7, <2>1, ChunkTyped
  <1>9. l2.whole => Counted(l2) /\ Continued(l2, Tail(q), sent[s])
    <2>. SUFFICES ASSUME l.whole PROVE Counted(l2) /\ Continued(l2, Tail(q), sent[s])
      BY <1>8
    <2>1. Counted(l) /\ Continued(l, q, sent[s])
      BY <1>5 DEF FileInv, LinkInv
    <2>2. LET g == Handed(s, q[1].sdu)
          IN  /\ q[1].type = "chunk"
              /\ Counted(WithChunk(l, g))
              /\ Continued(WithChunk(l, g), Tail(q), sent[s])
      <3>1. l.sender = s
        BY <1>5
      <3>. HIDE DEF q, l
      <3>. QED  BY <1>1, <1>3, <1>7, <2>1, <3>1, ChunkCounted
    <2>. HIDE DEF q, l
    <2>. QED  BY <2>2
  <1>10. links' = [links EXCEPT ![k] = l2]
    BY <1>4
  <1>. HIDE DEF l2, h
  <1>11. /\ links' \in Seq(Link) /\ Len(links') = Len(links)
         /\ \A j \in 1..Len(links) : links'[j] = IF j = k THEN l2 ELSE links[j]
    BY <1>5, <1>7, <1>8, <1>10, ExceptSeq
  <1>12. TypeOK'
    BY <1>1, <1>2, <1>11 DEF FileInv, TypeOK, Messages
  <1>13. \A j \in 1..Len(links) : links'[j].sender = links[j].sender
    BY <1>5, <1>8, <1>11
  <1>14. OneLinkEach'
    BY <1>11, <1>13 DEF FileInv, OneLinkEach
  <1>15. ASSUME NEW j \in 1..Len(links'), links'[j].whole
         PROVE  /\ Counted(links'[j])
                /\ Continued(links'[j], chan'[links'[j].sender], sent'[links'[j].sender])
    <2>1. CASE j = k
      BY <1>1, <1>2, <1>8, <1>9, <1>11, <1>15, <2>1
    <2>2. CASE j # k
      <3>1. links'[j] = links[j] /\ j \in 1..Len(links)
        BY <1>11, <2>2
      <3>2. links[j].sender # s
        BY <1>5, <2>2, <3>1 DEF FileInv, OneLinkEach
      <3>. QED  BY <1>1, <1>2, <1>15, <3>1, <3>2, LinkElsewhere
    <2>. QED  BY <2>1, <2>2
  <1>16. (\A j \in 1..Len(links) : LinkInv(links[j]))'
    BY <1>15 DEF LinkInv
  <1>. QED  BY <1>2, <1>12, <1>14, <1>16 DEF FileInv

-----------------------------------------------------------------------------
(* Theorems *)

\* The chunks of every sender lie end to end, and the file of a link that was
\* made from the size grows in step with them.
THEOREM FileInvariant == Spec => []FileInv
  <1>1. Init => FileInv
    <2>. SUFFICES ASSUME Init PROVE FileInv
      OBVIOUS
    <2>1. /\ sent = [s \in Senders |-> -1] /\ chan = [s \in Senders |-> <<>>]
          /\ links = <<>> /\ done = FALSE
      BY DEF Init
    <2>2. TypeOK
      <3>1. /\ [s \in Senders |-> -1] \in [Senders -> {-1} \cup Nat]
            /\ FALSE \in BOOLEAN
        OBVIOUS
      <3>2. \A S : <<>> \in Seq(S)
        OBVIOUS
      <3>3. [s \in Senders |-> <<>>] \in [Senders -> Seq(SizeMsg \cup ChunkMsg)]
        BY <3>2
      <3>. QED  BY <2>1, <3>1, <3>2, <3>3 DEF TypeOK
    <2>3. Len(links) = 0
      BY <2>1
    <2>4. ASSUME NEW s \in Senders PROVE InOrder(s, chan[s], sent[s])
      <3>1. chan[s] = <<>> /\ sent[s] = -1 /\ Len(<<>>) = 0 /\ Length[s] \in Nat
        BY <2>1, Numbers
      <3>. QED  BY <3>1 DEF InOrder
    <2>. QED  BY <2>2, <2>3, <2>4 DEF FileInv, OneLinkEach
  <1>2. FileInv /\ [Next]_vars => FileInv'
    <2>. SUFFICES ASSUME FileInv, [Next]_vars PROVE FileInv'
      OBVIOUS
    <2>1. CASE \E s \in Senders : SendSize(s) \/ SendChunk(s)
      BY <2>1, SendSizeStep, SendChunkStep
    <2>2. CASE \E s \in Senders : MissFirst(s)
      BY <2>2, MissStep
    <2>3. CASE \E s \in Senders : create_new_link(s) \/ ReceiveChunk(s)
      BY <2>3, CreateStep, ReceiveStep
    <2>4. CASE ServerEnds
      BY <2>4 DEF ServerEnds, FileInv, TypeOK, OneLinkEach, LinkInv
    <2>5. CASE UNCHANGED vars
      BY <2>5 DEF vars, FileInv, TypeOK, OneLinkEach, LinkInv
    <2>. QED  BY <2>1, <2>2, <2>3, <2>4, <2>5 DEF Next
  <1>. QED  BY <1>1, <1>2, PTL DEF Spec

\* The programs keep their types: the count of the bytes left stays in the
\* uint32_t it is kept in, also for a link that was not made from a size.
THEOREM TypeCorrect == Spec => []TypeOK
  <1>1. FileInv => TypeOK
    BY DEF FileInv
  <1>. QED  BY <1>1, FileInvariant, PTL

\* What the server has when it says "Transmission complete"
\* (file_server.c:102-105) is every byte of the file, for files of every size
\* and any number of senders in any order: as many bytes were counted as the
\* file has, and no more are counted than were written in their place.
THEOREM TransmissionComplete == Spec => []CompleteFiles
  <1>1. FileInv => CompleteFiles
    <2>. SUFFICES ASSUME FileInv, NEW k \in WholeLinks, links[k].state = "closed"
                  PROVE  LET s == links[k].sender
                         IN  /\ Len(links[k].file) >= Length[s]
                             /\ SubSeq(links[k].file, 1, Length[s]) = File(s)
      BY DEF CompleteFiles
    <2>. DEFINE l == links[k]
                s == l.sender
                f == l.file
                n == Length[s]
    <2>1. k \in 1..Len(links) /\ l.whole
      BY DEF WholeLinks
    <2>2. l \in Link /\ s \in Senders
      BY <2>1, Typed DEF FileInv
    <2>3. f \in Seq(Bytes) /\ n \in Nat
      BY <2>2, LinkTyped, Numbers
    <2>4. Counted(l)
      BY <2>1 DEF FileInv, LinkInv
    <2>5. /\ n <= Len(f)
          /\ \A i \in 1..Len(f) : i <= n => f[i] = <<s, i>>
      <3>1. /\ l.file_size = 0 /\ n - l.file_size <= Len(f)
            /\ \A i \in 1..Len(f) : i <= n => f[i] = <<s, i>>
        BY <2>4 DEF Counted
      <3>. QED  BY <2>3, <3>1
    <2>6. File(s) = [i \in 1..n |-> <<s, i>>]
      BY DEF File
    <2>. HIDE DEF f, n, s
    <2>7. SubSeq(f, 1, n) = [i \in 1..n |-> <<s, i>>]
      <3>1. SubSeq(f, 1, n) = [i \in 1..n |-> f[i]]
        BY <2>3, <2>5, SubSeqProperties
      <3>2. \A i \in 1..n : f[i] = <<s, i>>
        BY <2>3, <2>5
      <3>. QED  BY <3>1, <3>2
    <2>8. Len(f) >= n
      BY <2>3, <2>5
    <2>. QED  BY <2>6, <2>7, <2>8 DEF f, n, s
  <1>. QED  BY <1>1, FileInvariant, PTL

\* No file is written to after fclose (file_server.c:96-103): the count
\* reaches zero only with the last chunk.
THEOREM ClosedForGood == Spec => []NoWriteAfterClose
  <1>1. FileInv => NoWriteAfterClose
    BY DEF FileInv, LinkInv, Counted, WholeLinks, NoWriteAfterClose
  <1>. QED  BY <1>1, FileInvariant, PTL

\* The count of the bytes left never passes below zero (file_server.c:99-101).
THEOREM CountStaysAbove == Spec => []NoUnderflow
  <1>1. FileInv => NoUnderflow
    BY DEF FileInv, LinkInv, Counted, WholeLinks, NoUnderflow
  <1>. QED  BY <1>1, FileInvariant, PTL
=============================================================================
