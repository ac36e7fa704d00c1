---------------------------- MODULE FramesProof ----------------------------
(* Lengths of messages: theorems about the operators of Frames. *)
EXTENDS Frames, TLAPS

\* Rounding up gives whole words and adds less than one.
LEMMA AlignWords ==
    ASSUME NEW size \in Nat
    PROVE  /\ Align(size) \in Nat
           /\ Align(size) % 4 = 0
           /\ Align(size) >= size
           /\ Align(size) < size + 4
  BY DEF Align

\* The nine bits of the MIP header hold every message of at most 2044 bytes.
LEMMA MipKeeps ==
    ASSUME NEW size \in Nat, size % 4 = 0, size <= 2044
    PROVE  MipBytes(size) = size
  <1>1. size \div 4 \in 0..511 /\ 4 * (size \div 4) = size
    OBVIOUS
  <1>2. (size \div 4) % 512 = size \div 4
    BY <1>1
  <1>. QED  BY <1>1, <1>2 DEF MipBytes, SduLen

\* Every message of at most 2036 bytes of payload gets through MIP whole.
LEMMA MiptpKept ==
    ASSUME NEW payload \in Nat, payload <= 2036
    PROVE  MipBytes(MiptpBytes(AppBytes(payload))) = MiptpBytes(AppBytes(payload))
  <1>1. AppBytes(payload) = payload + 2
    BY DEF AppBytes
  <1>2. /\ Align(6 + (payload + 2)) \in Nat
        /\ Align(6 + (payload + 2)) % 4 = 0
        /\ Align(6 + (payload + 2)) < payload + 12
    BY AlignWords
  <1>3. Align(6 + (payload + 2)) <= 2044
    BY <1>2
  <1>. QED  BY <1>1, <1>2, <1>3, MipKeeps DEF MiptpBytes

\* No data packet is taken for an acknowledgement (miptp_utils.c:286), whatever
\* an application writes.
THEOREM DataIsNoAck ==
    ASSUME NEW payload \in Nat, payload <= 2036
    PROVE  LET rc == AppBytes(payload)
           IN  ~IsAck(MipBytes(MiptpBytes(rc)), PaddingBits(rc))
  BY MiptpKept DEF IsAck, AckBytes, AckBits, AppBytes, MiptpBytes, PaddingBits, Align

\* What the receiving application gets (miptp_utils.c:132-141, 325): the whole
\* payload when the last word is full or half full, two bytes too many when it
\* has one byte, and two bytes too few when it has three.
THEOREM HandedPayloadLength ==
    ASSUME NEW payload \in Nat, payload <= 2036
    PROVE  HandedPayload(payload) =
             payload + (IF payload % 4 = 1 THEN 2 ELSE IF payload % 4 = 3 THEN -2 ELSE 0)
  <1>1. HandedPayload(payload)
            = MiptpBytes(AppBytes(payload)) - 2 - 4 - PaddingBits(AppBytes(payload)) - 2
    BY MiptpKept DEF HandedPayload, HandedBytes
  <1>. QED  BY <1>1 DEF AppBytes, MiptpBytes, PaddingBits, Align

\* An update is handed over whole as long as it has fewer than 30 pairs
\* (mip_daemon_utils.c:78-88, mip_daemon.c:130-154 and 649): more than a list of
\* MAX_NODES entries makes.
THEOREM UpdateKept ==
    ASSUME NEW pairs \in 0..29
    PROVE  UpdateHanded(pairs) >= UpdateBytes(pairs)
  BY DEF UpdateHanded, UpdateSduLen, UpdateBytes
=============================================================================
