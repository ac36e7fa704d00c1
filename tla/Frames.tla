------------------------------- MODULE Frames -------------------------------
(***************************************************************************)
(* What becomes of the length of a message on its way through the daemons. *)
(* Every program rounds what it writes up to words of four bytes; the      *)
(* header of MIP counts words in nine bits, the one of MIPTP has two bits  *)
(* for the padding, and some lengths are kept in a uint8_t.                *)
(* All operators are about numbers of bytes.                               *)
(***************************************************************************)
EXTENDS Integers

\* The code's "32 bit align".
Align(size) == size + (IF size % 4 = 0 THEN 0 ELSE 4 - (size % 4))

-----------------------------------------------------------------------------
(* A message of an application through MIPTP and MIP *)

\* The application writes rc bytes: two of addresses and its payload.
AppBytes(payload) == 2 + payload

\* What the MIPTP daemon writes to the MIP daemon, and the number it puts into
\* the bits for the padding: how many bytes the last word is filled with, not
\* how many are added.
MiptpBytes(rc) == Align(6 + rc)
PaddingBits(rc) == (6 + rc) % 4

\* What the MIP daemon of the destination hands to its client of a message of
\* the given size: the words of the header.
SduLen(size) == (size \div 4) % 512
MipBytes(size) == 4 * SduLen(size)

\* An acknowledgement is told from data by its length and its padding bits.
AckBytes == 8
AckBits == 2
IsAck(rc, padding) == rc = AckBytes /\ padding = AckBits

\* What the MIPTP daemon of the destination writes to the application of the
\* rc bytes it has read, and the payload in it.
HandedBytes(rc, padding) == rc - 2 - 4 - padding
HandedPayload(payload) ==
    LET rc == AppBytes(payload)
    IN  HandedBytes(MipBytes(MiptpBytes(rc)), PaddingBits(rc)) - 2

-----------------------------------------------------------------------------
(* An update of a routing daemon *)

\* An update of so many pairs, as the routing daemon writes it and as the MIP
\* daemon puts its length into the header: in bytes, although the header
\* counts words.
UpdateBytes(pairs) == 4 + 2 * pairs
UpdateSduLen(pairs) == UpdateBytes(pairs) % 512

\* The part of it the other MIP daemon hands over: msg_size is a uint8_t.
UpdateHanded(pairs) == (4 * UpdateSduLen(pairs)) % 256
=============================================================================
