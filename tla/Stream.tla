------------------------------- MODULE Stream -------------------------------
(***************************************************************************)
(* What one MIPTP flow promises the two applications at its ends, seen     *)
(* without sequence numbers, windows, packets or timers.                   *)
(*                                                                         *)
(* The sending application submits messages 1, 2, 3, ...  The receiving    *)
(* application is handed a run of consecutive messages.  The run starts at *)
(* whichever message reaches the receiving daemon first: read_message      *)
(* (miptp_utils.c:305-313) takes the sequence number of the first packet   *)
(* of an unknown sender for the start of the stream.  From there on the    *)
(* run has no gap, no duplicate and no reordering, and the sending daemon  *)
(* releases a message only when the receiver needs it no longer.           *)
(***************************************************************************)
EXTENDS Naturals, Sequences

VARIABLES
    submitted,  \* messages the sending application has handed over
    acked,      \* messages the sending daemon has released, oldest first
    delivered   \* the messages handed to the receiving application, in order

vars == <<submitted, acked, delivered>>

Init ==
    /\ submitted = 0
    /\ acked = 0
    /\ delivered = <<>>

\* The message the receiving application was handed last.
Latest == delivered[Len(delivered)]

Submit ==
    /\ submitted' = submitted + 1
    /\ UNCHANGED <<acked, delivered>>

\* The run starts, at any message that is still held by the sending daemon.
Join ==
    /\ delivered = <<>>
    /\ \E n \in (acked + 1)..submitted : delivered' = <<n>>
    /\ UNCHANGED <<submitted, acked>>

\* The run is continued by the very next message.
Deliver ==
    /\ delivered # <<>>
    /\ Latest < submitted
    /\ delivered' = Append(delivered, Latest + 1)
    /\ UNCHANGED <<submitted, acked>>

\* The oldest unreleased message may go once the run has reached it.
Release ==
    /\ delivered # <<>>
    /\ acked < Latest
    /\ acked' = acked + 1
    /\ UNCHANGED <<submitted, delivered>>

Next == Submit \/ Join \/ Deliver \/ Release

Spec == Init /\ [][Next]_vars
=============================================================================
