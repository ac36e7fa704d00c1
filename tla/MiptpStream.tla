----------------------------- MODULE MiptpStream -----------------------------
(***************************************************************************)
(* One flow of the MIPTP data plane implements the abstract Stream: the    *)
(* refinement mapping forgets packets, numbers and windows and keeps how   *)
(* far the sender has been released and what the receiver was handed.      *)
(***************************************************************************)
EXTENDS Miptp

CONSTANTS Src, Dst  \* the two ends of the flow

ASSUME FlowAssumption == <<Src, Dst>> \in Flows

Flow == INSTANCE Stream WITH
    submitted <- Len(sent[Src]),
    acked     <- Acked(Src),
    delivered <- delivered[Src][Dst]

\* A flow behaves as an abstract stream: read_message (miptp_utils.c:266-328)
\* delivers without gaps from the first packet that gets through, and an ack
\* releases a message at the sender only when the receiver has got so far,
\* although acks are also sent for packets the receiver throws away (298-303).
ImplementsStream == Flow!Spec
=============================================================================
