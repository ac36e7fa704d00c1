------------------------------ MODULE MCMiptp ------------------------------
(* Small instances of Miptp: constant values that a cfg cannot write. *)
EXTENDS MiptpStream

CONSTANTS a, b, c, A, B, C

\* One sender and one receiver.
HostsAB == {a, b}
NodesAB == {A, B}
NodeOfAB == [h \in {a, b} |-> IF h = a THEN A ELSE B]
FlowAB == {<<a, b>>}

\* Two senders on two nodes and one receiver.
HostsABC == {a, b, c}
NodesABC == {A, B, C}
NodeOfABC == [h \in {a, b, c} |-> IF h = a THEN A ELSE IF h = b THEN B ELSE C]
FlowsToC == {<<a, c>>, <<b, c>>}

StartZero == {0}
StartTwo == {2}
=============================================================================
