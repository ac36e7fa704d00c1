---------------------------- MODULE MCMipDaemon ----------------------------
(* Small instances of MipDaemon: topologies, routes and traffic. *)
EXTENDS MipDaemon

CONSTANTS A, B, C

Both(pairs) == pairs \cup {<<l[2], l[1]>> : l \in pairs}

NodesABC == {A, B, C}
LineABC == Both({<<A, B>>, <<B, C>>})

\* Along the line A, B, C every neighbour is reached directly, and the ends
\* through B.
OnLine == [n \in NodesABC |-> [t \in NodesABC |-> IF n = B THEN {t} ELSE {B}]]

\* A and B each take the other for the way to C, when B knows one.
InLoop == [n \in NodesABC |-> [t \in NodesABC |->
    IF t = C /\ n = B THEN {A, NoPath} ELSE IF n = B THEN {t} ELSE {B}]]

\* B knows no path to C.
CUnknown == [n \in NodesABC |-> [t \in NodesABC |->
    IF t = C /\ n = B THEN {NoPath} ELSE IF n = B THEN {t} ELSE {B}]]

FromA == {<<A, B>>}
EndToEnd == {<<A, C>>, <<C, A>>}
FromB == {<<B, A>>, <<B, C>>}
DefaultTtl == {0}
SomeTtls == {0, 1, 16}
=============================================================================
