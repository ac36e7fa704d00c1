---------------------------- MODULE MCMiptpHosts ----------------------------
(* A small instance of MiptpHosts: a file_server that ends, and two senders. *)
EXTENDS MiptpHosts, TLC

CONSTANTS a, b, c

AppsABC == {a, b, c}
\* The server asks once for port 1; b first or only draws numbers it cannot have.
WantedABC == (a :> {1}) @@ (b :> {0, 1}) @@ (c :> {3})
TriesABC == (a :> 1) @@ (b :> 2) @@ (c :> 1)
\* The server writes nothing; b sends to node 3, which is the port c asks for.
MsgsABC == (a :> 0) @@ (b :> 1) @@ (c :> 0)
DstABC == (a :> 0) @@ (b :> 3) @@ (c :> 0)
OneSource == {[mip |-> 20, port |-> 7]}
=============================================================================
