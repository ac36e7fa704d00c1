----------------------------- MODULE MCRouting -----------------------------
(* Small instances of Routing: topologies, and distances in them. *)
EXTENDS Routing

CONSTANTS A, B, C, D

Both(pairs) == pairs \cup {<<l[2], l[1]>> : l \in pairs}

NodesABC == {A, B, C}
NodesABCD == {A, B, C, D}

LinksLine == Both({<<A, B>>, <<B, C>>})
LinksLineD == Both({<<A, B>>, <<B, C>>, <<C, D>>})
FromD == {<<D, C>>}

\* The distances along the line A, B, C.
Place(n) == CASE n = A -> 1 [] n = B -> 2 [] n = C -> 3
Apart(n, m) == IF Place(n) < Place(m) THEN Place(m) - Place(n) ELSE Place(n) - Place(m)
OnLine == [p \in Nodes \X Nodes |-> Apart(p[1], p[2])]

ConvergesOnLine == Converges(OnLine)
=============================================================================
