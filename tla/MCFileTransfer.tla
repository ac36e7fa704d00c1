-------------------------- MODULE MCFileTransfer --------------------------
(* Small instances of FileTransfer. *)
EXTENDS FileTransfer, TLC

\* Two senders on node 1 and one on node 2.
SendersOfTwo == {<<1, 1>>, <<1, 2>>, <<2, 1>>}
\* A last chunk of two bytes, one of one byte, and two chunks one of which has
\* a byte of value 0.
Lengths == (<<1, 1>> :> 6) @@ (<<1, 2>> :> 5) @@ (<<2, 1>> :> 8)
ZeroBytes == (<<1, 1>> :> {}) @@ (<<1, 2>> :> {}) @@ (<<2, 1>> :> {6})
LateSenders == {<<2, 1>>}

OneSender == {<<1, 1>>}
FiveBytes == <<1, 1>> :> 5
NoZeroBytes == <<1, 1>> :> {}
=============================================================================
