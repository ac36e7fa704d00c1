---------------------------- MODULE MCMipClients ----------------------------
(* A small instance of MipClients: a routing daemon that may end, and a ping *)
(* client and a ping server, which are given the same slot.                  *)
EXTENDS MipClients, TLC

CONSTANTS r, c, v

ThreePrograms == {r, c, v}
KindOfThree == (r :> "routing") @@ (c :> "ping_client") @@ (v :> "ping_server")
=============================================================================
