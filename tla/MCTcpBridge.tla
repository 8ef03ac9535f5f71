---------------------------- MODULE MCTcpBridge ----------------------------
(* Instances of TcpBridge for TLC. *)
EXTENDS TcpBridge, TLC

CONSTANTS c1, c2

TwoClients == {c1, c2}
=============================================================================
