---------------------------- MODULE MCRelayAgent ----------------------------
(* Instances of RelayAgent for TLC. *)
EXTENDS RelayAgent, TLC

CONSTANTS a1, a2, c1, c2, s1

TwoAgents == {a1, a2}
TwoClients == {c1, c2}
OneSerial == {s1}
SameSerial == [x \in Agents \cup Clients |-> s1]
=============================================================================
