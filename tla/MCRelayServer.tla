---------------------------- MODULE MCRelayServer ----------------------------
(* Instances of RelayServer for TLC. *)
EXTENDS RelayServer, TLC

CONSTANTS a1, a2, c1, c2, s1

TwoAgents == {a1, a2}
OneAgent == {a1}
TwoClients == {c1, c2}
OneClient == {c1}
OneSerial == {s1}

\* The same agent twice: it lost its connection and came back.
SameSerial == [x \in Agents \cup Clients |-> s1]
=============================================================================
