-------------------------- MODULE MCDeviceCommands --------------------------
(* Instance of DeviceCommands for TLC. *)
EXTENDS DeviceCommands

Requests == 1 .. 4
OneCloser == {4}

Classic ==
  [custom |-> FALSE, fd |-> FALSE, indexed |-> FALSE, brs |-> TRUE, listenOnly |-> TRUE,
   loopback |-> FALSE, retransmit |-> TRUE, nonIso |-> TRUE]

\* Classic, FD by indices, FD with explicit timings.
SomeChannels ==
  {Classic, [Classic EXCEPT !.fd = TRUE, !.indexed = TRUE],
   [Classic EXCEPT !.fd = TRUE, !.loopback = TRUE, !.retransmit = FALSE]}
=============================================================================
