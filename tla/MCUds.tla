------------------------------- MODULE MCUds -------------------------------
(* Instances of Uds for TLC. *)
EXTENDS Uds, TLC

CONSTANTS s1, s2

TwoServices == {s1, s2}
FirstHandled == {s1}
=============================================================================
