------------------------ MODULE MCPeriodicCanSender ------------------------
(* Instances of PeriodicCanSender for TLC. *)
EXTENDS PeriodicCanSender, TLC

CONSTANTS n1, n2

TwoNames == {n1, n2}
OneName == {n1}
NameSymmetry == Permutations({n1, n2})
=============================================================================
