--------------------------- MODULE MCCarBusDevice ---------------------------
(* Instances of CarBusDevice for TLC. *)
EXTENDS CarBusDevice, TLC

CONSTANTS c1, c2, c3, k1, k2

TwoCalls == {c1, c2, k1}
OneCloser == {k1}
OnlyZero == {0}

\* Calls of close() are interchangeable, and so are the others: no run checks liveness here.
CallSymmetry == Permutations({c1, c2, c3}) \cup Permutations({k1, k2})
=============================================================================
