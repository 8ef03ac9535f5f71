------------------------------ MODULE MCIsoTp ------------------------------
(* Instances of IsoTp for TLC. *)
EXTENDS IsoTp, TLC

\* PDUs of one, two and four frames, and of one with seventeen consecutive
\* frames: the sequence number passes 15 and 0.
Lens == {7, 8, 21, 120}
Unlimited == {0}
SmallBlocks == {0, 1, 2}
AnyAnswer == {0, 2}
=============================================================================
