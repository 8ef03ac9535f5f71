---------------------------- MODULE MCCanIdRouter ----------------------------
(* Instances of CanIdRouter for TLC. *)
EXTENDS CanIdRouter, TLC

CONSTANTS id1, id2

TwoIds == {id1, id2}
TwoChannels == {1, 2}
NoOne == {}
=============================================================================
