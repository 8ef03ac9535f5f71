--------------------------- MODULE MCCarBusReceive ---------------------------
(* Instances of CarBusReceive for TLC. *)
EXTENDS CarBusReceive, TLC

CONSTANTS id1

OneId == {id1}

\* One hook by identifier and data, one for every frame: both may match.
TwoRules == {[can_id |-> id1, masked |-> TRUE], [can_id |-> AnyId, masked |-> FALSE]}
NoRules == {}
TwoChannels == {1, 2}
ChannelsOneThree == {1, 3}
OneChannel == {1}
=============================================================================
