-------------------------- MODULE MCChatPersistence --------------------------
(* Instances of ChatPersistence for TLC. *)
EXTENDS ChatPersistence, TLC

TwoChannels == 0..1
SecondRow   == {2}
NoPoison    == {}
Symmetry    == Permutations(Workers)
=============================================================================
