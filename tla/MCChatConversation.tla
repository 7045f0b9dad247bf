------------------------- MODULE MCChatConversation -------------------------
(* Instances of ChatConversation for TLC. *)
EXTENDS ChatConversation, TLC

Symmetry == Permutations(Loops)
=============================================================================
