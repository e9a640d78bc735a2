------------------------------ MODULE MCChatPair ------------------------------
(* Instances of ChatPair for TLC. *)
EXTENDS ChatPair
CONSTANTS ann, bob
TwoUsers == {ann, bob}
Swap == Permutations(TwoUsers)
=============================================================================
