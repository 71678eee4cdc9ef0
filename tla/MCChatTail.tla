------------------------------ MODULE MCChatTail ------------------------------
(* Small instances of ChatTail. *)
EXTENDS ChatTail, TLC

OneOfEach == [k \in Kind |-> 1]

RunSymmetry == Permutations(Run)
=============================================================================
