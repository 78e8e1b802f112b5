-------------------------- MODULE MCAssistantTurns --------------------------
(* A user with one conversation, and turns enough for a source turn, its      *)
(* continuation and a turn that supersedes one of them.                       *)
EXTENDS AssistantTurns, TLC

CONSTANTS c1, c2, u1, u2

MCUserOf == [c \in Convs |-> IF c = c1 THEN u1 ELSE u2]

MessageSymmetry == Permutations(Msgs)
=============================================================================
