---------------------------- MODULE MCChatRequest ----------------------------
(* Small instances of ChatRequest: one budget of faults per question. *)
EXTENDS ChatRequest, TLC

Only(events) == [k \in Kind |-> IF k \in DOMAIN events THEN events[k] ELSE 0]

Faults == Only([death |-> 1, beside |-> 1, stage |-> 1, drop |-> 1,
                full |-> 1])
Deaths == Only([death |-> 1, freeze |-> 1, redis |-> 1, db |-> 1, api |-> 1])

TaskSymmetry == Permutations(Task)
=============================================================================
