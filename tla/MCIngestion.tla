---------------------------- MODULE MCIngestion ----------------------------
(* Small instances of Ingestion: one budget of faults per question. *)
EXTENDS Ingestion, TLC

Only(events) == [k \in Kind |-> IF k \in DOMAIN events THEN events[k] ELSE 0]

Failures == Only([crash |-> 1, stall |-> 1])
Deletes == Only([delete |-> 1, index |-> 1, s3 |-> 1, api |-> 1,
                 stage |-> 1, freeze |-> 1, limit |-> 1, lookup |-> 1,
                 redis |-> 1])
Recovery == Only([crash |-> 1, db |-> 1, broker |-> 1])

OneCrash == Only([crash |-> 1])

TaskSymmetry == Permutations(Task)
=============================================================================
