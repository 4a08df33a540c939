-------------------------- MODULE MCIngestDelivery --------------------------
(* Small instances of IngestDelivery: a client, an order that depends on it, *)
(* and the same order reported again under a new event_id.                   *)
EXTENDS IngestRefinement, TLC

CONSTANTS clientEvent, orderEvent, orderAgain, w1, w2

MCFactOf ==
    [e \in Events |-> IF e = clientEvent THEN "client" ELSE "order"]

MCDependsOn ==
    [e \in Events |-> IF e = clientEvent THEN {} ELSE {"client"}]

\* The two workers run the same program: safety runs may identify them.
WorkerSymmetry == Permutations(Workers)
=============================================================================
