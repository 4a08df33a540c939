-------------------------- MODULE IngestRefinement --------------------------
(***************************************************************************)
(* The consumer group, the workers and the ledger implement EventSink, as   *)
(* long as no worker dies or outlives the idle limit and reservations can   *)
(* be released.                                                             *)
(***************************************************************************)
EXTENDS IngestDelivery

\* An entry is dead once its copy is in the dead letter stream, also while it
\* still waits for its own XACK, and done when it was acknowledged without one.
Fate ==
    [m \in Ids |->
        IF dlq[m] > 0 THEN "dead"
        ELSE IF CanStillBeDelivered(m) THEN "open" ELSE "done"]

Sink == INSTANCE EventSink WITH
    fate <- Fate, deliveries <- times, effects <- applied

\* Every step of the ingest is a step of the sink or none: two workers, expiring
\* reservations and reservations granted by mistake do not make an event take
\* effect twice or after all its entries were settled, close an entry that
\* nothing else stands for, or give one up early (ingest_worker/main.py: _handle).
ImplementsSink == Sink!Spec
=============================================================================
