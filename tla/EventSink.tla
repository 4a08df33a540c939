------------------------------ MODULE EventSink ------------------------------
(***************************************************************************)
(* What the ingest promises to whoever fills the stream, without workers,   *)
(* reservations, pending lists or batches: an entry is open until it is     *)
(* closed or given up; an event takes effect once, while an entry of it is  *)
(* open; an entry is closed only when nothing is lost by it; a valid one is *)
(* given up only after MaxDelivery deliveries.  IngestDelivery implements   *)
(* this specification, see IngestRefinement.                            *)
(***************************************************************************)
EXTENDS Integers, Sequences

CONSTANTS
    Events,         \* event_id's
    Malformed,      \* a payload that EventEnvelope rejects
    FactOf,         \* FactOf[e]: the business fact that event e reports
    MaxDelivery,    \* consumer_max_delivery
    MaxMessages     \* bound: entries ever added

VARIABLES
    log,            \* the entries offered so far
    fate,           \* fate[m]: "open", "done" or "dead"
    deliveries,     \* how often entry m was handed to a worker
    effects         \* how often the transaction of event e committed

vars == <<log, fate, deliveries, effects>>

Ids == 1..MaxMessages

Init ==
    /\ log = << >>
    /\ fate = [m \in Ids |-> "open"]
    /\ deliveries = [m \in Ids |-> 0]
    /\ effects = [e \in Events |-> 0]

Offer(p) ==
    /\ Len(log) < MaxMessages
    /\ log' = Append(log, p)
    /\ UNCHANGED <<fate, deliveries, effects>>

Open == {m \in 1..Len(log) : fate[m] = "open"}

\* Some open entries are handed to a worker, for the first time or again.
Deliver(S) ==
    /\ S \subseteq Open
    /\ deliveries' = [m \in Ids |-> deliveries[m] + (IF m \in S THEN 1 ELSE 0)]
    /\ UNCHANGED <<log, fate, effects>>

\* An event takes effect for the first and only time.
Effect(e) ==
    /\ effects[e] = 0
    /\ \E m \in Open : log[m] = e
    /\ effects' = [effects EXCEPT ![e] = 1]
    /\ UNCHANGED <<log, fate, deliveries>>

\* Entry m may go although it is not given up: its fact is in the database, or
\* another entry of the same event is there to be delivered, or to be looked at.
Redundant(m, S) ==
    \/ \E e \in Events : effects[e] > 0 /\ FactOf[e] = FactOf[log[m]]
    \/ \E k \in 1..Len(log) \ S : log[k] = log[m] /\ fate[k] # "done"

Close(S) ==
    /\ S \subseteq Open
    /\ \A m \in S : log[m] # Malformed /\ Redundant(m, S)
    /\ fate' = [m \in Ids |-> IF m \in S THEN "done" ELSE fate[m]]
    /\ UNCHANGED <<log, deliveries, effects>>

GiveUp(m) ==
    /\ m \in Open
    /\ log[m] = Malformed \/ deliveries[m] >= MaxDelivery
    /\ fate' = [fate EXCEPT ![m] = "dead"]
    /\ UNCHANGED <<log, deliveries, effects>>

Next ==
    \/ \E p \in Events \cup {Malformed} : Offer(p)
    \/ \E S \in SUBSET Open : Deliver(S) \/ Close(S)
    \/ \E e \in Events : Effect(e)
    \/ \E m \in Ids : GiveUp(m)

Spec == Init /\ [][Next]_vars
=============================================================================
