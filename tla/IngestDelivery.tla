--------------------------- MODULE IngestDelivery ---------------------------
(***************************************************************************)
(* Delivery of the events of the Redis Stream by the ingest workers: the    *)
(* consumer group (src/shared/messaging/consumer.py), the reservation that  *)
(* deduplicates events (dedupe.py), the ledger and the outcomes of the      *)
(* processor (src/ingest_worker/processor.py) and the worker loop           *)
(* (src/ingest_worker/main.py).                                             *)
(*                                                                          *)
(* Every command sent to Redis and every SQL transaction is one step; the   *)
(* workers, the 60 s idle clock, the expiry of a reservation and the        *)
(* crashes interleave between them.  What a handler writes is abstracted to *)
(* "the transaction of event e committed"; OrderStore looks inside it.      *)
(***************************************************************************)
EXTENDS Integers, Sequences, FiniteSets

CONSTANTS
    Workers,            \* ingest-worker processes
    Events,             \* event_id's the partners send
    Malformed,          \* a payload that EventEnvelope rejects
    FactOf,             \* FactOf[e]: the business fact that event e reports
    DependsOn,          \* DependsOn[e]: facts without which e's handler raises; a poison
                        \* event depends on one that no event reports
    BatchSize,          \* consumer_batch_size
    MaxDelivery,        \* consumer_max_delivery
    ReclaimEvery,       \* RECLAIM_EVERY_N_CYCLES
    Faults,             \* the faults that may happen, see PossibleFaults
    MaxMessages,        \* bound: entries ever added to the stream
    MaxTimesDelivered   \* bound: deliveries after which a message stops ageing

\* "crash": a worker process dies and is restarted; "slow": a live worker can
\* hold a message for more than consumer_idle_reclaim_ms; "claim_error" and
\* "release_error": the dedupe connection fails; "db_error": a transaction
\* fails before its commit; "commit_lost": the commit took effect but its
\* answer was lost; "ttl": a reservation outlives dedupe_ttl_seconds.
PossibleFaults ==
    {"crash", "slow", "claim_error", "release_error", "db_error", "commit_lost", "ttl"}

ASSUME ConstantsAssumption ==
    /\ Malformed \notin Events
    /\ Faults \subseteq PossibleFaults
    /\ BatchSize \in Nat \ {0}
    /\ MaxDelivery \in Nat \ {0}
    /\ ReclaimEvery \in Nat \ {0}
    /\ MaxMessages \in Nat
    /\ MaxTimesDelivered \in Nat

Ids == 1..MaxMessages

\* StreamMessage: its payload is log[id].  reclaimed tells the list it came
\* from, because _next_messages puts what it read before what it reclaimed.
Message == [id : Ids, delivery_count : Nat, reclaimed : BOOLEAN]

FIRST_DELIVERY == 1

VARIABLES
    log,        \* the stream: log[m] is the payload of entry m
    cursor,     \* last entry the group delivered for the first time
    pel,        \* entries delivered and not acknowledged
    times,      \* times[m]: times_delivered of entry m
    idle,       \* pending entries whose idle time passed consumer_idle_reclaim_ms
    dlq,        \* dlq[m]: copies of entry m in the dead letter stream
    keys,       \* events with a reservation in Redis
    ledger,     \* processed_events
    applied,    \* history: transactions of event e that committed
    pc,         \* where each worker is
    cycle,      \* cycle % RECLAIM_EVERY_N_CYCLES
    todo,       \* messages of the batch not processed yet
    scan,       \* the answer to XPENDING, before XCLAIM
    current,    \* the message in hand
    acks,       \* acknowledgeable
    dead        \* dead_letters

stream == <<log, cursor, pel, times, idle, dlq>>
store  == <<keys, ledger, applied>>
local  == <<pc, cycle, todo, scan, current, acks, dead>>
vars   == <<stream, store, local>>

NoMessage == [id |-> 0, delivery_count |-> 0, reclaimed |-> FALSE]

PCs == {"read", "scan", "reclaim", "process", "apply", "release", "dead",
        "dead_ack"}

Init ==
    /\ log = << >>
    /\ cursor = 0
    /\ pel = {}
    /\ times = [m \in Ids |-> 0]
    /\ idle = {}
    /\ dlq = [m \in Ids |-> 0]
    /\ keys = {}
    /\ ledger = {}
    /\ applied = [e \in Events |-> 0]
    /\ pc = [w \in Workers |-> "read"]
    /\ cycle = [w \in Workers |-> 0]
    /\ todo = [w \in Workers |-> {}]
    /\ scan = [w \in Workers |-> {}]
    /\ current = [w \in Workers |-> NoMessage]
    /\ acks = [w \in Workers |-> {}]
    /\ dead = [w \in Workers |-> {}]

(***************************************************************************)
(* The stream and its consumer group.                                       *)
(***************************************************************************)

\* publish_many adds an entry; a partner may send the same event again.
Publish(p) ==
    /\ Len(log) < MaxMessages
    /\ log' = Append(log, p)
    /\ UNCHANGED <<cursor, pel, times, idle, dlq, store, local>>

IdsOf(messages) == {m.id : m \in messages}

\* The list order of a batch: what was read first, then by id.
Before(a, b) ==
    \/ ~a.reclaimed /\ b.reclaimed
    \/ a.reclaimed = b.reclaimed /\ a.id < b.id

IsFirst(m, batch) == \A o \in batch \ {m} : Before(m, o)

NewIds == {m \in (cursor + 1)..Len(log) : m <= cursor + BatchSize}

\* After the batch is complete: handle it, or go round the loop if it is empty.
AfterBatch(batch) == IF batch = {} THEN "read" ELSE "process"

\* read(): XREADGROUP ">" delivers new entries, or nothing after BLOCK.
Read(w) ==
    /\ pc[w] = "read"
    /\ cursor' = IF cursor + BatchSize <= Len(log) THEN cursor + BatchSize ELSE Len(log)
    /\ pel' = pel \cup NewIds
    /\ times' = [m \in Ids |-> IF m \in NewIds THEN FIRST_DELIVERY ELSE times[m]]
    /\ todo' = [todo EXCEPT ![w] =
                    {[id |-> m, delivery_count |-> FIRST_DELIVERY, reclaimed |-> FALSE] :
                        m \in NewIds}]
    /\ cycle' = [cycle EXCEPT ![w] = (@ + 1) % ReclaimEvery]
    /\ pc' = [pc EXCEPT ![w] = IF cycle'[w] = 0 THEN "scan" ELSE AfterBatch(NewIds)]
    /\ UNCHANGED <<log, idle, dlq, store, scan, current, acks, dead>>

\* XPENDING with IDLE and COUNT answers the oldest BatchSize idle entries.
OldestIdle == {m \in idle : Cardinality({k \in idle : k < m}) < BatchSize}

\* _pending_delivery_counts(): the counts are those BEFORE the claim.
PendingDeliveryCounts(w) ==
    /\ pc[w] = "scan"
    /\ scan' = [scan EXCEPT ![w] =
                    {[id |-> m, delivery_count |-> times[m], reclaimed |-> TRUE] :
                        m \in OldestIdle}]
    /\ pc' = [pc EXCEPT ![w] = IF OldestIdle = {} THEN AfterBatch(todo[w]) ELSE "reclaim"]
    /\ UNCHANGED <<stream, store, cycle, todo, current, acks, dead>>

\* Mutant: claim what is pending, however recently it was delivered.
ClaimableIgnoringIdleTime(w) == {s \in scan[w] : s.id \in pel}

\* XCLAIM takes the entries that are still pending and still idle.
Claimable(w) == {s \in scan[w] : s.id \in pel /\ s.id \in idle}

ReclaimAbandoned(w) ==
    /\ pc[w] = "reclaim"
    /\ idle' = idle \ IdsOf(Claimable(w))
    /\ times' = [m \in Ids |-> IF m \in IdsOf(Claimable(w)) THEN times[m] + 1 ELSE times[m]]
    /\ todo' = [todo EXCEPT ![w] = @ \cup Claimable(w)]
    /\ scan' = [scan EXCEPT ![w] = {}]
    /\ pc' = [pc EXCEPT ![w] = AfterBatch(todo'[w])]
    /\ UNCHANGED <<log, cursor, pel, dlq, store, cycle, current, acks, dead>>

\* XACK works for any consumer of the group and ignores unknown ids.
XAck(ids) ==
    /\ pel' = pel \ ids
    /\ idle' = idle \ ids

(***************************************************************************)
(* _persist: one message at a time.                                         *)
(***************************************************************************)

EventOf(m) == log[m.id]

\* Mutant: a payload that does not validate is handled like any other.
ParsedUnchecked(m) == TRUE

\* _parse returned an envelope: the payload is validated before anything is reserved.
Parsed(m) == EventOf(m) # Malformed

DiscardMalformed(w) ==
    /\ pc[w] = "process"
    /\ \E m \in todo[w] :
        /\ IsFirst(m, todo[w])
        /\ ~Parsed(m)
        /\ todo' = [todo EXCEPT ![w] = @ \ {m}]
        /\ dead' = [dead EXCEPT ![w] = @ \cup {m}]
    /\ UNCHANGED <<stream, store, pc, cycle, scan, current, acks>>

\* The answers of claim(e): SET NX, or TRUE when Redis cannot be reached,
\* whether or not the command had been executed.
ClaimAnswers(e) ==
    {[granted |-> e \notin keys, keys |-> keys \cup {e}]} \cup
    (IF "claim_error" \in Faults
     THEN {[granted |-> TRUE, keys |-> keys], [granted |-> TRUE, keys |-> keys \cup {e}]}
     ELSE {})

\* process() up to the reservation.
ClaimReservation(w) ==
    /\ pc[w] = "process"
    /\ \E m \in todo[w] :
        /\ IsFirst(m, todo[w])
        /\ Parsed(m)
        /\ todo' = [todo EXCEPT ![w] = @ \ {m}]
        /\ \E answer \in ClaimAnswers(EventOf(m)) :
            /\ keys' = answer.keys
            /\ \/ /\ answer.granted
                  /\ current' = [current EXCEPT ![w] = m]
                  /\ pc' = [pc EXCEPT ![w] = "apply"]
                  /\ UNCHANGED acks
               \/ /\ ~answer.granted
                  /\ acks' = [acks EXCEPT ![w] = @ \cup {m.id}]
                  /\ UNCHANGED <<current, pc>>
    /\ UNCHANGED <<stream, ledger, applied, cycle, scan, dead>>

FactCommitted(f) == \E e \in ledger : FactOf[e] = f

\* The handler raises: a dependency is missing or the data is bad.
HandlerFails(e) == \E f \in DependsOn[e] : ~FactCommitted(f)

\* Mutant: the handler runs without the ledger.
ClaimInLedgerUnchecked(e) == TRUE

\* _claim_in_ledger: the primary key of processed_events.
ClaimInLedger(e) == e \notin ledger

CommitEffect(e) ==
    /\ ledger' = ledger \cup {e}
    /\ applied' = [applied EXCEPT ![e] = @ + 1]

\* The message leaves the processor with an outcome that is acknowledged.
Acknowledge(w) ==
    /\ acks' = [acks EXCEPT ![w] = @ \cup {current[w].id}]
    /\ current' = [current EXCEPT ![w] = NoMessage]
    /\ pc' = [pc EXCEPT ![w] = "process"]

\* PROCESSED
Commit(w) ==
    /\ pc[w] = "apply"
    /\ ClaimInLedger(EventOf(current[w]))
    /\ ~HandlerFails(EventOf(current[w]))
    /\ CommitEffect(EventOf(current[w]))
    /\ Acknowledge(w)
    /\ UNCHANGED <<stream, keys, cycle, todo, scan, dead>>

\* DUPLICATE: already in processed_events, or a business constraint refused
\* the second report of a fact and the transaction was rolled back.
Duplicate(w) ==
    /\ pc[w] = "apply"
    /\ \/ ~ClaimInLedger(EventOf(current[w]))
       \/ /\ FactCommitted(FactOf[EventOf(current[w])])
          /\ ~HandlerFails(EventOf(current[w]))
    /\ Acknowledge(w)
    /\ UNCHANGED <<stream, store, cycle, todo, scan, dead>>

\* RETRY: the transaction raised and was rolled back.
Fail(w) ==
    /\ pc[w] = "apply"
    /\ \/ ClaimInLedger(EventOf(current[w])) /\ HandlerFails(EventOf(current[w]))
       \/ "db_error" \in Faults
    /\ pc' = [pc EXCEPT ![w] = "release"]
    /\ UNCHANGED <<stream, store, cycle, todo, scan, current, acks, dead>>

\* RETRY although the transaction committed: the answer to COMMIT was lost.
CommitLost(w) ==
    /\ "commit_lost" \in Faults
    /\ pc[w] = "apply"
    /\ ClaimInLedger(EventOf(current[w]))
    /\ ~HandlerFails(EventOf(current[w]))
    /\ CommitEffect(EventOf(current[w]))
    /\ pc' = [pc EXCEPT ![w] = "release"]
    /\ UNCHANGED <<stream, keys, cycle, todo, scan, current, acks, dead>>

\* Mutant: give up one delivery early.
ExhaustedTooEarly(m) == m.delivery_count + 1 >= MaxDelivery

DeliveriesExhausted(m) == m.delivery_count >= MaxDelivery

\* Mutant: the failure path keeps the reservation.
KeysNeverReleased(e) == {keys}

\* What release(e) may leave behind: an error of the DELETE is swallowed.
KeysAfterRelease(e) ==
    {keys \ {e}} \cup (IF "release_error" \in Faults THEN {keys} ELSE {})

\* release() and the end of _persist's turn: dead letter, or leave it pending.
Release(w) ==
    /\ pc[w] = "release"
    /\ keys' \in KeysAfterRelease(EventOf(current[w]))
    /\ dead' = [dead EXCEPT ![w] =
                    IF DeliveriesExhausted(current[w]) THEN @ \cup {current[w]} ELSE @]
    /\ current' = [current EXCEPT ![w] = NoMessage]
    /\ pc' = [pc EXCEPT ![w] = "process"]
    /\ UNCHANGED <<stream, ledger, applied, cycle, todo, scan, acks>>

(***************************************************************************)
(* _handle after _persist: the dead letters one by one, then one XACK.       *)
(***************************************************************************)

EndPersist(w) ==
    /\ pc[w] = "process"
    /\ todo[w] = {}
    /\ pc' = [pc EXCEPT ![w] = "dead"]
    /\ UNCHANGED <<stream, store, cycle, todo, scan, current, acks, dead>>

\* send_to_dead_letter: XADD to the dead letter stream, then its own XACK.
SendToDeadLetter(w) ==
    /\ pc[w] = "dead"
    /\ \E m \in dead[w] :
        /\ IsFirst(m, dead[w])
        /\ dlq' = [dlq EXCEPT ![m.id] = @ + 1]
        /\ current' = [current EXCEPT ![w] = m]
        /\ dead' = [dead EXCEPT ![w] = @ \ {m}]
    /\ pc' = [pc EXCEPT ![w] = "dead_ack"]
    /\ UNCHANGED <<log, cursor, pel, times, idle, store, cycle, todo, scan, acks>>

\* Mutant: the dead letter is written and its message stays pending.
AckDeadLetterForgotten(w) ==
    /\ pc[w] = "dead_ack"
    /\ current' = [current EXCEPT ![w] = NoMessage]
    /\ pc' = [pc EXCEPT ![w] = "dead"]
    /\ UNCHANGED <<stream, store, cycle, todo, scan, acks, dead>>

AckDeadLetter(w) ==
    /\ pc[w] = "dead_ack"
    /\ XAck({current[w].id})
    /\ current' = [current EXCEPT ![w] = NoMessage]
    /\ pc' = [pc EXCEPT ![w] = "dead"]
    /\ UNCHANGED <<log, cursor, times, dlq, store, cycle, todo, scan, acks, dead>>

Ack(w) ==
    /\ pc[w] = "dead"
    /\ dead[w] = {}
    /\ XAck(acks[w])
    /\ acks' = [acks EXCEPT ![w] = {}]
    /\ pc' = [pc EXCEPT ![w] = "read"]
    /\ UNCHANGED <<log, cursor, times, dlq, store, cycle, todo, scan, current, dead>>

(***************************************************************************)
(* Time and failures.                                                       *)
(***************************************************************************)

\* Worker w has message m in one of its lists.
Holds(w, m) ==
    \/ m \in IdsOf(todo[w] \cup scan[w] \cup dead[w])
    \/ m \in acks[w]
    \/ m = current[w].id

\* consumer_idle_reclaim_ms pass since the last delivery of m.
GoIdle(m) ==
    /\ m \in pel \ idle
    /\ times[m] < MaxTimesDelivered
    /\ "slow" \in Faults \/ \A w \in Workers : ~Holds(w, m)
    /\ idle' = idle \cup {m}
    /\ UNCHANGED <<log, cursor, pel, times, dlq, store, local>>

\* dedupe_ttl_seconds pass.
ExpireReservation(e) ==
    /\ "ttl" \in Faults
    /\ e \in keys
    /\ keys' = keys \ {e}
    /\ UNCHANGED <<stream, ledger, applied, local>>

\* A new process, with a new consumer name, takes the place of w.
NewProcess(w) ==
    /\ pc' = [pc EXCEPT ![w] = "read"]
    /\ cycle' = [cycle EXCEPT ![w] = 0]
    /\ todo' = [todo EXCEPT ![w] = {}]
    /\ scan' = [scan EXCEPT ![w] = {}]
    /\ current' = [current EXCEPT ![w] = NoMessage]
    /\ acks' = [acks EXCEPT ![w] = {}]
    /\ dead' = [dead EXCEPT ![w] = {}]
    /\ UNCHANGED <<stream, store>>

Crash(w) == "crash" \in Faults /\ NewProcess(w)

Step(w) ==
    \/ Read(w)
    \/ PendingDeliveryCounts(w)
    \/ ReclaimAbandoned(w)
    \/ DiscardMalformed(w)
    \/ ClaimReservation(w)
    \/ Commit(w)
    \/ Duplicate(w)
    \/ Fail(w)
    \/ CommitLost(w)
    \/ Release(w)
    \/ EndPersist(w)
    \/ SendToDeadLetter(w)
    \/ AckDeadLetter(w)
    \/ Ack(w)

Next ==
    \/ \E p \in Events \cup {Malformed} : Publish(p)
    \/ \E w \in Workers : Step(w) \/ Crash(w)
    \/ \E m \in Ids : GoIdle(m)
    \/ \E e \in Events : ExpireReservation(e)

Spec == Init /\ [][Next]_vars

(***************************************************************************)
(* Properties                                                               *)
(***************************************************************************)

\* The variables have their types; what is pending was delivered.
TypeOK ==
    /\ log \in Seq(Events \cup {Malformed})
    /\ Len(log) <= MaxMessages
    /\ cursor \in 0..Len(log)
    /\ pel \subseteq 1..cursor
    /\ times \in [Ids -> Nat]
    /\ idle \subseteq pel
    /\ dlq \in [Ids -> Nat]
    /\ keys \subseteq Events
    /\ ledger \subseteq Events
    /\ applied \in [Events -> Nat]
    /\ pc \in [Workers -> PCs]
    /\ cycle \in [Workers -> 0..(ReclaimEvery - 1)]
    /\ todo \in [Workers -> SUBSET Message]
    /\ scan \in [Workers -> SUBSET Message]
    /\ current \in [Workers -> Message \cup {NoMessage}]
    /\ acks \in [Workers -> SUBSET Ids]
    /\ dead \in [Workers -> SUBSET Message]

\* Exactly-once effect: however often an event is delivered, retried or
\* claimed by two workers, its transaction commits at most once, and the
\* ledger says so (processor.py: barrier 2).
AppliedAtMostOnce ==
    \A e \in Events : applied[e] = (IF e \in ledger THEN 1 ELSE 0)

\* An event is accounted for while one of its entries can still be delivered,
\* after its fact was committed, or when a copy is in the dead letter stream.
CanStillBeDelivered(m) == m > cursor \/ m \in pel

Accounted(m) ==
    \/ CanStillBeDelivered(m)
    \/ dlq[m] > 0
    \/ /\ log[m] # Malformed
       /\ \/ FactCommitted(FactOf[log[m]])
          \/ \E k \in 1..Len(log) :
                log[k] = log[m] /\ (CanStillBeDelivered(k) \/ dlq[k] > 0)

\* No event disappears: one that was acknowledged was committed, is in the
\* dead letter stream, or has another entry that is still to be handled
\* (main.py: "ACK somente depois do commit").
NoSilentLoss == \A m \in 1..Len(log) : Accounted(m)

\* A valid event is not given up before consumer_max_delivery deliveries, no
\* matter which worker counted them or how old its XPENDING answer was.
NoEarlyDeadLetter ==
    \A m \in 1..Len(log) :
        dlq[m] > 0 /\ log[m] # Malformed => times[m] >= MaxDelivery

\* While no live worker is slower than the idle limit, a delivered message is
\* in the hands of one worker only: XCLAIM never takes what another process
\* is still handling.
ExclusiveDelivery ==
    \A v, w \in Workers : \A m \in Ids :
        v # w /\ m \in IdsOf(todo[v] \cup dead[v]) \cup acks[v] \cup {current[v].id}
            => m \notin IdsOf(todo[w] \cup dead[w]) \cup acks[w] \cup {current[w].id}

\* The dead letter stream gets one copy of a message, although XADD and XACK
\* are separate commands.
DeadLetteredOnce == \A m \in Ids : dlq[m] <= 1

\* Every entry is eventually delivered and leaves the pending list: a failing
\* message never circulates for ever and never starves the others.
EventuallySettled ==
    \A m \in Ids : m <= Len(log) ~> (m <= cursor /\ m \notin pel)
=============================================================================
