--------------------------- MODULE OutboxDispatch ---------------------------
(***************************************************************************)
(* The outbox table, the dispatch workers that drain it                     *)
(* (src/dispatch_worker) and the ERP that receives the orders               *)
(* (src/erp_mock).  Every SQL statement or transaction on the table is one  *)
(* step; the coroutines of a batch, the requests inside the ERP, the retry  *)
(* delay and the age of a lock interleave between them.                     *)
(***************************************************************************)
EXTENDS Integers, FiniteSets

CONSTANTS
    Workers,        \* dispatch-worker processes
    Rows,           \* outbox_id's; the idempotency key of row r is "outbox-r"
    BatchSize,      \* dispatch_batch_size
    MaxAttempts,    \* dispatch_max_attempts
    ReleaseEvery,   \* RELEASE_STALE_EVERY_N_CYCLES
    Faults,         \* the faults that may happen, see PossibleFaults
    MaxCrashes,     \* bound: crashes of workers
    MaxClaims       \* bound: claims of one row

\* "crash": a worker process dies and is restarted; "slow": a live worker keeps
\* a row for more than STALE_LOCK_SECONDS; "transport": a request or its answer
\* is lost; "server_error", "client_error": the ERP answers 5xx or 4xx;
\* "erp_slow": a request takes the ERP longer than the client's timeout plus
\* the retry delay.
PossibleFaults ==
    {"crash", "slow", "transport", "server_error", "client_error", "erp_slow"}

ASSUME ConstantsAssumption ==
    /\ Faults \subseteq PossibleFaults
    /\ BatchSize \in Nat \ {0}
    /\ MaxAttempts \in Nat \ {0}
    /\ ReleaseEvery \in Nat \ {0}
    /\ MaxCrashes \in Nat
    /\ MaxClaims \in Nat

\* An OutboxItem in the hands of a coroutine, and how far its dispatch is.
Phases == {"send", "wait", "ok", "temporary", "permanent"}
Item == [row : Rows, attempts : Nat, phase : Phases]

\* A request inside the ERP.  A claim sends one request, and no two claims of a
\* row have the same number of attempts.
Request == [row : Rows, attempts : Nat, stage : {"latency", "failing"}]

VARIABLES
    status,         \* outbox.status; "ABSENT" before the row is written
    attempts,       \* outbox.attempts
    due,            \* rows whose next_attempt_at has passed
    stale,          \* IN_FLIGHT rows whose locked_at is STALE_LOCK_SECONDS old
    pc,             \* where each worker's loop is
    cycle,          \* cycle % RELEASE_STALE_EVERY_N_CYCLES
    items,          \* items[w]: the batch that gather() is waiting for
    requests,       \* requests the ERP is working on
    acknowledged,   \* keys of _acknowledged_by_key
    registrations,  \* history: calls of _register for each row
    refused,        \* history: rows the ERP answered with a permanent error
    crashes         \* crashes so far

table == <<status, attempts, due, stale>>
loop  == <<pc, cycle, items>>
erp   == <<requests, acknowledged, registrations, refused>>
vars  == <<table, loop, erp, crashes>>

Statuses == {"ABSENT", "PENDING", "IN_FLIGHT", "SENT", "DLQ"}

Init ==
    /\ status = [r \in Rows |-> "ABSENT"]
    /\ attempts = [r \in Rows |-> 0]
    /\ due = {}
    /\ stale = {}
    /\ pc = [w \in Workers |-> "poll"]
    /\ cycle = [w \in Workers |-> 0]
    /\ items = [w \in Workers |-> {}]
    /\ requests = {}
    /\ acknowledged = {}
    /\ registrations = [r \in Rows |-> 0]
    /\ refused = {}
    /\ crashes = 0

(***************************************************************************)
(* The table.                                                               *)
(***************************************************************************)

\* OutboxRepository.enqueue, committed with the approval of the order.
Enqueue(r) ==
    /\ status[r] = "ABSENT"
    /\ status' = [status EXCEPT ![r] = "PENDING"]
    /\ due' = due \cup {r}
    /\ UNCHANGED <<attempts, stale, loop, erp, crashes>>

\* The UPDATE of mark_sent, mark_retry and mark_dead_letter: by outbox_id only,
\* whatever the row's status and lock are now.
Update(r, newStatus) ==
    /\ status' = [status EXCEPT ![r] = newStatus]
    /\ stale' = stale \ {r}

(***************************************************************************)
(* The loop of a worker.                                                    *)
(***************************************************************************)

\* A cycle that does not look for stale locks.
BeginCycle(w) ==
    /\ pc[w] = "poll"
    /\ (cycle[w] + 1) % ReleaseEvery # 0
    /\ cycle' = [cycle EXCEPT ![w] = (@ + 1) % ReleaseEvery]
    /\ pc' = [pc EXCEPT ![w] = "claim"]
    /\ UNCHANGED <<table, items, erp, crashes>>

\* Mutant: nothing is ever released.
AbandonedNever == {}

\* The rows that _RELEASE_STALE_LOCKS frees.
Abandoned == {r \in stale : status[r] = "IN_FLIGHT"}

\* Mutant: the released row keeps its locked_at.
ReleaseKeepsLockTime(w) ==
    /\ pc[w] = "poll"
    /\ (cycle[w] + 1) % ReleaseEvery = 0
    /\ cycle' = [cycle EXCEPT ![w] = 0]
    /\ status' = [r \in Rows |-> IF r \in Abandoned THEN "PENDING" ELSE status[r]]
    /\ pc' = [pc EXCEPT ![w] = "claim"]
    /\ UNCHANGED <<attempts, due, stale, items, erp, crashes>>

ReleaseAbandoned(w) ==
    /\ pc[w] = "poll"
    /\ (cycle[w] + 1) % ReleaseEvery = 0
    /\ cycle' = [cycle EXCEPT ![w] = 0]
    /\ status' = [r \in Rows |-> IF r \in Abandoned THEN "PENDING" ELSE status[r]]
    /\ stale' = stale \ Abandoned
    /\ pc' = [pc EXCEPT ![w] = "claim"]
    /\ UNCHANGED <<attempts, due, items, erp, crashes>>

\* Mutant: the claim does not look at the status.
ClaimableWhateverStatus == {r \in due : attempts[r] < MaxClaims}

Claimable == {r \in due : status[r] = "PENDING" /\ attempts[r] < MaxClaims}

\* UPDATE TOP (n) takes any n of the rows it may take: it has no ORDER BY.
Batches ==
    {S \in SUBSET Claimable :
        \/ Cardinality(S) = BatchSize
        \/ S = Claimable /\ Cardinality(S) < BatchSize}

ClaimBatch(w) ==
    /\ pc[w] = "claim"
    /\ \E S \in Batches :
        /\ status' = [r \in Rows |-> IF r \in S THEN "IN_FLIGHT" ELSE status[r]]
        /\ attempts' = [r \in Rows |-> IF r \in S THEN attempts[r] + 1 ELSE attempts[r]]
        /\ stale' = stale \ S
        /\ items' = [items EXCEPT ![w] =
                {[row |-> r, attempts |-> attempts[r] + 1, phase |-> "send"] : r \in S}]
        /\ pc' = [pc EXCEPT ![w] = IF S = {} THEN "poll" ELSE "gather"]
    /\ UNCHANGED <<due, cycle, erp, crashes>>

\* gather() returned: every coroutine of the batch has finished.
EndBatch(w) ==
    /\ pc[w] = "gather"
    /\ items[w] = {}
    /\ pc' = [pc EXCEPT ![w] = "poll"]
    /\ UNCHANGED <<table, cycle, items, erp, crashes>>

(***************************************************************************)
(* One coroutine: the request and its answer.                               *)
(***************************************************************************)

InPhase(i, phase) == [i EXCEPT !.phase = phase]

Advance(w, i, phase) == items' = [items EXCEPT ![w] = (@ \ {i}) \cup {InPhase(i, phase)}]

\* What a successful answer becomes on its way back.
OkAnswers == {"ok"} \cup (IF "transport" \in Faults THEN {"temporary"} ELSE {})

\* Mutant: the ERP does not look the key up.
KnownKeyNever(r) == FALSE

\* receive_order, first part: a key that was acknowledged is answered at once.
KnownKey(r) == r \in acknowledged

SendOrder(w, i) ==
    /\ i.phase = "send"
    /\ ~KnownKey(i.row)
    /\ requests' = requests \cup
            {[row |-> i.row, attempts |-> i.attempts, stage |-> "latency"]}
    /\ Advance(w, i, "wait")
    /\ UNCHANGED <<table, pc, cycle, acknowledged, registrations, refused, crashes>>

SendDuplicate(w, i) ==
    /\ i.phase = "send"
    /\ KnownKey(i.row)
    /\ \E answer \in OkAnswers : Advance(w, i, answer)
    /\ UNCHANGED <<table, pc, cycle, erp, crashes>>

SendFails(w, i) ==
    /\ "transport" \in Faults
    /\ i.phase = "send"
    /\ Advance(w, i, "temporary")
    /\ UNCHANGED <<table, pc, cycle, erp, crashes>>

Pending(i, q) == i.phase = "wait" /\ q.row = i.row /\ q.attempts = i.attempts

\* The client stops waiting; the ERP goes on.  A request the ERP decided to fail
\* may sleep for longer than the timeout.
Timeout(w, i) ==
    /\ \E q \in requests :
        /\ Pending(i, q)
        /\ q.stage = "failing" \/ "erp_slow" \in Faults \/ "transport" \in Faults
    /\ Advance(w, i, "temporary")
    /\ UNCHANGED <<table, pc, cycle, erp, crashes>>

(***************************************************************************)
(* The ERP.                                                                 *)
(***************************************************************************)

\* The answer to q reaches whoever still waits for it.
Deliver(q, phase) ==
    items' = [w \in Workers |->
        {IF Pending(i, q) THEN InPhase(i, phase) ELSE i : i \in items[w]}]

\* _maybe_fail decided to fail, perhaps after a long sleep.
ErpBeginsToFail(q) ==
    /\ "server_error" \in Faults
    /\ q.stage = "latency"
    /\ requests' = (requests \ {q}) \cup {[q EXCEPT !.stage = "failing"]}
    /\ UNCHANGED <<table, loop, acknowledged, registrations, refused, crashes>>

\* Mutant: 5xx passes for success.
ServerErrorTakenForOk == "ok"

\* _raise_for_status: 5xx is temporary.
ServerErrorPhase == "temporary"

ErpAnswersError(q) ==
    /\ q.stage = "failing"
    /\ requests' = requests \ {q}
    /\ Deliver(q, ServerErrorPhase)
    /\ UNCHANGED <<table, pc, cycle, acknowledged, registrations, refused, crashes>>

\* receive_order, second part: the key is not looked up again.
ErpRegisters(q) ==
    /\ q.stage = "latency"
    /\ requests' = requests \ {q}
    /\ acknowledged' = acknowledged \cup {q.row}
    /\ registrations' = [registrations EXCEPT ![q.row] = @ + 1]
    /\ \E answer \in OkAnswers : Deliver(q, answer)
    /\ UNCHANGED <<table, pc, cycle, refused, crashes>>

\* _raise_for_status: another 4xx is permanent.
ErpRefuses(q) ==
    /\ "client_error" \in Faults
    /\ q.stage = "latency"
    /\ requests' = requests \ {q}
    /\ refused' = refused \cup {q.row}
    /\ Deliver(q, "permanent")
    /\ UNCHANGED <<table, pc, cycle, acknowledged, registrations, crashes>>

(***************************************************************************)
(* The coroutine records the result in one transaction.                     *)
(***************************************************************************)

Finish(w, i) == items' = [items EXCEPT ![w] = @ \ {i}]

MarkSent(w, i) ==
    /\ i.phase = "ok"
    /\ Update(i.row, "SENT")
    /\ Finish(w, i)
    /\ UNCHANGED <<attempts, due, pc, cycle, erp, crashes>>

\* Mutants: give up one attempt early, or one late.
ExhaustedTooEarly(i) == i.attempts + 1 >= MaxAttempts
ExhaustedTooLate(i) == i.attempts > MaxAttempts

AttemptsExhausted(i) == i.attempts >= MaxAttempts

\* _reschedule: next_attempt_at moves into the future.
Reschedule(w, i) ==
    /\ i.phase = "temporary"
    /\ ~AttemptsExhausted(i)
    /\ Update(i.row, "PENDING")
    /\ due' = due \ {i.row}
    /\ Finish(w, i)
    /\ UNCHANGED <<attempts, pc, cycle, erp, crashes>>

ToDeadLetter(w, i) ==
    /\ \/ i.phase = "permanent"
       \/ i.phase = "temporary" /\ AttemptsExhausted(i)
    /\ Update(i.row, "DLQ")
    /\ Finish(w, i)
    /\ UNCHANGED <<attempts, due, pc, cycle, erp, crashes>>

(***************************************************************************)
(* Time and failures.                                                       *)
(***************************************************************************)

InErp(r) == \E q \in requests : q.row = r /\ q.stage = "latency"

InHand(r) == \E w \in Workers : \E i \in items[w] : i.row = r

\* The retry delay of a rescheduled row passes.
BecomeDue(r) ==
    /\ status[r] = "PENDING"
    /\ r \notin due
    /\ InErp(r) => "erp_slow" \in Faults
    /\ due' = due \cup {r}
    /\ UNCHANGED <<status, attempts, stale, loop, erp, crashes>>

\* STALE_LOCK_SECONDS pass since the claim.
BecomeStale(r) ==
    /\ status[r] = "IN_FLIGHT"
    /\ r \notin stale
    /\ InHand(r) => "slow" \in Faults
    /\ InErp(r) => "erp_slow" \in Faults
    /\ stale' = stale \cup {r}
    /\ UNCHANGED <<status, attempts, due, loop, erp, crashes>>

\* The process dies, or a failing transaction ends it: gather() does not catch
\* exceptions.  Its requests go on inside the ERP.
Crash(w) ==
    /\ "crash" \in Faults
    /\ crashes < MaxCrashes
    /\ crashes' = crashes + 1
    /\ pc' = [pc EXCEPT ![w] = "poll"]
    /\ cycle' = [cycle EXCEPT ![w] = 0]
    /\ items' = [items EXCEPT ![w] = {}]
    /\ UNCHANGED <<table, erp>>

Dispatch(w) ==
    \E i \in items[w] :
        \/ SendOrder(w, i)
        \/ SendDuplicate(w, i)
        \/ SendFails(w, i)
        \/ Timeout(w, i)
        \/ MarkSent(w, i)
        \/ Reschedule(w, i)
        \/ ToDeadLetter(w, i)

Step(w) ==
    \/ BeginCycle(w)
    \/ ReleaseAbandoned(w)
    \/ ClaimBatch(w)
    \/ EndBatch(w)
    \/ Dispatch(w)

ErpStep ==
    \E q \in requests :
        \/ ErpBeginsToFail(q)
        \/ ErpAnswersError(q)
        \/ ErpRegisters(q)
        \/ ErpRefuses(q)

Next ==
    \/ \E r \in Rows : Enqueue(r) \/ BecomeDue(r) \/ BecomeStale(r)
    \/ \E w \in Workers : Step(w) \/ Crash(w)
    \/ ErpStep

Spec == Init /\ [][Next]_vars

(***************************************************************************)
(* Properties                                                               *)
(***************************************************************************)

\* The variables have their types; a lock is stale only while it is held.
TypeOK ==
    /\ status \in [Rows -> Statuses]
    /\ attempts \in [Rows -> Nat]
    /\ due \subseteq Rows
    /\ stale \subseteq {r \in Rows : status[r] = "IN_FLIGHT"}
    /\ pc \in [Workers -> {"poll", "claim", "gather"}]
    /\ cycle \in [Workers -> 0..(ReleaseEvery - 1)]
    /\ items \in [Workers -> SUBSET Item]
    /\ requests \subseteq Request
    /\ acknowledged \subseteq Rows
    /\ registrations \in [Rows -> Nat]
    /\ refused \subseteq Rows
    /\ crashes \in 0..MaxCrashes

\* A row is marked SENT only for an order the ERP registered, whatever is lost,
\* late or answered by whom (dispatch_worker/main.py: _dispatch).
SentWasRegistered == \A r \in Rows : status[r] = "SENT" => r \in acknowledged

\* READPAST and the status change give a row to one worker at a time, and a row
\* that somebody dispatches is IN_FLIGHT with the attempts he knows.
ExclusiveClaim ==
    \A v \in Workers : \A i \in items[v] :
        /\ status[i.row] = "IN_FLIGHT" /\ attempts[i.row] = i.attempts
        /\ \A w \in Workers : \A j \in items[w] : i.row = j.row => v = w /\ i = j

\* A row is dead-lettered only after MaxAttempts claims or a permanent refusal.
NoEarlyDeadLetter ==
    \A r \in Rows : status[r] = "DLQ" => attempts[r] >= MaxAttempts \/ r \in refused

\* A row is claimed at most MaxAttempts times, plus once for every crash: a claim
\* whose worker died counts as an attempt, and nothing but _reschedule looks at
\* the limit.
AttemptsBounded == \A r \in Rows : attempts[r] <= MaxAttempts + crashes

\* Every row ends SENT or in the DLQ, also when the worker that claimed it died.
EventuallyDispatched ==
    \A r \in Rows : status[r] = "PENDING" ~> status[r] \in {"SENT", "DLQ"}
=============================================================================
