---------------------------- MODULE ApprovalToErp ----------------------------
(***************************************************************************)
(* From the payment event to the ERP: the transactions of OrderStore write  *)
(* the rows that OutboxDispatch drains.  The two share the outbox table:    *)
(* the row is inserted by the commit that approves the order, and nothing   *)
(* else links the ingest workers to the dispatch workers.                   *)
(***************************************************************************)
EXTENDS Integers, Sequences, FiniteSets

CONSTANTS
    Events, Addresses, Txs, Numbers, MaxConcurrent,         \* see OrderStore
    Workers, BatchSize, MaxAttempts, ReleaseEvery, Faults,  \* see OutboxDispatch
    MaxCrashes, MaxClaims,
    MaxRows         \* bound: rows of the outbox, one for each approval event

Rows == 1..MaxRows

VARIABLES
    client, versions, order, payments, invoice, elsewhere, outbox,  \* OrderStore
    ledger, txPc, found, txStatus, shipping, locks, outcome, staleWrites,
    rowStatus, attempts, due, staleLocks, pc, cycle, items,         \* OutboxDispatch
    requests, acknowledged, registrations, refused, crashes

store == <<client, versions, order, payments, invoice, elsewhere, outbox, ledger,
           txPc, found, txStatus, shipping, locks, outcome, staleWrites>>
dispatch == <<rowStatus, attempts, due, staleLocks, pc, cycle, items,
              requests, acknowledged, registrations, refused, crashes>>
vars == <<store, dispatch>>

Store == INSTANCE OrderStore WITH
    pc <- txPc, status <- txStatus, stale <- staleWrites

Dispatch == INSTANCE OutboxDispatch WITH
    status <- rowStatus, stale <- staleLocks

ASSUME ConstantsAssumption ==
    /\ Store!ConstantsAssumption
    /\ Dispatch!ConstantsAssumption
    /\ MaxRows \in Nat

Init == Store!Init /\ Dispatch!Init

\* Mutant: the ERP is notified by a transaction of its own, before the commit.
AnnounceBeforeCommit ==
    IF \E e \in Events : txPc[e] = "approve" /\ txPc'[e] = "commit"
    THEN Dispatch!Enqueue(outbox + 1)
    ELSE UNCHANGED dispatch

\* _enqueue_erp_notification: the row gets the next outbox_id, and the claims
\* see it when the transaction that approved the order commits.
Announce ==
    IF outbox' = outbox THEN UNCHANGED dispatch
    ELSE outbox' \in Rows /\ Dispatch!Enqueue(outbox')

\* A statement of a transaction of an ingest worker.
Ingest == Store!Next /\ Announce

\* A step of a dispatch worker, of the ERP or of the clock.
Deliver ==
    /\ \/ \E r \in Rows : Dispatch!BecomeDue(r) \/ Dispatch!BecomeStale(r)
       \/ \E w \in Workers : Dispatch!Step(w) \/ Dispatch!Crash(w)
       \/ Dispatch!ErpStep
    /\ UNCHANGED store

Next == Ingest \/ Deliver

Spec == Init /\ [][Next]_vars

\* Workers run, the ERP answers what it received, time passes.  A batch is a set
\* of coroutines on one event loop: each of them gets its turn.  No event has to
\* arrive or to be processed.
Fairness ==
    /\ \A w \in Workers : WF_vars(Dispatch!Step(w) /\ UNCHANGED store)
    /\ WF_vars(Dispatch!ErpStep /\ UNCHANGED store)
    /\ \A r \in Rows :
        WF_vars((Dispatch!BecomeDue(r) \/ Dispatch!BecomeStale(r)) /\ UNCHANGED store)

FairSpec == Spec /\ Fairness

(***************************************************************************)
(* Properties                                                               *)
(***************************************************************************)

Approved == order.status \in {"APPROVED", "INVOICED"}

\* The ERP hears of approved orders only, whatever the workers, the ERP and the
\* transactions that lose a race or roll back do (payment_handler.py: "POST sem
\* commit avisa de um pedido que nao existe").
RegisteredWasApproved ==
    (\E r \in Rows : registrations[r] > 0) => Approved

\* End to end the ERP registers the order once, through crashes, lost requests
\* and repeated approvals, unless a transaction acted on a stale status.
RegisteredOnceUnlessStale ==
    staleWrites = {} =>
        \A r, s \in Rows : registrations[r] > 0 /\ registrations[s] > 0 =>
            r = s /\ registrations[r] = 1

\* An approved order reaches the ERP or the DLQ, also when the worker that
\* claimed its row dies (payment_handler.py: "commit sem POST deixa o ERP sem
\* saber").
ApprovedReachesErp ==
    order.status = "APPROVED" ~>
        \E r \in Rows : registrations[r] > 0 \/ rowStatus[r] = "DLQ"

\* Every row of the outbox ends SENT or in the DLQ: a worker that dies with a row in
\* flight leaves it to whoever finds its lock stale (dispatch_worker/main.py:
\* _release_abandoned).
EventuallyDispatched == Dispatch!EventuallyDispatched
=============================================================================
