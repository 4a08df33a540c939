------------------------- MODULE ApprovalToErp_proofs -------------------------
(***************************************************************************)
(* Proofs about ApprovalToErp for any events, workers, limits and faults:   *)
(* the composition implements both of its parts, so that what is proved of  *)
(* the transactions and of the dispatch holds of it, and what the ERP knows *)
(* follows from the two.                                                    *)
(***************************************************************************)
EXTENDS ApprovalToErp, TLAPS

StoreProofs == INSTANCE OrderStore_proofs WITH
    pc <- txPc, status <- txStatus, stale <- staleWrites

DispatchProofs == INSTANCE OutboxDispatch_proofs WITH
    status <- rowStatus, stale <- staleLocks

(***************************************************************************)
(* The instances of the parts are the instances of their proofs.            *)
(***************************************************************************)

LEMMA SameCardinality ==
    ASSUME NEW S
    PROVE  /\ Store!Cardinality(S) = StoreProofs!Cardinality(S)
           /\ Dispatch!Cardinality(S) = DispatchProofs!Cardinality(S)
  BY DEF Store!Cardinality, StoreProofs!Cardinality, Dispatch!Cardinality,
     DispatchProofs!Cardinality

LEMMA SameConstants ==
    StoreProofs!ConstantsAssumption /\ DispatchProofs!ConstantsAssumption
  BY ConstantsAssumption DEF ConstantsAssumption, Store!ConstantsAssumption,
         StoreProofs!ConstantsAssumption, Store!EventShape, StoreProofs!EventShape,
         Store!NONE, StoreProofs!NONE, Store!PaymentStatuses,
         StoreProofs!PaymentStatuses, Dispatch!ConstantsAssumption,
         DispatchProofs!ConstantsAssumption, Dispatch!PossibleFaults,
         DispatchProofs!PossibleFaults

LEMMA SameStatements ==
    ASSUME NEW e \in Events
    PROVE  /\ Store!BeginClient(e) <=> StoreProofs!BeginClient(e)
           /\ Store!WriteClient(e) <=> StoreProofs!WriteClient(e)
           /\ Store!CommitClient(e) <=> StoreProofs!CommitClient(e)
           /\ Store!BeginOrder(e) <=> StoreProofs!BeginOrder(e)
           /\ Store!ReadAddress(e) <=> StoreProofs!ReadAddress(e)
           /\ Store!InsertOrder(e) <=> StoreProofs!InsertOrder(e)
           /\ Store!CommitOrder(e) <=> StoreProofs!CommitOrder(e)
           /\ Store!BeginPayment(e) <=> StoreProofs!BeginPayment(e)
           /\ Store!ReadPayment(e) <=> StoreProofs!ReadPayment(e)
           /\ Store!WritePayment(e) <=> StoreProofs!WritePayment(e)
           /\ Store!Approve(e) <=> StoreProofs!Approve(e)
           /\ Store!CommitPayment(e) <=> StoreProofs!CommitPayment(e)
           /\ Store!BeginInvoice(e) <=> StoreProofs!BeginInvoice(e)
           /\ Store!ReadInvoice(e) <=> StoreProofs!ReadInvoice(e)
           /\ Store!InsertInvoice(e) <=> StoreProofs!InsertInvoice(e)
           /\ Store!Bill(e) <=> StoreProofs!Bill(e)
           /\ Store!CommitInvoice(e) <=> StoreProofs!CommitInvoice(e)
           /\ Store!Rollback(e) <=> StoreProofs!Rollback(e)
           /\ Store!Statement(e) <=> StoreProofs!Statement(e)
  <1> USE DEF Store!NONE, StoreProofs!NONE, Store!database, StoreProofs!database,
         Store!GoTo, StoreProofs!GoTo, Store!LockIsFree, StoreProofs!LockIsFree,
         Store!Lock, StoreProofs!Lock, Store!EndTransaction, StoreProofs!EndTransaction,
         Store!Processed, StoreProofs!Processed, Store!OrderExists,
         StoreProofs!OrderExists, Store!RefusedByConstraint,
         StoreProofs!RefusedByConstraint, Store!LoadOrder, StoreProofs!LoadOrder,
         Store!MayMove, StoreProofs!MayMove, Store!Allowed, StoreProofs!Allowed,
         Store!AfterPayment, StoreProofs!AfterPayment, Store!LockOrderRow,
         StoreProofs!LockOrderRow, Store!MoveOrder, StoreProofs!MoveOrder,
         Store!MessagesOf, StoreProofs!MessagesOf, Store!VersionsAfter,
         StoreProofs!VersionsAfter, Store!InvoiceKeyIsTaken, StoreProofs!InvoiceKeyIsTaken
  <1>0. \A t : Store!MayBegin(e, t) <=> StoreProofs!MayBegin(e, t)
    <2>1. Store!Open = StoreProofs!Open
      BY DEF Store!Open, StoreProofs!Open
    <2>2. Store!Cardinality(Store!Open) = StoreProofs!Cardinality(StoreProofs!Open)
      BY <2>1, SameCardinality
    <2> QED
      BY <2>2 DEF Store!MayBegin, StoreProofs!MayBegin
  <1>1. /\ Store!BeginClient(e) <=> StoreProofs!BeginClient(e)
        /\ Store!WriteClient(e) <=> StoreProofs!WriteClient(e)
        /\ Store!CommitClient(e) <=> StoreProofs!CommitClient(e)
    BY <1>0 DEF Store!BeginClient, StoreProofs!BeginClient, Store!WriteClient,
           StoreProofs!WriteClient, Store!CommitClient, StoreProofs!CommitClient
  <1>2. /\ Store!BeginOrder(e) <=> StoreProofs!BeginOrder(e)
        /\ Store!ReadAddress(e) <=> StoreProofs!ReadAddress(e)
        /\ Store!InsertOrder(e) <=> StoreProofs!InsertOrder(e)
        /\ Store!CommitOrder(e) <=> StoreProofs!CommitOrder(e)
    BY <1>0 DEF Store!BeginOrder, StoreProofs!BeginOrder, Store!ReadAddress,
           StoreProofs!ReadAddress, Store!InsertOrder, StoreProofs!InsertOrder,
           Store!CommitOrder, StoreProofs!CommitOrder
  <1>3. /\ Store!BeginPayment(e) <=> StoreProofs!BeginPayment(e)
        /\ Store!ReadPayment(e) <=> StoreProofs!ReadPayment(e)
        /\ Store!WritePayment(e) <=> StoreProofs!WritePayment(e)
        /\ Store!Approve(e) <=> StoreProofs!Approve(e)
        /\ Store!CommitPayment(e) <=> StoreProofs!CommitPayment(e)
    BY <1>0 DEF Store!BeginPayment, StoreProofs!BeginPayment, Store!ReadPayment,
           StoreProofs!ReadPayment, Store!WritePayment, StoreProofs!WritePayment,
           Store!Approve, StoreProofs!Approve, Store!CommitPayment,
           StoreProofs!CommitPayment
  <1>4. /\ Store!BeginInvoice(e) <=> StoreProofs!BeginInvoice(e)
        /\ Store!ReadInvoice(e) <=> StoreProofs!ReadInvoice(e)
        /\ Store!InsertInvoice(e) <=> StoreProofs!InsertInvoice(e)
        /\ Store!Bill(e) <=> StoreProofs!Bill(e)
        /\ Store!CommitInvoice(e) <=> StoreProofs!CommitInvoice(e)
        /\ Store!Rollback(e) <=> StoreProofs!Rollback(e)
    BY <1>0 DEF Store!BeginInvoice, StoreProofs!BeginInvoice, Store!ReadInvoice,
           StoreProofs!ReadInvoice, Store!InsertInvoice, StoreProofs!InsertInvoice,
           Store!Bill, StoreProofs!Bill, Store!CommitInvoice, StoreProofs!CommitInvoice,
           Store!Rollback, StoreProofs!Rollback
  <1>5. Store!Statement(e) <=> StoreProofs!Statement(e)
    BY <1>1, <1>2, <1>3, <1>4 DEF Store!Statement, StoreProofs!Statement
  <1> QED
    BY <1>1, <1>2, <1>3, <1>4, <1>5

LEMMA SameStore ==
    /\ Store!Init <=> StoreProofs!Init
    /\ Store!Next <=> StoreProofs!Next
    /\ UNCHANGED store <=> UNCHANGED StoreProofs!vars
  <1>1. Store!Init <=> StoreProofs!Init
    BY DEF Store!Init, StoreProofs!Init, Store!NoOrder, StoreProofs!NoOrder, Store!NONE,
           StoreProofs!NONE
  <1>2. Store!Next <=> StoreProofs!Next
    <2>1. \A n \in Numbers :
              Store!InvoiceAnotherOrder(n) <=> StoreProofs!InvoiceAnotherOrder(n)
      BY DEF Store!InvoiceAnotherOrder, StoreProofs!InvoiceAnotherOrder, Store!session,
         StoreProofs!session
    <2> QED
      BY <2>1, SameStatements DEF Store!Next, StoreProofs!Next
  <1>3. UNCHANGED store <=> UNCHANGED StoreProofs!vars
    BY DEF store, StoreProofs!vars, StoreProofs!database, StoreProofs!session
  <1> QED
    BY <1>1, <1>2, <1>3

LEMMA SameTableSteps ==
    ASSUME NEW r \in Rows
    PROVE  /\ Dispatch!Enqueue(r) <=> DispatchProofs!Enqueue(r)
           /\ Dispatch!BecomeDue(r) <=> DispatchProofs!BecomeDue(r)
           /\ Dispatch!BecomeStale(r) <=> DispatchProofs!BecomeStale(r)
  BY DEF Dispatch!Enqueue, DispatchProofs!Enqueue, Dispatch!BecomeDue,
         DispatchProofs!BecomeDue, Dispatch!BecomeStale, DispatchProofs!BecomeStale,
         Dispatch!loop, DispatchProofs!loop, Dispatch!erp, DispatchProofs!erp,
         Dispatch!InErp, DispatchProofs!InErp, Dispatch!InHand, DispatchProofs!InHand

LEMMA SameLoop ==
    ASSUME NEW w \in Workers
    PROVE  /\ Dispatch!BeginCycle(w) <=> DispatchProofs!BeginCycle(w)
           /\ Dispatch!ReleaseAbandoned(w) <=> DispatchProofs!ReleaseAbandoned(w)
           /\ Dispatch!EndBatch(w) <=> DispatchProofs!EndBatch(w)
           /\ Dispatch!Crash(w) <=> DispatchProofs!Crash(w)
  BY DEF Dispatch!BeginCycle, DispatchProofs!BeginCycle, Dispatch!ReleaseAbandoned,
         DispatchProofs!ReleaseAbandoned, Dispatch!EndBatch, DispatchProofs!EndBatch,
         Dispatch!Crash, DispatchProofs!Crash, Dispatch!table, DispatchProofs!table,
         Dispatch!erp, DispatchProofs!erp, Dispatch!Abandoned, DispatchProofs!Abandoned

LEMMA SameClaim ==
    ASSUME NEW w \in Workers
    PROVE  Dispatch!ClaimBatch(w) <=> DispatchProofs!ClaimBatch(w)
  <1>1. Dispatch!Claimable = DispatchProofs!Claimable
    BY DEF Dispatch!Claimable, DispatchProofs!Claimable
  <1>2. Dispatch!Batches = DispatchProofs!Batches
    BY <1>1, SameCardinality DEF Dispatch!Batches, DispatchProofs!Batches
  <1> QED
    BY <1>2 DEF Dispatch!ClaimBatch, DispatchProofs!ClaimBatch, Dispatch!erp, DispatchProofs!erp

LEMMA SameCoroutine ==
    ASSUME NEW w \in Workers, NEW i \in items[w]
    PROVE  /\ Dispatch!SendOrder(w, i) <=> DispatchProofs!SendOrder(w, i)
           /\ Dispatch!SendDuplicate(w, i) <=> DispatchProofs!SendDuplicate(w, i)
           /\ Dispatch!SendFails(w, i) <=> DispatchProofs!SendFails(w, i)
           /\ Dispatch!Timeout(w, i) <=> DispatchProofs!Timeout(w, i)
           /\ Dispatch!MarkSent(w, i) <=> DispatchProofs!MarkSent(w, i)
           /\ Dispatch!Reschedule(w, i) <=> DispatchProofs!Reschedule(w, i)
           /\ Dispatch!ToDeadLetter(w, i) <=> DispatchProofs!ToDeadLetter(w, i)
  BY DEF Dispatch!SendOrder, DispatchProofs!SendOrder, Dispatch!SendDuplicate,
         DispatchProofs!SendDuplicate, Dispatch!SendFails, DispatchProofs!SendFails,
         Dispatch!Timeout, DispatchProofs!Timeout, Dispatch!MarkSent,
         DispatchProofs!MarkSent, Dispatch!Reschedule, DispatchProofs!Reschedule,
         Dispatch!ToDeadLetter, DispatchProofs!ToDeadLetter, Dispatch!table,
         DispatchProofs!table, Dispatch!erp, DispatchProofs!erp, Dispatch!Update,
         DispatchProofs!Update, Dispatch!InPhase, DispatchProofs!InPhase,
         Dispatch!Advance, DispatchProofs!Advance, Dispatch!OkAnswers,
         DispatchProofs!OkAnswers, Dispatch!KnownKey, DispatchProofs!KnownKey,
         Dispatch!Pending, DispatchProofs!Pending, Dispatch!Finish,
         DispatchProofs!Finish, Dispatch!AttemptsExhausted,
         DispatchProofs!AttemptsExhausted

LEMMA SameAnswer ==
    ASSUME NEW q \in requests
    PROVE  /\ Dispatch!ErpBeginsToFail(q) <=> DispatchProofs!ErpBeginsToFail(q)
           /\ Dispatch!ErpAnswersError(q) <=> DispatchProofs!ErpAnswersError(q)
           /\ Dispatch!ErpRegisters(q) <=> DispatchProofs!ErpRegisters(q)
           /\ Dispatch!ErpRefuses(q) <=> DispatchProofs!ErpRefuses(q)
  BY DEF Dispatch!ErpBeginsToFail, DispatchProofs!ErpBeginsToFail,
         Dispatch!ErpAnswersError, DispatchProofs!ErpAnswersError,
         Dispatch!ErpRegisters, DispatchProofs!ErpRegisters, Dispatch!ErpRefuses,
         DispatchProofs!ErpRefuses, Dispatch!table, DispatchProofs!table, Dispatch!loop,
         DispatchProofs!loop, Dispatch!InPhase, DispatchProofs!InPhase,
         Dispatch!OkAnswers, DispatchProofs!OkAnswers, Dispatch!Pending,
         DispatchProofs!Pending, Dispatch!Deliver, DispatchProofs!Deliver,
         Dispatch!ServerErrorPhase, DispatchProofs!ServerErrorPhase

LEMMA SameWork ==
    /\ \A w \in Workers : Dispatch!Step(w) <=> DispatchProofs!Step(w)
    /\ Dispatch!ErpStep <=> DispatchProofs!ErpStep
  <1>1. ASSUME NEW w \in Workers PROVE Dispatch!Step(w) <=> DispatchProofs!Step(w)
    <2>1. Dispatch!Dispatch(w) <=> DispatchProofs!Dispatch(w)
      BY SameCoroutine DEF Dispatch!Dispatch, DispatchProofs!Dispatch
    <2> QED
      BY <2>1, SameLoop, SameClaim DEF Dispatch!Step, DispatchProofs!Step
  <1>2. Dispatch!ErpStep <=> DispatchProofs!ErpStep
    BY SameAnswer DEF Dispatch!ErpStep, DispatchProofs!ErpStep
  <1> QED
    BY <1>1, <1>2

LEMMA SameDispatch ==
    /\ Dispatch!Init <=> DispatchProofs!Init
    /\ UNCHANGED dispatch <=> UNCHANGED DispatchProofs!vars
  <1>1. Dispatch!Init <=> DispatchProofs!Init
    BY DEF Dispatch!Init, DispatchProofs!Init
  <1>2. UNCHANGED dispatch <=> UNCHANGED DispatchProofs!vars
    BY DEF dispatch, DispatchProofs!vars, DispatchProofs!table, DispatchProofs!loop,
       DispatchProofs!erp
  <1> QED
    BY <1>1, <1>2

(***************************************************************************)
(* The composition implements its parts.                                    *)
(***************************************************************************)

LEMMA StepOfParts ==
    ASSUME [Next]_vars
    PROVE  [Store!Next]_store /\ [Dispatch!Next]_dispatch
  <1>1. CASE UNCHANGED vars
    BY <1>1 DEF vars
  <1>2. CASE Ingest
    <2>1. Store!Next
      BY <1>2 DEF Ingest
    <2>2. UNCHANGED dispatch \/ \E r \in Rows : Dispatch!Enqueue(r)
      BY <1>2 DEF Ingest, Announce
    <2> QED
      BY <2>1, <2>2 DEF Dispatch!Next
  <1>3. CASE Deliver
    BY <1>3 DEF Deliver, Dispatch!Next
  <1> QED
    BY <1>1, <1>2, <1>3 DEF Next

\* Although the transactions and the dispatch share the outbox, neither disturbs the other:
\* every behaviour of the composition is one of the store and one of the dispatch
\* (payment_handler.py: _enqueue_erp_notification; outbox_reader.py).
THEOREM ImplementsItsParts == Spec => Store!Spec /\ Dispatch!Spec
  <1>1. Init => Store!Init /\ Dispatch!Init
    BY DEF Init
  <1>2. [Next]_vars => [Store!Next]_(Store!vars) /\ [Dispatch!Next]_(Dispatch!vars)
    BY StepOfParts DEF store, dispatch, Store!vars, Store!database, Store!session,
       Dispatch!vars, Dispatch!table, Dispatch!loop, Dispatch!erp
  <1> QED
    BY <1>1, <1>2, PTL DEF Spec, Store!Spec, Dispatch!Spec

\* What is proved of the parts holds of the composition.
LEMMA PartsKeepTheirInvariants ==
    Spec => /\ []StoreProofs!StoreInv
            /\ []DispatchProofs!DispatchInv
            /\ []DispatchProofs!AbsentInv
  <1>1. Init => StoreProofs!Init /\ DispatchProofs!Init
    BY SameStore, SameDispatch DEF Init
  <1>2. [Next]_vars => [StoreProofs!Next]_(StoreProofs!vars)
    BY StepOfParts, SameStore
  <1>3. [Next]_vars => [DispatchProofs!Next]_(DispatchProofs!vars)
    <2>1. Dispatch!Next <=> DispatchProofs!Next
      BY SameTableSteps, SameLoop, SameWork DEF Dispatch!Next, DispatchProofs!Next
    <2> QED
      BY <2>1, StepOfParts, SameDispatch
  <1>4. StoreProofs!Spec => []StoreProofs!StoreInv
    BY SameConstants, StoreProofs!StoreInvAlways
  <1>5. DispatchProofs!Spec => []DispatchProofs!DispatchInv
    BY SameConstants, DispatchProofs!DispatchInvAlways
  <1>6. DispatchProofs!Spec => []DispatchProofs!AbsentInv
    BY SameConstants, DispatchProofs!OnlyWrittenRowsAreSent
  <1> QED
    BY <1>1, <1>2, <1>3, <1>4, <1>5, <1>6, PTL
    DEF Spec, StoreProofs!Spec, DispatchProofs!Spec

(***************************************************************************)
(* Between the parts: the rows there are were written by commits.           *)
(***************************************************************************)

AnnouncedInv == \A r \in Rows : rowStatus[r] # "ABSENT" => r <= outbox

LEMMA InitAnnounced == Init => AnnouncedInv
  BY SameDispatch DEF Init, DispatchProofs!Init, AnnouncedInv

LEMMA NextAnnounced ==
    ASSUME StoreProofs!StoreInv, DispatchProofs!DispatchInv, DispatchProofs!AbsentInv,
           AnnouncedInv, [Next]_vars
    PROVE  AnnouncedInv'
  <1>1. outbox \in Nat /\ outbox' \in {outbox, outbox + 1}
    <2>1. [StoreProofs!Next]_(StoreProofs!vars)
      BY StepOfParts, SameStore
    <2>2. outbox \in Nat
      BY DEF StoreProofs!StoreInv, StoreProofs!TypeOK
    <2> QED
      BY <2>1, <2>2, SameConstants, StoreProofs!OneMessageAtATime
  <1>2. rowStatus \in [Rows -> DispatchProofs!Statuses] /\ Rows \subseteq Int
    BY ConstantsAssumption DEF ConstantsAssumption, Rows, DispatchProofs!DispatchInv,
       DispatchProofs!TypeOK
  <1>3. CASE UNCHANGED rowStatus
    BY <1>1, <1>2, <1>3 DEF AnnouncedInv
  <1>4. CASE outbox' \in Rows /\ Dispatch!Enqueue(outbox') /\ outbox' # outbox
    <2>1. /\ rowStatus' = [rowStatus EXCEPT ![outbox'] = "PENDING"]
          /\ outbox' = outbox + 1
      BY <1>1, <1>4 DEF Dispatch!Enqueue
    <2> QED
      BY <1>1, <1>2, <2>1 DEF AnnouncedInv
  <1>5. CASE Deliver
    <2>1. DispatchProofs!Work /\ outbox' = outbox
      BY <1>5, SameTableSteps, SameLoop, SameWork DEF Deliver, DispatchProofs!Work, store
    <2>2. \A r \in Rows : rowStatus[r] = "ABSENT" => rowStatus'[r] = "ABSENT"
      BY <2>1, SameConstants, DispatchProofs!WorkTouchesNoAbsentRow
      DEF DispatchProofs!DispatchInv
    <2> QED
      BY <2>1, <2>2 DEF AnnouncedInv
  <1> QED
    BY <1>3, <1>4, <1>5 DEF Next, Ingest, Announce, vars, dispatch

LEMMA AnnouncedAlways == Spec => []AnnouncedInv
  BY InitAnnounced, NextAnnounced, PartsKeepTheirInvariants, PTL DEF Spec

\* The ERP registers an order only after the transaction that approves it has committed, in
\* whatever order transactions, claims, retries, crashes and late requests come
\* (payment_handler.py: handle; dispatch_worker/main.py: _dispatch).
THEOREM ErpHearsOfApprovedOrdersOnly == Spec => []RegisteredWasApproved
  <1>1. ASSUME StoreProofs!StoreInv, DispatchProofs!DispatchInv, DispatchProofs!AbsentInv,
               AnnouncedInv
        PROVE  RegisteredWasApproved
    <2>1. SUFFICES ASSUME NEW r \in Rows, registrations[r] > 0 PROVE Approved
      BY DEF RegisteredWasApproved
    <2>2. rowStatus[r] # "ABSENT"
      BY <1>1, <2>1 DEF DispatchProofs!AbsentInv, DispatchProofs!Untouched
    <2>3. outbox \in Nat /\ r \in 1..MaxRows /\ r <= outbox
      BY <1>1, <2>2 DEF AnnouncedInv, Rows, StoreProofs!StoreInv, StoreProofs!TypeOK
    <2>4. outbox > 0
      BY <2>3, ConstantsAssumption DEF ConstantsAssumption
    <2> QED
      BY <1>1, <2>4 DEF StoreProofs!StoreInv, StoreProofs!Facts,
         StoreProofs!StatusHasItsFacts, Approved
  <1> QED
    BY <1>1, PartsKeepTheirInvariants, AnnouncedAlways, PTL

\* The ERP registers an order once, although the approval may be reported repeatedly,
\* workers die and requests or answers are lost, unless a transaction acted on a stale
\* status, a worker outlived its lock or the ERP answers after the retry
\* (payment_handler.py: handle; erp_mock/main.py: receive_order).
THEOREM ErpRegistersOnce ==
    ASSUME "slow" \notin Faults, "erp_slow" \notin Faults
    PROVE  Spec => []RegisteredOnceUnlessStale
  <1>1. ASSUME StoreProofs!StoreInv, DispatchProofs!DispatchInv, DispatchProofs!AbsentInv,
               DispatchProofs!RequestInv, AnnouncedInv
        PROVE  RegisteredOnceUnlessStale
    <2>1. SUFFICES ASSUME staleWrites = {}, NEW r \in Rows, NEW s \in Rows,
                          registrations[r] > 0, registrations[s] > 0
                   PROVE  r = s /\ registrations[r] = 1
      BY DEF RegisteredOnceUnlessStale
    <2>2. outbox \in Nat /\ outbox <= 1
      BY <1>1, <2>1 DEF StoreProofs!StoreInv, StoreProofs!TypeOK, StoreProofs!Facts
    <2>3. r <= outbox /\ s <= outbox
      BY <1>1, <2>1 DEF DispatchProofs!AbsentInv, DispatchProofs!Untouched, AnnouncedInv
    <2>4. r \in 1..MaxRows /\ s \in 1..MaxRows
      BY DEF Rows
    <2>5. r = s
      BY <2>2, <2>3, <2>4, ConstantsAssumption DEF ConstantsAssumption
    <2>6. registrations[r] \in {0, 1}
      BY <1>1 DEF DispatchProofs!RequestInv
    <2> QED
      BY <2>1, <2>5, <2>6
  <1>2. Spec => []DispatchProofs!RequestInv
    <2>1. Init => DispatchProofs!Init
      BY SameDispatch DEF Init
    <2>2. [Next]_vars => [DispatchProofs!Next]_(DispatchProofs!vars)
      BY StepOfParts, SameDispatch, SameTableSteps, SameLoop, SameWork
      DEF Dispatch!Next, DispatchProofs!Next
    <2>3. DispatchProofs!Spec => []DispatchProofs!RequestInv
      BY SameConstants, DispatchProofs!RequestInvAlways
    <2> QED
      BY <2>1, <2>2, <2>3, PTL DEF Spec, DispatchProofs!Spec
  <1> QED
    BY <1>1, <1>2, PartsKeepTheirInvariants, AnnouncedAlways, PTL
=============================================================================
