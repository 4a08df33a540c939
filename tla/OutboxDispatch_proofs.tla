----------------------- MODULE OutboxDispatch_proofs -----------------------
(***************************************************************************)
(* Proofs about OutboxDispatch for any workers, rows, batch sizes and       *)
(* limits.  For every set of faults, slow workers and a slow ERP included:  *)
(* its type invariant, that SENT means registered by the ERP, that nothing  *)
(* is given up early, and that a row is not sent before it is written.      *)
(*                                                                          *)
(* For workers that finish within STALE_LOCK_SECONDS, claims are exclusive  *)
(* and their number is bounded; if the ERP also answers before the retry,   *)
(* every step is a step of OutboxLifecycle.                                 *)
(***************************************************************************)
EXTENDS OutboxRefinement, TLAPS

\* What a coroutine believes is true: the ERP acknowledged or refused the order,
\* and the row has been claimed at least as often as the coroutine thinks.
Justified(i) ==
    /\ i.phase = "ok" => i.row \in acknowledged
    /\ i.phase = "permanent" => i.row \in refused
    /\ i.attempts <= attempts[i.row]

ItemsJustified == \A w \in Workers : \A i \in items[w] : Justified(i)

\* The properties of the rows hold because the table is written only from what
\* a coroutine believes.
DispatchInv ==
    /\ TypeOK
    /\ ItemsJustified
    /\ SentWasRegistered
    /\ NoEarlyDeadLetter

USE ConstantsAssumption

\* The fields of an item, and what a change of phase leaves alone.
LEMMA ItemFields ==
    /\ \A i \in Item : i.row \in Rows /\ i.attempts \in Nat /\ i.phase \in Phases
    /\ \A i \in Item, p \in Phases :
        /\ InPhase(i, p) \in Item
        /\ InPhase(i, p).row = i.row
        /\ InPhase(i, p).attempts = i.attempts
        /\ InPhase(i, p).phase = p
  BY DEF Item, InPhase

LEMMA InitDispatchInv == Init => DispatchInv
  BY DEF Init, DispatchInv, TypeOK, Statuses, ItemsJustified, SentWasRegistered,
     NoEarlyDeadLetter

\* Steps that give nobody a new item and take no knowledge away keep the
\* items justified.
LEMMA FewerItems ==
    ASSUME DispatchInv,
           \A w \in Workers : items'[w] \subseteq items[w],
           \A r \in Rows : attempts'[r] \in Nat /\ attempts'[r] >= attempts[r],
           acknowledged \subseteq acknowledged', refused \subseteq refused'
    PROVE  ItemsJustified'
  <1> SUFFICES ASSUME NEW w \in Workers, NEW i \in items[w] PROVE Justified(i)'
    BY DEF ItemsJustified
  <1>1. i \in Item /\ Justified(i)
    BY DEF DispatchInv, TypeOK, ItemsJustified
  <1>2. i.row \in Rows /\ i.attempts \in Nat /\ attempts[i.row] \in Nat
    BY <1>1, ItemFields DEF DispatchInv, TypeOK
  <1> QED
    BY <1>1, <1>2 DEF Justified

\* A row that gets a status other than SENT and DLQ, or keeps its own, harms
\* no property of the rows.
LEMMA RowsKeepTheirStatus ==
    ASSUME DispatchInv,
           \A r \in Rows : status'[r] \in {status[r], "PENDING", "IN_FLIGHT"},
           \A r \in Rows : attempts'[r] \in Nat /\ attempts'[r] >= attempts[r],
           acknowledged \subseteq acknowledged', refused \subseteq refused'
    PROVE  (SentWasRegistered /\ NoEarlyDeadLetter)'
  <1>1. \A r \in Rows : attempts[r] \in Nat
    BY DEF DispatchInv, TypeOK
  <1> QED
    BY <1>1 DEF DispatchInv, SentWasRegistered, NoEarlyDeadLetter

\* The row is written, becomes due, or its lock grows old.
LEMMA TableStep ==
    ASSUME DispatchInv, NEW r \in Rows, Enqueue(r) \/ BecomeDue(r) \/ BecomeStale(r)
    PROVE  DispatchInv'
  <1>1. TypeOK'
    BY DEF DispatchInv, TypeOK, Statuses, Enqueue, BecomeDue, BecomeStale, loop, erp
  <1>2. /\ \A x \in Rows : status'[x] \in {status[x], "PENDING", "IN_FLIGHT"}
        /\ UNCHANGED <<attempts, items, acknowledged, refused>>
    BY DEF DispatchInv, TypeOK, Enqueue, BecomeDue, BecomeStale, loop, erp
  <1>3. \A x \in Rows : attempts[x] \in Nat
    BY DEF DispatchInv, TypeOK
  <1> QED
    BY <1>1, <1>2, <1>3, FewerItems, RowsKeepTheirStatus DEF DispatchInv

\* The loop turns, frees abandoned rows, ends a batch, or dies.
LEMMA LoopStep ==
    ASSUME DispatchInv, NEW w \in Workers,
           BeginCycle(w) \/ ReleaseAbandoned(w) \/ EndBatch(w) \/ Crash(w)
    PROVE  DispatchInv'
  <1>1. TypeOK'
    <2>1. CASE BeginCycle(w)
      BY <2>1 DEF DispatchInv, TypeOK, BeginCycle, table, erp
    <2>2. CASE ReleaseAbandoned(w)
      BY <2>2 DEF DispatchInv, TypeOK, Statuses, ReleaseAbandoned, Abandoned, erp
    <2>3. CASE EndBatch(w)
      BY <2>3 DEF DispatchInv, TypeOK, EndBatch, table, erp
    <2>4. CASE Crash(w)
      BY <2>4 DEF DispatchInv, TypeOK, Crash, table, erp
    <2> QED
      BY <2>1, <2>2, <2>3, <2>4
  <1>2. /\ \A r \in Rows : status'[r] \in {status[r], "PENDING"}
        /\ \A v \in Workers : items'[v] \subseteq items[v]
        /\ UNCHANGED <<attempts, acknowledged, refused>>
    BY DEF DispatchInv, TypeOK, BeginCycle, ReleaseAbandoned, EndBatch, Crash, table, erp
  <1>3. \A r \in Rows : attempts[r] \in Nat
    BY DEF DispatchInv, TypeOK
  <1> QED
    BY <1>1, <1>2, <1>3, FewerItems, RowsKeepTheirStatus DEF DispatchInv

\* A claim hands out items that know the number of attempts it has written.
LEMMA ClaimStep ==
    ASSUME DispatchInv, NEW w \in Workers, ClaimBatch(w)
    PROVE  DispatchInv'
  <1>1. PICK S \in Batches :
            /\ status' = [r \in Rows |-> IF r \in S THEN "IN_FLIGHT" ELSE status[r]]
            /\ attempts' = [r \in Rows |-> IF r \in S THEN attempts[r] + 1 ELSE attempts[r]]
            /\ stale' = stale \ S
            /\ items' = [items EXCEPT ![w] =
                {[row |-> r, attempts |-> attempts[r] + 1, phase |-> "send"] : r \in S}]
            /\ pc' = [pc EXCEPT ![w] = IF S = {} THEN "poll" ELSE "gather"]
    BY DEF ClaimBatch
  <1>2. UNCHANGED <<due, cycle, requests, acknowledged, registrations, refused, crashes>>
    BY DEF ClaimBatch, erp
  <1>3. S \subseteq Rows /\ \A r \in Rows : attempts[r] \in Nat
    BY DEF Batches, Claimable, DispatchInv, TypeOK
  <1> DEFINE claimed == {[row |-> r, attempts |-> attempts[r] + 1, phase |-> "send"] : r \in S}
  <1>4. claimed \subseteq Item
    BY <1>3 DEF Item, Phases
  <1>5. \A r \in Rows : attempts'[r] \in Nat /\ attempts'[r] >= attempts[r]
    BY <1>1, <1>3
  <1>6. TypeOK'
    <2>1. status' \in [Rows -> Statuses] /\ stale' \subseteq {r \in Rows : status'[r] = "IN_FLIGHT"}
      BY <1>1 DEF DispatchInv, TypeOK, Statuses
    <2>2. attempts' \in [Rows -> Nat]
      BY <1>1, <1>3
    <2>3. items' \in [Workers -> SUBSET Item]
      BY <1>1, <1>4 DEF DispatchInv, TypeOK
    <2>4. pc' \in [Workers -> {"poll", "claim", "gather"}]
      BY <1>1 DEF DispatchInv, TypeOK
    <2> QED
      BY <2>1, <2>2, <2>3, <2>4, <1>2 DEF DispatchInv, TypeOK
  <1>7. ItemsJustified'
    <2> SUFFICES ASSUME NEW v \in Workers, NEW i \in items'[v] PROVE Justified(i)'
      BY DEF ItemsJustified
    <2>1. CASE i \in items[v]
      <3>1. i \in Item /\ Justified(i)
        BY <2>1 DEF DispatchInv, TypeOK, ItemsJustified
      <3>2. i.row \in Rows /\ i.attempts \in Nat
        BY <3>1, ItemFields
      <3> QED
        BY <3>1, <3>2, <1>2, <1>3, <1>5 DEF Justified
    <2>2. CASE i \in claimed
      BY <2>2, <1>1, <1>3 DEF Justified
    <2> QED
      BY <2>1, <2>2, <1>1 DEF DispatchInv, TypeOK
  <1>8. (SentWasRegistered /\ NoEarlyDeadLetter)'
    BY <1>1, <1>2, <1>5, RowsKeepTheirStatus DEF DispatchInv, TypeOK
  <1> QED
    BY <1>6, <1>7, <1>8 DEF DispatchInv

\* One coroutine enters phase p; p says no more than the ERP knows.
LEMMA AdvanceStep ==
    ASSUME DispatchInv, NEW w \in Workers, NEW i \in items[w], NEW p \in Phases,
           Advance(w, i, p),
           p = "ok" => i.row \in acknowledged, p # "permanent",
           UNCHANGED <<table, pc, cycle, acknowledged, registrations, refused, crashes>>,
           requests' \subseteq Request
    PROVE  DispatchInv'
  <1>1. i \in Item /\ Justified(i) /\ InPhase(i, p) \in Item
    BY ItemFields DEF DispatchInv, TypeOK, ItemsJustified
  <1>2. items' = [items EXCEPT ![w] = (@ \ {i}) \cup {InPhase(i, p)}]
    BY DEF Advance
  <1>3. TypeOK'
    <2>1. items' \in [Workers -> SUBSET Item]
      BY <1>1, <1>2 DEF DispatchInv, TypeOK
    <2> QED
      BY <2>1 DEF DispatchInv, TypeOK, table
  <1>4. Justified(InPhase(i, p))'
    BY <1>1, ItemFields DEF Justified, table
  <1>5. ItemsJustified'
    <2> SUFFICES ASSUME NEW v \in Workers, NEW j \in items'[v] PROVE Justified(j)'
      BY DEF ItemsJustified
    <2>1. j \in items[v] \/ j = InPhase(i, p)
      BY <1>2 DEF DispatchInv, TypeOK
    <2>2. CASE j \in items[v]
      BY <2>2 DEF DispatchInv, ItemsJustified, Justified, table
    <2>3. CASE j = InPhase(i, p)
      BY <2>3, <1>4
    <2> QED
      BY <2>1, <2>2, <2>3
  <1>6. (SentWasRegistered /\ NoEarlyDeadLetter)'
    BY DEF DispatchInv, SentWasRegistered, NoEarlyDeadLetter, table
  <1> QED
    BY <1>3, <1>5, <1>6 DEF DispatchInv

LEMMA SendStep ==
    ASSUME DispatchInv, NEW w \in Workers, NEW i \in items[w],
           SendOrder(w, i) \/ SendDuplicate(w, i) \/ SendFails(w, i) \/ Timeout(w, i)
    PROVE  DispatchInv'
  <1>1. i \in Item /\ i.row \in Rows /\ i.attempts \in Nat /\ requests \subseteq Request
    BY ItemFields DEF DispatchInv, TypeOK
  <1>2. CASE SendOrder(w, i)
    <2>1. [row |-> i.row, attempts |-> i.attempts, stage |-> "latency"] \in Request
      BY <1>1 DEF Request
    <2> QED
      BY <1>1, <1>2, <2>1, AdvanceStep DEF SendOrder, Phases
  <1>3. CASE SendDuplicate(w, i)
    <2>1. PICK answer \in OkAnswers : Advance(w, i, answer)
      BY <1>3 DEF SendDuplicate
    <2>2. answer \in Phases /\ answer # "permanent"
      BY DEF OkAnswers, Phases
    <2> QED
      BY <1>1, <1>3, <2>1, <2>2, AdvanceStep DEF SendDuplicate, KnownKey, erp
  <1>4. CASE SendFails(w, i)
    BY <1>1, <1>4, AdvanceStep DEF SendFails, Phases, erp
  <1>5. CASE Timeout(w, i)
    BY <1>1, <1>5, AdvanceStep DEF Timeout, Phases, erp
  <1> QED
    BY <1>2, <1>3, <1>4, <1>5

\* The ERP's answer p to the request q reaches the coroutines that wait for it;
\* it says no more than the ERP knows by then.
LEMMA DeliverStep ==
    ASSUME DispatchInv, NEW q \in requests, NEW p \in Phases, Deliver(q, p),
           p = "ok" => q.row \in acknowledged', p = "permanent" => q.row \in refused',
           UNCHANGED <<table, pc, cycle, crashes>>, requests' = requests \ {q},
           acknowledged' \in {acknowledged, acknowledged \cup {q.row}},
           refused' \in {refused, refused \cup {q.row}},
           registrations' \in {registrations, [registrations EXCEPT ![q.row] = @ + 1]}
    PROVE  DispatchInv'
  <1>1. q \in Request /\ q.row \in Rows
    BY DEF DispatchInv, TypeOK, Request
  <1>2. ASSUME NEW w \in Workers, NEW j \in items'[w]
        PROVE  \E i \in items[w] : \/ j = i
                                   \/ Pending(i, q) /\ j = InPhase(i, p)
    BY <1>2 DEF Deliver
  <1>3. ASSUME NEW w \in Workers, NEW j \in items'[w] PROVE j \in Item /\ Justified(j)'
    <2>1. PICK i \in items[w] : \/ j = i
                                \/ Pending(i, q) /\ j = InPhase(i, p)
      BY <1>3, <1>2
    <2>2. i \in Item /\ Justified(i)
      BY DEF DispatchInv, TypeOK, ItemsJustified
    <2>3. CASE j = i
      BY <2>2, <2>3 DEF Justified, table
    <2>4. CASE Pending(i, q) /\ j = InPhase(i, p)
      BY <2>2, <2>4, ItemFields DEF Justified, Pending, table
    <2> QED
      BY <2>1, <2>3, <2>4
  <1>4. TypeOK'
    <2>1. items' \in [Workers -> SUBSET Item]
      <3>1. items' = [w \in Workers |-> items'[w]]
        BY DEF Deliver
      <3>2. \A w \in Workers : items'[w] \subseteq Item
        BY <1>3
      <3> QED
        BY <3>1, <3>2
    <2>2. registrations' \in [Rows -> Nat]
      BY <1>1 DEF DispatchInv, TypeOK
    <2> QED
      BY <1>1, <2>1, <2>2 DEF DispatchInv, TypeOK, table
  <1>5. ItemsJustified'
    BY <1>3 DEF ItemsJustified
  <1>6. (SentWasRegistered /\ NoEarlyDeadLetter)'
    BY DEF DispatchInv, SentWasRegistered, NoEarlyDeadLetter, table
  <1> QED
    BY <1>4, <1>5, <1>6 DEF DispatchInv

LEMMA ErpAnswer ==
    ASSUME DispatchInv, ErpStep
    PROVE  DispatchInv'
  <1>1. PICK q \in requests :
            ErpBeginsToFail(q) \/ ErpAnswersError(q) \/ ErpRegisters(q) \/ ErpRefuses(q)
    BY DEF ErpStep
  <1>2. q \in Request
    BY DEF DispatchInv, TypeOK
  <1>3. CASE ErpBeginsToFail(q)
    <2>1. requests' \subseteq Request
      BY <1>2, <1>3 DEF ErpBeginsToFail, DispatchInv, TypeOK, Request
    <2>2. UNCHANGED <<status, attempts, due, stale, pc, cycle, items, acknowledged,
                      registrations, refused, crashes>>
      BY <1>3 DEF ErpBeginsToFail, table, loop
    <2> QED
      BY <2>1, <2>2 DEF DispatchInv, TypeOK, ItemsJustified, Justified,
         SentWasRegistered, NoEarlyDeadLetter
  <1>4. CASE ErpAnswersError(q)
    BY <1>4, DeliverStep DEF ErpAnswersError, ServerErrorPhase, Phases
  <1>5. CASE ErpRegisters(q)
    <2>1. PICK answer \in OkAnswers : Deliver(q, answer)
      BY <1>5 DEF ErpRegisters
    <2>2. answer \in Phases /\ answer # "permanent"
      BY DEF OkAnswers, Phases
    <2> QED
      BY <1>5, <2>1, <2>2, DeliverStep DEF ErpRegisters
  <1>6. CASE ErpRefuses(q)
    BY <1>6, DeliverStep DEF ErpRefuses, Phases
  <1> QED
    BY <1>1, <1>3, <1>4, <1>5, <1>6

\* The coroutine writes what it believes, and that is justified.
LEMMA RecordStep ==
    ASSUME DispatchInv, NEW w \in Workers, NEW i \in items[w],
           MarkSent(w, i) \/ Reschedule(w, i) \/ ToDeadLetter(w, i)
    PROVE  DispatchInv'
  <1>1. i \in Item /\ i.row \in Rows /\ i.attempts \in Nat /\ Justified(i)
    BY ItemFields DEF DispatchInv, TypeOK, ItemsJustified
  <1>2. PICK new \in {"SENT", "PENDING", "DLQ"} :
            /\ Update(i.row, new)
            /\ new = "SENT" => i.phase = "ok"
            /\ new = "DLQ" => i.phase = "permanent" \/ AttemptsExhausted(i)
    BY DEF MarkSent, Reschedule, ToDeadLetter
  <1>3. /\ Finish(w, i) /\ due' \subseteq due
        /\ UNCHANGED <<attempts, pc, cycle, requests, acknowledged, registrations, refused,
                       crashes>>
    BY DEF MarkSent, Reschedule, ToDeadLetter, erp
  <1>4. TypeOK'
    <2>1. items' \in [Workers -> SUBSET Item]
      BY <1>3 DEF Finish, DispatchInv, TypeOK
    <2>2. /\ status' \in [Rows -> Statuses]
          /\ stale' \subseteq {r \in Rows : status'[r] = "IN_FLIGHT"}
      BY <1>1, <1>2 DEF Update, DispatchInv, TypeOK, Statuses
    <2> QED
      BY <1>3, <2>1, <2>2 DEF DispatchInv, TypeOK
  <1>5. \A r \in Rows : attempts[r] \in Nat
    BY DEF DispatchInv, TypeOK
  <1>6. ItemsJustified'
    <2>1. \A v \in Workers : items'[v] \subseteq items[v]
      BY <1>3 DEF Finish, DispatchInv, TypeOK
    <2> QED
      BY <1>3, <1>5, <2>1, FewerItems
  <1>7. ASSUME NEW r \in Rows
        PROVE  /\ status'[r] = "SENT" => r \in acknowledged
               /\ status'[r] = "DLQ" => attempts[r] >= MaxAttempts \/ r \in refused
    <2>1. CASE r = i.row
      <3>1. status'[r] = new
        BY <1>2, <2>1 DEF Update, DispatchInv, TypeOK
      <3> QED
        BY <1>1, <1>2, <1>5, <2>1, <3>1 DEF Justified, AttemptsExhausted
    <2>2. CASE r # i.row
      <3>1. status'[r] = status[r]
        BY <1>2, <2>2 DEF Update, DispatchInv, TypeOK
      <3> QED
        BY <3>1 DEF DispatchInv, SentWasRegistered, NoEarlyDeadLetter
    <2> QED
      BY <2>1, <2>2
  <1>8. (SentWasRegistered /\ NoEarlyDeadLetter)'
    BY <1>3, <1>7 DEF SentWasRegistered, NoEarlyDeadLetter
  <1> QED
    BY <1>4, <1>6, <1>8 DEF DispatchInv

LEMMA NextDispatchInv == DispatchInv /\ [Next]_vars => DispatchInv'
  <1> SUFFICES ASSUME DispatchInv, [Next]_vars PROVE DispatchInv'
    OBVIOUS
  <1>1. ASSUME NEW r \in Rows, Enqueue(r) \/ BecomeDue(r) \/ BecomeStale(r)
        PROVE  DispatchInv'
    BY <1>1, TableStep
  <1>2. ASSUME NEW w \in Workers, Step(w) \/ Crash(w) PROVE DispatchInv'
    BY <1>2, LoopStep, ClaimStep, SendStep, RecordStep DEF Step, Dispatch
  <1>3. ASSUME ErpStep PROVE DispatchInv'
    BY <1>3, ErpAnswer
  <1>4. CASE UNCHANGED vars
    <2>1. UNCHANGED <<status, attempts, due, stale, pc, cycle, items>>
      BY <1>4 DEF vars, table, loop
    <2>2. UNCHANGED <<requests, acknowledged, registrations, refused, crashes>>
      BY <1>4 DEF vars, erp
    <2> QED
      BY <2>1, <2>2 DEF DispatchInv, TypeOK, ItemsJustified, Justified,
         SentWasRegistered, NoEarlyDeadLetter
  <1> QED
    BY <1>1, <1>2, <1>3, <1>4 DEF Next

LEMMA DispatchInvAlways == Spec => []DispatchInv
  BY InitDispatchInv, NextDispatchInv, PTL DEF Spec

\* The variables keep their types and a lock is stale only while it is held,
\* whatever the workers and the faults (outbox_reader.py: claim, release).
THEOREM TypeCorrect == Spec => []TypeOK
  <1>1. DispatchInv => TypeOK
    BY DEF DispatchInv
  <1> QED
    BY <1>1, DispatchInvAlways, PTL

\* A row is SENT only if the ERP registered its order, under lost answers, late
\* coroutines, crashes and a slow ERP (dispatch_worker/main.py: _dispatch).
THEOREM SentMeansRegistered == Spec => []SentWasRegistered
  <1>1. DispatchInv => SentWasRegistered
    BY DEF DispatchInv
  <1> QED
    BY <1>1, DispatchInvAlways, PTL

\* A row is in the DLQ only after MaxAttempts claims or a permanent refusal of
\* the ERP, also when slow workers write late (dispatch_worker/main.py:
\* _reschedule, _to_dead_letter).
THEOREM GivenUpOnlyWhenExhausted == Spec => []NoEarlyDeadLetter
  <1>1. DispatchInv => NoEarlyDeadLetter
    BY DEF DispatchInv
  <1> QED
    BY <1>1, DispatchInvAlways, PTL


(***************************************************************************)
(* A row that is not written has no part in anything.                       *)
(***************************************************************************)

\* What moves without the transactions that write rows.
Work ==
    \/ \E r \in Rows : BecomeDue(r) \/ BecomeStale(r)
    \/ \E w \in Workers : Step(w) \/ Crash(w)
    \/ ErpStep

Untouched(r) ==
    /\ \A w \in Workers : \A i \in items[w] : i.row # r
    /\ \A q \in requests : q.row # r
    /\ registrations[r] = 0

AbsentInv == \A r \in Rows : status[r] = "ABSENT" => Untouched(r)

LEMMA InitAbsentInv == Init => AbsentInv
  BY DEF Init, AbsentInv, Untouched

\* The rows in the hands of the workers and of the ERP are rows they had before or rows
\* just claimed.
LEMMA WorkTouchesNoAbsentRow ==
    ASSUME TypeOK, AbsentInv, Work, NEW r \in Rows, status[r] = "ABSENT"
    PROVE  status'[r] = "ABSENT" /\ Untouched(r)'
  <1>1. Untouched(r)
    BY DEF AbsentInv
  <1>2. CASE \E x \in Rows : BecomeDue(x) \/ BecomeStale(x)
    BY <1>1, <1>2 DEF BecomeDue, BecomeStale, Untouched, loop, erp
  <1>3. ASSUME NEW w \in Workers, Crash(w) PROVE status'[r] = "ABSENT" /\ Untouched(r)'
    BY <1>1, <1>3 DEF Crash, Untouched, table, erp, TypeOK
  <1>4. ASSUME NEW w \in Workers, BeginCycle(w) \/ ReleaseAbandoned(w) \/ EndBatch(w)
        PROVE  status'[r] = "ABSENT" /\ Untouched(r)'
    BY <1>1, <1>4 DEF BeginCycle, ReleaseAbandoned, EndBatch, Abandoned, Untouched, table,
       erp, TypeOK
  <1>5. ASSUME NEW w \in Workers, ClaimBatch(w) PROVE status'[r] = "ABSENT" /\ Untouched(r)'
    <2>1. PICK S \in Batches :
            /\ status' = [x \in Rows |-> IF x \in S THEN "IN_FLIGHT" ELSE status[x]]
            /\ items' = [items EXCEPT ![w] =
                {[row |-> x, attempts |-> attempts[x] + 1, phase |-> "send"] : x \in S}]
      BY <1>5 DEF ClaimBatch
    <2>2. UNCHANGED erp
      BY <1>5 DEF ClaimBatch
    <2>3. r \notin S
      BY DEF Batches, Claimable
    <2>4. \A v \in Workers : \A i \in items'[v] : i.row # r
      BY <1>1, <2>1, <2>3 DEF Untouched, TypeOK
    <2> QED
      BY <1>1, <2>1, <2>2, <2>3, <2>4 DEF Untouched, erp
  <1>6. ASSUME NEW w \in Workers, NEW i \in items[w], NEW phase \in Phases,
               Advance(w, i, phase)
        PROVE  \A v \in Workers : \A j \in items'[v] : j.row # r
    <2>1. i \in Item /\ i.row # r
      BY <1>1 DEF Untouched, TypeOK
    <2>2. InPhase(i, phase).row # r
      BY <2>1, ItemFields
    <2> QED
      BY <1>1, <1>6, <2>2 DEF Advance, Untouched, TypeOK
  <1>7. ASSUME NEW w \in Workers, NEW i \in items[w],
               SendOrder(w, i) \/ SendDuplicate(w, i) \/ SendFails(w, i) \/ Timeout(w, i)
        PROVE  status'[r] = "ABSENT" /\ Untouched(r)'
    <2>1. \E phase \in Phases : Advance(w, i, phase)
      BY <1>7 DEF SendOrder, SendDuplicate, SendFails, Timeout, OkAnswers, Phases
    <2>2. \A v \in Workers : \A j \in items'[v] : j.row # r
      BY <1>6, <2>1
    <2>3. i.row # r
      BY <1>1 DEF Untouched
    <2>4. /\ status' = status /\ registrations' = registrations
          /\ requests' \subseteq requests \cup
                {[row |-> i.row, attempts |-> i.attempts, stage |-> "latency"]}
      BY <1>7 DEF SendOrder, SendDuplicate, SendFails, Timeout, table, erp
    <2> QED
      BY <1>1, <2>2, <2>3, <2>4 DEF Untouched
  <1>8. ASSUME NEW w \in Workers, NEW i \in items[w],
               MarkSent(w, i) \/ Reschedule(w, i) \/ ToDeadLetter(w, i)
        PROVE  status'[r] = "ABSENT" /\ Untouched(r)'
    <2>1. i.row # r
      BY <1>1 DEF Untouched
    <2>2. Finish(w, i) /\ UNCHANGED erp /\ \E new \in Statuses : Update(i.row, new)
      BY <1>8 DEF MarkSent, Reschedule, ToDeadLetter, Statuses
    <2>3. status'[r] = status[r]
      BY <2>1, <2>2 DEF Update, TypeOK
    <2>4. \A v \in Workers : \A j \in items'[v] : j.row # r
      BY <1>1, <2>2 DEF Finish, Untouched, TypeOK
    <2> QED
      BY <1>1, <2>2, <2>3, <2>4 DEF Untouched, erp
  <1>9. ASSUME NEW q \in requests, NEW phase \in Phases, Deliver(q, phase)
        PROVE  \A v \in Workers : \A j \in items'[v] : j.row # r
    <2>1. ASSUME NEW v \in Workers, NEW j \in items'[v] PROVE j.row # r
      <3>1. PICK i \in items[v] : j = i \/ j = InPhase(i, phase)
        BY <1>9 DEF Deliver
      <3>2. i \in Item /\ i.row # r
        BY <1>1 DEF Untouched, TypeOK
      <3> QED
        BY <3>1, <3>2, ItemFields
    <2> QED
      BY <2>1
  <1>10. CASE ErpStep
    <2>1. PICK q \in requests :
            ErpBeginsToFail(q) \/ ErpAnswersError(q) \/ ErpRegisters(q) \/ ErpRefuses(q)
      BY <1>10 DEF ErpStep
    <2>2. q \in Request /\ q.row # r
      BY <1>1 DEF Untouched, TypeOK
    <2>3. \/ UNCHANGED items
          \/ \E phase \in Phases : Deliver(q, phase)
      BY <2>1 DEF ErpBeginsToFail, ErpAnswersError, ErpRegisters, ErpRefuses, loop,
         ServerErrorPhase, OkAnswers, Phases
    <2>4. \A v \in Workers : \A j \in items'[v] : j.row # r
      BY <1>1, <1>9, <2>3 DEF Untouched
    <2>5. /\ status' = status
          /\ requests' \subseteq requests \cup {[q EXCEPT !.stage = "failing"]}
          /\ registrations' \in {registrations, [registrations EXCEPT ![q.row] = @ + 1]}
      BY <2>1 DEF ErpBeginsToFail, ErpAnswersError, ErpRegisters, ErpRefuses, table
    <2>6. [q EXCEPT !.stage = "failing"].row # r
      BY <2>2 DEF Request
    <2>7. registrations'[r] = registrations[r]
      BY <2>2, <2>5 DEF TypeOK
    <2> QED
      BY <1>1, <2>4, <2>5, <2>6, <2>7 DEF Untouched
  <1> QED
    BY <1>2, <1>3, <1>4, <1>5, <1>7, <1>8, <1>10 DEF Work, Step, Dispatch

\* Nobody unwrites a row.
LEMMA WorkKeepsRows ==
    ASSUME TypeOK, Work, NEW r \in Rows, status[r] # "ABSENT"
    PROVE  status'[r] # "ABSENT"
  <1>1. CASE \E x \in Rows : BecomeDue(x) \/ BecomeStale(x)
    BY <1>1 DEF BecomeDue, BecomeStale
  <1>2. ASSUME NEW w \in Workers,
               BeginCycle(w) \/ ReleaseAbandoned(w) \/ ClaimBatch(w) \/ EndBatch(w) \/ Crash(w)
        PROVE  status'[r] # "ABSENT"
    BY <1>2 DEF BeginCycle, ReleaseAbandoned, ClaimBatch, EndBatch, Crash, table
  <1>3. ASSUME NEW w \in Workers, NEW i \in items[w],
               SendOrder(w, i) \/ SendDuplicate(w, i) \/ SendFails(w, i) \/ Timeout(w, i)
        PROVE  status'[r] # "ABSENT"
    BY <1>3 DEF SendOrder, SendDuplicate, SendFails, Timeout, table
  <1>4. ASSUME NEW w \in Workers, NEW i \in items[w],
               MarkSent(w, i) \/ Reschedule(w, i) \/ ToDeadLetter(w, i)
        PROVE  status'[r] # "ABSENT"
    <2>1. \E new \in {"SENT", "PENDING", "DLQ"} : Update(i.row, new)
      BY <1>4 DEF MarkSent, Reschedule, ToDeadLetter
    <2> QED
      BY <2>1 DEF Update, TypeOK
  <1>5. CASE ErpStep
    BY <1>5 DEF ErpStep, ErpBeginsToFail, ErpAnswersError, ErpRegisters, ErpRefuses, table
  <1> QED
    BY <1>1, <1>2, <1>3, <1>4, <1>5 DEF Work, Step, Dispatch

\* A step is work, or writes one row.
LEMMA WorkOrEnqueue ==
    Next => Work \/ \E r \in Rows : Enqueue(r)
  BY DEF Next, Work

LEMMA NextAbsentInv == TypeOK /\ AbsentInv /\ [Next]_vars => AbsentInv'
  <1> SUFFICES ASSUME TypeOK, AbsentInv, [Next]_vars,
                      NEW r \in Rows, status'[r] = "ABSENT"
               PROVE  Untouched(r)'
    BY DEF AbsentInv
  <1>1. CASE UNCHANGED vars
    BY <1>1 DEF vars, table, loop, erp, AbsentInv, Untouched
  <1>2. CASE Work
    <2>1. CASE status[r] = "ABSENT"
      BY <1>2, <2>1, WorkTouchesNoAbsentRow
    <2>2. CASE status[r] # "ABSENT"
      <3>1. status'[r] # "ABSENT"
        BY <1>2, <2>2, WorkKeepsRows
      <3> QED
        BY <3>1
    <2> QED
      BY <2>1, <2>2
  <1>3. CASE \E x \in Rows : Enqueue(x)
    BY <1>3 DEF Enqueue, TypeOK, loop, erp, AbsentInv, Untouched
  <1> QED
    BY <1>1, <1>2, <1>3, WorkOrEnqueue

\* No row is written by whoever dispatches the others, and one that is not written was
\* never sent to the ERP, whatever fails (dispatch_worker/outbox_reader.py: claim).
THEOREM OnlyWrittenRowsAreSent == Spec => []AbsentInv
  <1>1. DispatchInv => TypeOK
    BY DEF DispatchInv
  <1> QED
    BY <1>1, InitAbsentInv, NextAbsentInv, DispatchInvAlways, PTL DEF Spec

\* A lock grows stale only when its row is in nobody's hands.
StaleIsNotHeld == \A r \in stale : ~InHand(r)

\* A row that may be claimed again, now or after its lock is released, has an attempt
\* left or owes the last one to a crash.
AttemptsLeft ==
    \A r \in Rows :
        /\ attempts[r] <= MaxAttempts + crashes
        /\ status[r] = "ABSENT" => attempts[r] = 0
        /\ status[r] = "PENDING" \/ (status[r] = "IN_FLIGHT" /\ ~InHand(r))
            => attempts[r] < MaxAttempts + crashes

\* A worker that does not wait for gather() has no rows in hand.
IdleHoldsNothing == \A w \in Workers : pc[w] # "gather" => items[w] = {}

ClaimInv ==
    /\ ExclusiveClaim
    /\ IdleHoldsNothing
    /\ StaleIsNotHeld
    /\ AttemptsLeft

\* At most one request of a row is on its way to be registered, and none while the
\* row can be claimed, released or sent again.
RequestInv ==
    /\ \A r \in Rows : registrations[r] = IF r \in acknowledged THEN 1 ELSE 0
    /\ \A q \in requests : q.stage = "latency" =>
        /\ q.row \notin acknowledged
        /\ attempts[q.row] > 0
        /\ \A p \in requests : p.stage = "latency" /\ p.row = q.row => p = q
    /\ \A r \in stale : ~InErp(r)
    /\ \A r \in due : status[r] = "PENDING" => ~InErp(r)
    /\ \A w \in Workers : \A i \in items[w] : i.phase = "send" => i.attempts > 0 /\ ~InErp(i.row)

LEMMA InitCalm == Init => ClaimInv /\ RequestInv
  BY DEF Init, ClaimInv, ExclusiveClaim, IdleHoldsNothing, StaleIsNotHeld, AttemptsLeft, RequestInv

\* The values that the proofs below compare.
LEMMA Types ==
    ASSUME DispatchInv
    PROVE  /\ \A r \in Rows : attempts[r] \in Nat
           /\ \A w \in Workers : \A i \in items[w] :
                i \in Item /\ i.row \in Rows /\ i.attempts \in Nat /\ i.phase \in Phases
           /\ \A q \in requests : q \in Request /\ q.row \in Rows
           /\ crashes \in Nat
  BY ItemFields DEF DispatchInv, TypeOK, Request

(***************************************************************************)
(* Claims.                                                                  *)
(***************************************************************************)

\* The row is written, becomes due, or its lock grows old in nobody's hands.
LEMMA TableKeepsClaims ==
    ASSUME DispatchInv, ClaimInv, "slow" \notin Faults,
           NEW r \in Rows, Enqueue(r) \/ BecomeDue(r) \/ BecomeStale(r)
    PROVE  ClaimInv'
  <1>1. UNCHANGED <<attempts, items, crashes>>
    BY DEF Enqueue, BecomeDue, BecomeStale, loop
  <1>2. \A x \in Rows : InHand(x)' <=> InHand(x)
    BY <1>1 DEF InHand
  <1>3. /\ \A x \in Rows : status'[x] = IF x = r /\ status[r] = "ABSENT" /\ status'[r] = "PENDING"
                                        THEN "PENDING" ELSE status[x]
    BY DEF Enqueue, BecomeDue, BecomeStale, DispatchInv, TypeOK
  <1>4. \A w \in Workers : \A i \in items[w] : status'[i.row] = status[i.row]
    BY <1>3, Types DEF ClaimInv, ExclusiveClaim
  <1>5. ExclusiveClaim'
    BY <1>1, <1>4 DEF ClaimInv, ExclusiveClaim
  <1>6. StaleIsNotHeld'
    <2>1. \A x \in stale' : x \in stale \/ ~InHand(x)
      BY DEF Enqueue, BecomeDue, BecomeStale
    <2>2. stale' \subseteq Rows
      BY DEF Enqueue, BecomeDue, BecomeStale, DispatchInv, TypeOK
    <2> QED
      BY <1>2, <2>1, <2>2 DEF ClaimInv, StaleIsNotHeld
  <1>7. AttemptsLeft'
    <2> SUFFICES ASSUME NEW x \in Rows
                 PROVE  /\ attempts[x] <= MaxAttempts + crashes
                        /\ status'[x] = "ABSENT" => attempts[x] = 0
                        /\ status'[x] = "PENDING" \/ (status'[x] = "IN_FLIGHT" /\ ~InHand(x))
                            => attempts[x] < MaxAttempts + crashes
      BY <1>1, <1>2 DEF AttemptsLeft
    <2>1. attempts[x] = 0 => attempts[x] < MaxAttempts + crashes
      BY Types
    <2> QED
      BY <1>3, <2>1 DEF ClaimInv, AttemptsLeft
  <1>8. IdleHoldsNothing'
    BY DEF ClaimInv, IdleHoldsNothing, Enqueue, BecomeDue, BecomeStale, loop
  <1> QED
    BY <1>5, <1>6, <1>7, <1>8 DEF ClaimInv

\* The loop turns, frees abandoned rows, or ends a batch.
LEMMA LoopKeepsClaims ==
    ASSUME DispatchInv, ClaimInv, NEW w \in Workers,
           BeginCycle(w) \/ ReleaseAbandoned(w) \/ EndBatch(w)
    PROVE  ClaimInv'
  <1>1. UNCHANGED <<attempts, items, crashes>> /\ stale' \subseteq stale
    BY DEF BeginCycle, ReleaseAbandoned, EndBatch, table
  <1>2. \A x \in Rows : InHand(x)' <=> InHand(x)
    BY <1>1 DEF InHand
  <1>3. \A x \in Rows : status'[x] # status[x] =>
            x \in stale /\ status[x] = "IN_FLIGHT" /\ status'[x] = "PENDING"
    BY DEF BeginCycle, ReleaseAbandoned, EndBatch, Abandoned, table
  <1>4. \A v \in Workers : \A i \in items[v] : status'[i.row] = status[i.row]
    <2> SUFFICES ASSUME NEW v \in Workers, NEW i \in items[v] PROVE i.row \notin stale
      BY <1>3, Types
    <2>1. InHand(i.row)
      BY DEF InHand
    <2> QED
      BY <2>1 DEF ClaimInv, StaleIsNotHeld
  <1>5. ExclusiveClaim'
    BY <1>1, <1>4 DEF ClaimInv, ExclusiveClaim
  <1>6. StaleIsNotHeld'
    BY <1>1, <1>2 DEF ClaimInv, StaleIsNotHeld, DispatchInv, TypeOK
  <1>7. AttemptsLeft'
    BY <1>1, <1>2, <1>3 DEF ClaimInv, StaleIsNotHeld, AttemptsLeft
  <1>8. IdleHoldsNothing'
    BY DEF ClaimInv, IdleHoldsNothing, BeginCycle, ReleaseAbandoned, EndBatch, DispatchInv,
       TypeOK
  <1> QED
    BY <1>5, <1>6, <1>7, <1>8 DEF ClaimInv

\* READPAST: the rows of the batch were in nobody's hands.
LEMMA ClaimKeepsClaims ==
    ASSUME DispatchInv, ClaimInv, NEW w \in Workers, ClaimBatch(w)
    PROVE  ClaimInv'
  <1>1. PICK S \in Batches :
            /\ status' = [r \in Rows |-> IF r \in S THEN "IN_FLIGHT" ELSE status[r]]
            /\ attempts' = [r \in Rows |-> IF r \in S THEN attempts[r] + 1 ELSE attempts[r]]
            /\ stale' = stale \ S
            /\ items' = [items EXCEPT ![w] =
                {[row |-> r, attempts |-> attempts[r] + 1, phase |-> "send"] : r \in S}]
    BY DEF ClaimBatch
  <1>2. S \subseteq Rows /\ \A r \in S : status[r] = "PENDING"
    BY DEF Batches, Claimable, DispatchInv, TypeOK
  <1>3. crashes' = crashes
    BY DEF ClaimBatch
  <1> DEFINE claimed == {[row |-> r, attempts |-> attempts[r] + 1, phase |-> "send"] : r \in S}
  <1>4. /\ items'[w] = claimed
        /\ \A v \in Workers : v # w => items'[v] = items[v]
    BY <1>1 DEF DispatchInv, TypeOK
  <1>5. \A v \in Workers : \A i \in items[v] : i.row \notin S
    BY <1>2 DEF ClaimInv, ExclusiveClaim
  <1>6. \A i \in claimed :
            /\ i.row \in S /\ i.attempts = attempts[i.row] + 1
            /\ \A j \in claimed : i.row = j.row => i = j
    OBVIOUS
  <1>7. ExclusiveClaim'
    <2> SUFFICES ASSUME NEW v \in Workers, NEW i \in items'[v]
                 PROVE  /\ status'[i.row] = "IN_FLIGHT" /\ attempts'[i.row] = i.attempts
                        /\ \A u \in Workers : \A j \in items'[u] :
                            i.row = j.row => v = u /\ i = j
      BY DEF ExclusiveClaim
    <2>1. CASE v = w
      BY <2>1, <1>1, <1>2, <1>4, <1>5, <1>6
    <2>2. CASE v # w
      <3>1. i \in items[v] /\ i.row \in Rows \ S
        BY <2>2, <1>4, <1>5, Types
      <3>2. status'[i.row] = "IN_FLIGHT" /\ attempts'[i.row] = i.attempts
        BY <3>1, <1>1 DEF ClaimInv, ExclusiveClaim
      <3>3. \A u \in Workers : \A j \in items'[u] : i.row = j.row => v = u /\ i = j
        BY <3>1, <1>4, <1>6 DEF ClaimInv, ExclusiveClaim
      <3> QED
        BY <3>2, <3>3
    <2> QED
      BY <2>1, <2>2
  <1>8. \A r \in Rows : InHand(r)' <=> InHand(r) \/ r \in S
    <2>1. items[w] = {}
      BY DEF ClaimBatch, ClaimInv, IdleHoldsNothing
    <2>2. ASSUME NEW r \in S PROVE \E i \in claimed : i.row = r
      <3> WITNESS [row |-> r, attempts |-> attempts[r] + 1, phase |-> "send"] \in claimed
      <3> QED
        OBVIOUS
    <2>3. ASSUME NEW r \in Rows, InHand(r)' PROVE InHand(r) \/ r \in S
      BY <2>3, <1>4, <1>6 DEF InHand
    <2>4. ASSUME NEW r \in Rows, InHand(r) PROVE InHand(r)'
      BY <2>4, <2>1, <1>4 DEF InHand
    <2>5. ASSUME NEW r \in S PROVE InHand(r)'
      BY <2>2, <1>4 DEF InHand
    <2> QED
      BY <2>3, <2>4, <2>5
  <1>9. StaleIsNotHeld'
    BY <1>1, <1>8 DEF ClaimInv, StaleIsNotHeld, DispatchInv, TypeOK
  <1>10. AttemptsLeft'
    <2> SUFFICES ASSUME NEW r \in Rows
                 PROVE  /\ attempts'[r] <= MaxAttempts + crashes
                        /\ status'[r] = "ABSENT" => attempts'[r] = 0
                        /\ status'[r] = "PENDING" \/ (status'[r] = "IN_FLIGHT" /\ ~InHand(r)')
                            => attempts'[r] < MaxAttempts + crashes
      BY <1>3 DEF AttemptsLeft
    <2>1. CASE r \in S
      BY <2>1, <1>1, <1>2, <1>8, Types DEF ClaimInv, AttemptsLeft
    <2>2. CASE r \notin S
      BY <2>2, <1>1, <1>8 DEF ClaimInv, AttemptsLeft
    <2> QED
      BY <2>1, <2>2
  <1>11. IdleHoldsNothing'
    BY <1>4 DEF ClaimBatch, ClaimInv, IdleHoldsNothing, DispatchInv, TypeOK
  <1> QED
    BY <1>7, <1>9, <1>10, <1>11 DEF ClaimInv

\* The items change their phases only: each stands for one that was there.
LEMMA RephasingKeepsClaims ==
    ASSUME DispatchInv, ClaimInv, UNCHANGED <<status, attempts, stale, pc, crashes>>,
           \A w \in Workers : \A j \in items'[w] : \E i \in items[w] :
                j.row = i.row /\ j.attempts = i.attempts,
           \A w \in Workers : \A i \in items[w] : \E j \in items'[w] : j.row = i.row,
           \A w \in Workers : \A j, k \in items'[w] : j.row = k.row => j = k
    PROVE  ClaimInv'
  <1>1. \A r \in Rows : InHand(r)' <=> InHand(r)
    BY DEF InHand
  <1>2. ExclusiveClaim'
    <2> SUFFICES ASSUME NEW v \in Workers, NEW j \in items'[v]
                 PROVE  /\ status[j.row] = "IN_FLIGHT" /\ attempts[j.row] = j.attempts
                        /\ \A w \in Workers : \A k \in items'[w] :
                            j.row = k.row => v = w /\ j = k
      BY DEF ExclusiveClaim
    <2>1. PICK i \in items[v] : j.row = i.row /\ j.attempts = i.attempts
      OBVIOUS
    <2>2. ASSUME NEW w \in Workers, NEW k \in items'[w], j.row = k.row
          PROVE  v = w
      <3>1. PICK l \in items[w] : k.row = l.row
        OBVIOUS
      <3> QED
        BY <2>1, <2>2, <3>1 DEF ClaimInv, ExclusiveClaim
    <2> QED
      BY <2>1, <2>2 DEF ClaimInv, ExclusiveClaim
  <1>3. StaleIsNotHeld' /\ AttemptsLeft'
    BY <1>1 DEF ClaimInv, StaleIsNotHeld, AttemptsLeft, DispatchInv, TypeOK
  <1>4. IdleHoldsNothing'
    BY DEF ClaimInv, IdleHoldsNothing
  <1> QED
    BY <1>2, <1>3, <1>4 DEF ClaimInv

\* A request is sent, answered, or given up by its client.
LEMMA AdvanceKeepsClaims ==
    ASSUME DispatchInv, ClaimInv, NEW w \in Workers, NEW i \in items[w], NEW p \in Phases,
           Advance(w, i, p), UNCHANGED <<status, attempts, stale, pc, crashes>>
    PROVE  ClaimInv'
  <1>1. /\ items'[w] = (items[w] \ {i}) \cup {InPhase(i, p)}
        /\ \A v \in Workers : v # w => items'[v] = items[v]
    BY DEF Advance, DispatchInv, TypeOK
  <1>2. InPhase(i, p).row = i.row /\ InPhase(i, p).attempts = i.attempts
    BY Types, ItemFields
  <1>3. \A v \in Workers : \A j, k \in items[v] : j.row = k.row => j = k
    BY DEF ClaimInv, ExclusiveClaim
  <1>4. \A v \in Workers : \A j \in items'[v] : \E l \in items[v] :
            j.row = l.row /\ j.attempts = l.attempts
    BY <1>1, <1>2
  <1>5. \A v \in Workers : \A l \in items[v] : \E j \in items'[v] : j.row = l.row
    BY <1>1, <1>2
  <1>6. \A v \in Workers : \A j, k \in items'[v] : j.row = k.row => j = k
    BY <1>1, <1>2, <1>3
  <1> QED
    BY <1>4, <1>5, <1>6, RephasingKeepsClaims

\* The ERP answers.
LEMMA DeliverKeepsClaims ==
    ASSUME DispatchInv, ClaimInv, NEW q \in requests, NEW p \in Phases, Deliver(q, p),
           UNCHANGED <<status, attempts, stale, pc, crashes>>
    PROVE  ClaimInv'
  <1> DEFINE image(i) == IF Pending(i, q) THEN InPhase(i, p) ELSE i
  <1>1. \A v \in Workers : items'[v] = {image(i) : i \in items[v]}
    BY DEF Deliver
  <1>2. \A v \in Workers : \A i \in items[v] :
            image(i).row = i.row /\ image(i).attempts = i.attempts
    BY Types, ItemFields
  <1>3. \A v \in Workers : \A j, k \in items[v] : j.row = k.row => j = k
    BY DEF ClaimInv, ExclusiveClaim
  <1> HIDE DEF image
  <1>4. \A v \in Workers : \A j \in items'[v] : \E l \in items[v] :
            j.row = l.row /\ j.attempts = l.attempts
    BY <1>1, <1>2
  <1>5. \A v \in Workers : \A l \in items[v] : \E j \in items'[v] : j.row = l.row
    BY <1>1, <1>2
  <1>6. \A v \in Workers : \A j, k \in items'[v] : j.row = k.row => j = k
    BY <1>1, <1>2, <1>3
  <1> QED
    BY <1>4, <1>5, <1>6, RephasingKeepsClaims

\* A coroutine records its result: it is the only one that has the row.
LEMMA RecordKeepsClaims ==
    ASSUME DispatchInv, ClaimInv, NEW w \in Workers, NEW i \in items[w],
           MarkSent(w, i) \/ Reschedule(w, i) \/ ToDeadLetter(w, i)
    PROVE  ClaimInv'
  <1>1. PICK new \in {"SENT", "PENDING", "DLQ"} :
            /\ Update(i.row, new)
            /\ new = "PENDING" => ~AttemptsExhausted(i)
    BY DEF MarkSent, Reschedule, ToDeadLetter
  <1>2. UNCHANGED <<attempts, pc, crashes>> /\ Finish(w, i)
    BY DEF MarkSent, Reschedule, ToDeadLetter
  <1>3. i.row \in Rows /\ attempts[i.row] = i.attempts /\ i.attempts \in Nat
    BY Types DEF ClaimInv, ExclusiveClaim
  <1>4. /\ status'[i.row] = new
        /\ \A r \in Rows : r # i.row => status'[r] = status[r]
        /\ stale' = stale \ {i.row}
    BY <1>1, <1>3 DEF Update, DispatchInv, TypeOK
  <1>5. /\ items'[w] = items[w] \ {i}
        /\ \A v \in Workers : v # w => items'[v] = items[v]
    BY <1>2 DEF Finish, DispatchInv, TypeOK
  <1>6. \A v \in Workers : \A j \in items'[v] : j \in items[v] /\ j.row # i.row
    BY <1>5 DEF ClaimInv, ExclusiveClaim
  <1>7. \A r \in Rows : r # i.row => (InHand(r)' <=> InHand(r))
    BY <1>5 DEF InHand
  <1>8. ExclusiveClaim'
    BY <1>2, <1>4, <1>6, Types DEF ClaimInv, ExclusiveClaim
  <1>9. StaleIsNotHeld'
    BY <1>4, <1>7 DEF ClaimInv, StaleIsNotHeld, DispatchInv, TypeOK
  <1>10. AttemptsLeft'
    <2> SUFFICES ASSUME NEW r \in Rows
                 PROVE  /\ attempts[r] <= MaxAttempts + crashes
                        /\ status'[r] = "ABSENT" => attempts[r] = 0
                        /\ status'[r] = "PENDING" \/ (status'[r] = "IN_FLIGHT" /\ ~InHand(r)')
                            => attempts[r] < MaxAttempts + crashes
      BY <1>2 DEF AttemptsLeft
    <2>1. CASE r = i.row
      <3>1. ~AttemptsExhausted(i) => attempts[r] < MaxAttempts + crashes
        BY <2>1, <1>3, Types DEF AttemptsExhausted
      <3> QED
        BY <2>1, <3>1, <1>1, <1>4 DEF ClaimInv, AttemptsLeft
    <2>2. CASE r # i.row
      BY <2>2, <1>4, <1>7 DEF ClaimInv, AttemptsLeft
    <2> QED
      BY <2>1, <2>2
  <1>11. IdleHoldsNothing'
    BY <1>2, <1>5 DEF ClaimInv, IdleHoldsNothing
  <1> QED
    BY <1>8, <1>9, <1>10, <1>11 DEF ClaimInv

\* The rows of a worker that dies stay IN_FLIGHT, and the crash pays for the claim.
LEMMA CrashKeepsClaims ==
    ASSUME DispatchInv, ClaimInv, NEW w \in Workers, Crash(w)
    PROVE  ClaimInv'
  <1>1. UNCHANGED <<status, attempts, stale>> /\ crashes' = crashes + 1
    BY DEF Crash, table
  <1>2. /\ items'[w] = {}
        /\ \A v \in Workers : v # w => items'[v] = items[v]
        /\ \A v \in Workers : v # w => pc'[v] = pc[v]
    BY DEF Crash, DispatchInv, TypeOK
  <1>3. \A r \in Rows : InHand(r)' => InHand(r)
    BY <1>2 DEF InHand
  <1>4. ExclusiveClaim'
    BY <1>1, <1>2 DEF ClaimInv, ExclusiveClaim
  <1>5. StaleIsNotHeld'
    BY <1>1, <1>3 DEF ClaimInv, StaleIsNotHeld, DispatchInv, TypeOK
  <1>6. AttemptsLeft'
    BY <1>1, Types DEF ClaimInv, AttemptsLeft
  <1>7. IdleHoldsNothing'
    BY <1>2 DEF ClaimInv, IdleHoldsNothing
  <1> QED
    BY <1>4, <1>5, <1>6, <1>7 DEF ClaimInv

\* A coroutine sends, or stops waiting.
LEMMA SendKeepsClaims ==
    ASSUME DispatchInv, ClaimInv, NEW w \in Workers, NEW i \in items[w],
           SendOrder(w, i) \/ SendDuplicate(w, i) \/ SendFails(w, i) \/ Timeout(w, i)
    PROVE  ClaimInv'
  <1>1. UNCHANGED <<status, attempts, stale, pc, crashes>>
    BY DEF SendOrder, SendDuplicate, SendFails, Timeout, table
  <1>2. \E p \in Phases : Advance(w, i, p)
    BY DEF SendOrder, SendDuplicate, SendFails, Timeout, OkAnswers, Phases
  <1> QED
    BY <1>1, <1>2, AdvanceKeepsClaims

LEMMA ErpKeepsClaims ==
    ASSUME DispatchInv, ClaimInv, ErpStep
    PROVE  ClaimInv'
  <1>1. PICK q \in requests :
            ErpBeginsToFail(q) \/ ErpAnswersError(q) \/ ErpRegisters(q) \/ ErpRefuses(q)
    BY DEF ErpStep
  <1>2. UNCHANGED <<status, attempts, stale, pc, crashes>>
    BY <1>1 DEF ErpBeginsToFail, ErpAnswersError, ErpRegisters, ErpRefuses, table, loop
  <1>3. CASE ErpBeginsToFail(q)
    BY <1>2, <1>3 DEF ErpBeginsToFail, loop, ClaimInv, ExclusiveClaim, IdleHoldsNothing,
       StaleIsNotHeld, AttemptsLeft, InHand
  <1>4. CASE ErpAnswersError(q) \/ ErpRegisters(q) \/ ErpRefuses(q)
    <2>1. \E p \in Phases : Deliver(q, p)
      BY <1>4 DEF ErpAnswersError, ErpRegisters, ErpRefuses, OkAnswers, ServerErrorPhase, Phases
    <2> QED
      BY <2>1, <1>2, DeliverKeepsClaims
  <1> QED
    BY <1>1, <1>3, <1>4

LEMMA NextClaimInv ==
    ASSUME "slow" \notin Faults
    PROVE  DispatchInv /\ ClaimInv /\ [Next]_vars => ClaimInv'
  <1> SUFFICES ASSUME DispatchInv, ClaimInv, [Next]_vars PROVE ClaimInv'
    OBVIOUS
  <1>1. ASSUME NEW r \in Rows, Enqueue(r) \/ BecomeDue(r) \/ BecomeStale(r) PROVE ClaimInv'
    BY <1>1, TableKeepsClaims
  <1>2. ASSUME NEW w \in Workers, Step(w) \/ Crash(w) PROVE ClaimInv'
    BY <1>2, LoopKeepsClaims, ClaimKeepsClaims, SendKeepsClaims, RecordKeepsClaims,
       CrashKeepsClaims DEF Step, Dispatch
  <1>3. ASSUME ErpStep PROVE ClaimInv'
    BY <1>3, ErpKeepsClaims
  <1>4. CASE UNCHANGED vars
    BY <1>4 DEF vars, table, loop, ClaimInv, ExclusiveClaim, IdleHoldsNothing, StaleIsNotHeld,
       AttemptsLeft, InHand
  <1> QED
    BY <1>1, <1>2, <1>3, <1>4 DEF Next

LEMMA ClaimInvAlways ==
    ASSUME "slow" \notin Faults
    PROVE  Spec => []ClaimInv
  <1>1. Init => ClaimInv
    BY InitCalm
  <1>2. DispatchInv /\ ClaimInv /\ [Next]_vars => ClaimInv'
    BY NextClaimInv
  <1> QED
    BY <1>1, <1>2, DispatchInvAlways, PTL DEF Spec

\* A row is in the hands of one coroutine, which knows its attempts, as long as no
\* live worker outlives its lock (outbox_reader.py: claim).
THEOREM ClaimsAreExclusive ==
    ASSUME "slow" \notin Faults
    PROVE  Spec => []ExclusiveClaim
  <1>1. ClaimInv => ExclusiveClaim
    BY DEF ClaimInv
  <1> QED
    BY <1>1, ClaimInvAlways, PTL

\* A row is claimed at most MaxAttempts times and once more for every crash, as long
\* as no live worker outlives its lock (dispatch_worker/main.py: _reschedule).
THEOREM ClaimsAreBounded ==
    ASSUME "slow" \notin Faults
    PROVE  Spec => []AttemptsBounded
  <1>1. ClaimInv => AttemptsBounded
    BY DEF ClaimInv, AttemptsLeft, AttemptsBounded
  <1> QED
    BY <1>1, ClaimInvAlways, PTL

(***************************************************************************)
(* Requests.                                                                *)
(***************************************************************************)

\* A step that brings no new request, registers nothing and makes nobody send, claim or
\* release a row that has a request, keeps the requests single.
LEMMA NoNewRequest ==
    ASSUME DispatchInv, RequestInv,
           \A q \in requests' : q.stage = "latency" => q \in requests,
           UNCHANGED <<acknowledged, registrations>>,
           \A r \in Rows : attempts'[r] \in Nat /\ attempts'[r] >= attempts[r],
           \A r \in stale' : r \in stale \/ ~InErp(r),
           \A r \in due' : status'[r] = "PENDING" => ~InErp(r),
           \A w \in Workers : \A i \in items'[w] : i.phase = "send" => i.attempts > 0 /\ ~InErp(i.row)
    PROVE  RequestInv'
  <1>1. ASSUME NEW r, ~InErp(r) PROVE ~InErp(r)'
    BY <1>1 DEF InErp
  <1>2. \A r \in stale' : ~InErp(r)
    BY DEF RequestInv
  <1>3. /\ \A r \in stale' : ~InErp(r)'
        /\ \A r \in due' : status'[r] = "PENDING" => ~InErp(r)'
        /\ \A w \in Workers : \A i \in items'[w] : i.phase = "send" => i.attempts > 0 /\ ~InErp(i.row)'
    BY <1>1, <1>2
  <1>4. \A q \in requests' : q.stage = "latency" =>
            /\ q.row \notin acknowledged
            /\ attempts'[q.row] > 0
            /\ \A p \in requests' : p.stage = "latency" /\ p.row = q.row => p = q
    BY Types DEF RequestInv
  <1>5. \A r \in Rows : registrations'[r] = IF r \in acknowledged' THEN 1 ELSE 0
    BY DEF RequestInv
  <1> QED
    BY <1>3, <1>4, <1>5 DEF RequestInv

\* A row that is written has no request; one that becomes due or stale has none if the
\* ERP answers before the retry.
LEMMA TableKeepsRequests ==
    ASSUME DispatchInv, ClaimInv, RequestInv, "erp_slow" \notin Faults,
           NEW r \in Rows, Enqueue(r) \/ BecomeDue(r) \/ BecomeStale(r)
    PROVE  RequestInv'
  <1>1. UNCHANGED <<attempts, items, requests, acknowledged, registrations>>
    BY DEF Enqueue, BecomeDue, BecomeStale, loop, erp
  <1>2. ~InErp(r)
    <2>1. attempts[r] = 0 => ~InErp(r)
      BY DEF RequestInv, InErp
    <2> QED
      BY <2>1 DEF Enqueue, BecomeDue, BecomeStale, ClaimInv, AttemptsLeft
  <1>3. \A x \in stale' : x \in stale \/ ~InErp(x)
    BY <1>2 DEF Enqueue, BecomeDue, BecomeStale
  <1>4. \A x \in due' : status'[x] = "PENDING" => ~InErp(x)
    BY <1>2 DEF Enqueue, BecomeDue, BecomeStale, RequestInv, DispatchInv, TypeOK
  <1>5. \A w \in Workers : \A i \in items[w] : i.phase = "send" => i.attempts > 0 /\ ~InErp(i.row)
    BY DEF RequestInv
  <1> QED
    BY <1>1, <1>3, <1>4, <1>5, Types, NoNewRequest

\* A released row is stale, so that its request is over; a claim takes such rows only.
LEMMA LoopKeepsRequests ==
    ASSUME DispatchInv, RequestInv, NEW w \in Workers,
           BeginCycle(w) \/ ReleaseAbandoned(w) \/ ClaimBatch(w) \/ EndBatch(w) \/ Crash(w)
    PROVE  RequestInv'
  <1>1. UNCHANGED <<due, requests, acknowledged, registrations>> /\ stale' \subseteq stale
    BY DEF BeginCycle, ReleaseAbandoned, ClaimBatch, EndBatch, Crash, table, erp
  <1>2. CASE ClaimBatch(w)
    <2>1. PICK S \in Batches :
            /\ status' = [r \in Rows |-> IF r \in S THEN "IN_FLIGHT" ELSE status[r]]
            /\ attempts' = [r \in Rows |-> IF r \in S THEN attempts[r] + 1 ELSE attempts[r]]
            /\ items' = [items EXCEPT ![w] =
                {[row |-> r, attempts |-> attempts[r] + 1, phase |-> "send"] : r \in S}]
      BY <1>2 DEF ClaimBatch
    <2>2. \A r \in S : r \in Rows /\ ~InErp(r)
      BY DEF Batches, Claimable, RequestInv, DispatchInv, TypeOK
    <2>3. \A r \in Rows : attempts'[r] \in Nat /\ attempts'[r] >= attempts[r]
      BY <2>1, Types
    <2>4. \A v \in Workers : \A i \in items'[v] : i.phase = "send" => i.attempts > 0 /\ ~InErp(i.row)
      BY <2>1, <2>2, Types DEF RequestInv, DispatchInv, TypeOK
    <2>5. \A r \in due : status'[r] = "PENDING" => ~InErp(r)
      BY <2>1 DEF RequestInv, DispatchInv, TypeOK
    <2> QED
      BY <1>1, <2>3, <2>4, <2>5, NoNewRequest
  <1>3. CASE BeginCycle(w) \/ ReleaseAbandoned(w) \/ EndBatch(w) \/ Crash(w)
    <2>1. attempts' = attempts /\ \A v \in Workers : items'[v] \subseteq items[v]
      BY <1>3 DEF BeginCycle, ReleaseAbandoned, EndBatch, Crash, table, DispatchInv, TypeOK
    <2>2. \A r \in Rows : status'[r] = status[r] \/ r \in stale
      BY <1>3 DEF BeginCycle, ReleaseAbandoned, Abandoned, EndBatch, Crash, table
    <2>3. \A r \in due : status'[r] = "PENDING" => ~InErp(r)
      BY <2>2 DEF RequestInv, DispatchInv, TypeOK
    <2>4. \A v \in Workers : \A i \in items'[v] : i.phase = "send" => i.attempts > 0 /\ ~InErp(i.row)
      BY <2>1 DEF RequestInv
    <2> QED
      BY <1>1, <2>1, <2>3, <2>4, Types, NoNewRequest
  <1> QED
    BY <1>2, <1>3

\* A coroutine sends: the row has no other request, and it is in nobody else's hands,
\* neither stale nor PENDING.
LEMMA SendOrderKeepsRequests ==
    ASSUME DispatchInv, ClaimInv, RequestInv, NEW w \in Workers, NEW i \in items[w],
           SendOrder(w, i)
    PROVE  RequestInv'
  <1> DEFINE new == [row |-> i.row, attempts |-> i.attempts, stage |-> "latency"]
  <1>1. /\ requests' = requests \cup {new}
        /\ UNCHANGED <<status, attempts, due, stale, acknowledged, registrations>>
        /\ i.row \notin acknowledged /\ i.phase = "send" /\ Advance(w, i, "wait")
    BY DEF SendOrder, KnownKey, table
  <1>2. i.row \in Rows /\ status[i.row] = "IN_FLIGHT" /\ attempts[i.row] > 0
    BY <1>1, Types DEF ClaimInv, ExclusiveClaim, RequestInv
  <1>3. ~InErp(i.row)
    BY <1>1 DEF RequestInv
  <1>4. InHand(i.row)
    BY DEF InHand
  <1>5. new.row = i.row /\ new.stage = "latency"
    OBVIOUS
  <1> HIDE DEF new
  <1>6. \A r : InErp(r)' => InErp(r) \/ r = i.row
    BY <1>1, <1>5 DEF InErp
  <1>7. \A r \in stale' : ~InErp(r)'
    BY <1>1, <1>4, <1>6 DEF RequestInv, ClaimInv, StaleIsNotHeld
  <1>8. \A r \in due' : status'[r] = "PENDING" => ~InErp(r)'
    BY <1>1, <1>2, <1>6 DEF RequestInv
  <1>9. \A v \in Workers : \A j \in items'[v] : j.phase = "send" => j.attempts > 0 /\ ~InErp(j.row)'
    <2> SUFFICES ASSUME NEW v \in Workers, NEW j \in items'[v], j.phase = "send"
                 PROVE  j.attempts > 0 /\ ~InErp(j.row)'
      OBVIOUS
    <2>1. InPhase(i, "wait").phase = "wait"
      BY Types, ItemFields DEF Phases
    <2>2. j \in items[v] /\ (v = w => j # i)
      BY <1>1, <2>1 DEF Advance, DispatchInv, TypeOK
    <2>3. j.row # i.row
      BY <2>2 DEF ClaimInv, ExclusiveClaim
    <2> QED
      BY <1>6, <2>2, <2>3 DEF RequestInv
  <1>10. \A q \in requests' : q.stage = "latency" =>
            /\ q.row \notin acknowledged'
            /\ attempts'[q.row] > 0
            /\ \A p \in requests' : p.stage = "latency" /\ p.row = q.row => p = q
    BY <1>1, <1>2, <1>3, <1>5 DEF RequestInv, InErp
  <1>11. \A r \in Rows : registrations'[r] = IF r \in acknowledged' THEN 1 ELSE 0
    BY <1>1 DEF RequestInv
  <1> QED
    BY <1>7, <1>8, <1>9, <1>10, <1>11 DEF RequestInv

\* A coroutine gets its answer without the ERP's work, or stops waiting.
LEMMA OtherSendsKeepRequests ==
    ASSUME DispatchInv, RequestInv, NEW w \in Workers, NEW i \in items[w],
           SendDuplicate(w, i) \/ SendFails(w, i) \/ Timeout(w, i)
    PROVE  RequestInv'
  <1>1. UNCHANGED <<status, attempts, due, stale, requests, acknowledged, registrations>>
    BY DEF SendDuplicate, SendFails, Timeout, table, erp
  <1>2. PICK p \in Phases \ {"send"} : Advance(w, i, p)
    BY DEF SendDuplicate, SendFails, Timeout, OkAnswers, Phases
  <1>3. InPhase(i, p).phase # "send"
    BY Types, ItemFields
  <1>4. \A v \in Workers : \A j \in items'[v] : j.phase = "send" => j \in items[v]
    BY <1>2, <1>3 DEF Advance, DispatchInv, TypeOK
  <1>5. \A v \in Workers : \A j \in items'[v] : j.phase = "send" => j.attempts > 0 /\ ~InErp(j.row)
    BY <1>4 DEF RequestInv
  <1>6. \A r \in due' : status'[r] = "PENDING" => ~InErp(r)
    BY <1>1 DEF RequestInv
  <1> QED
    BY <1>1, <1>5, <1>6, Types, NoNewRequest

\* A rescheduled row is not due before its delay passes; the others are not PENDING.
LEMMA RecordKeepsRequests ==
    ASSUME DispatchInv, RequestInv, NEW w \in Workers, NEW i \in items[w],
           MarkSent(w, i) \/ Reschedule(w, i) \/ ToDeadLetter(w, i)
    PROVE  RequestInv'
  <1>1. /\ UNCHANGED <<attempts, requests, acknowledged, registrations>>
        /\ Finish(w, i)
    BY DEF MarkSent, Reschedule, ToDeadLetter, erp
  <1>2. i.row \in Rows /\ \E new \in Statuses : Update(i.row, new)
    BY Types DEF MarkSent, Reschedule, ToDeadLetter, Statuses
  <1>3. stale' \subseteq stale
    BY <1>2 DEF Update
  <1>4. \A r \in Rows : r # i.row => status'[r] = status[r]
    BY <1>2 DEF Update, DispatchInv, TypeOK
  <1>5. /\ due' \subseteq due
        /\ i.row \in due' => status'[i.row] # "PENDING"
    BY <1>2 DEF MarkSent, Reschedule, ToDeadLetter, Update, DispatchInv, TypeOK
  <1>6. \A r \in due' : status'[r] = "PENDING" => ~InErp(r)
    BY <1>4, <1>5 DEF RequestInv, DispatchInv, TypeOK
  <1>7. \A v \in Workers : \A j \in items'[v] : j.phase = "send" => j.attempts > 0 /\ ~InErp(j.row)
    BY <1>1 DEF Finish, RequestInv, DispatchInv, TypeOK
  <1> QED
    BY <1>1, <1>3, <1>6, <1>7, Types, NoNewRequest

\* The ERP works on a request: a row is registered by the only request it has.
LEMMA ErpKeepsRequests ==
    ASSUME DispatchInv, RequestInv, ErpStep
    PROVE  RequestInv'
  <1>1. PICK q \in requests :
            ErpBeginsToFail(q) \/ ErpAnswersError(q) \/ ErpRegisters(q) \/ ErpRefuses(q)
    BY DEF ErpStep
  <1>2. UNCHANGED <<status, attempts, due, stale>>
    BY <1>1 DEF ErpBeginsToFail, ErpAnswersError, ErpRegisters, ErpRefuses, table
  <1>3. \A p \in requests' : p.stage = "latency" => p \in requests /\ p # q
    <2>1. CASE ErpBeginsToFail(q)
      BY <2>1, Types DEF ErpBeginsToFail, Request
    <2>2. CASE ErpAnswersError(q) \/ ErpRegisters(q) \/ ErpRefuses(q)
      BY <2>2 DEF ErpAnswersError, ErpRegisters, ErpRefuses
    <2> QED
      BY <1>1, <2>1, <2>2
  <1>4. \A w \in Workers : \A j \in items'[w] : j.phase = "send" => j \in items[w]
    <2>1. CASE ErpBeginsToFail(q)
      BY <2>1 DEF ErpBeginsToFail, loop
    <2>2. CASE ErpAnswersError(q) \/ ErpRegisters(q) \/ ErpRefuses(q)
      <3>1. PICK p \in Phases \ {"send"} : Deliver(q, p)
        BY <2>2 DEF ErpAnswersError, ErpRegisters, ErpRefuses, OkAnswers, ServerErrorPhase, Phases
      <3>2. ASSUME NEW w \in Workers, NEW j \in items'[w], j.phase = "send"
            PROVE  j \in items[w]
        <4>1. PICK i \in items[w] : j = IF Pending(i, q) THEN InPhase(i, p) ELSE i
          BY <3>1 DEF Deliver
        <4>2. InPhase(i, p).phase = p
          BY Types, ItemFields
        <4> QED
          BY <3>2, <4>1, <4>2
      <3> QED
        BY <3>2
    <2> QED
      BY <1>1, <2>1, <2>2
  <1>5. \A w \in Workers : \A j \in items'[w] : j.phase = "send" => j.attempts > 0 /\ ~InErp(j.row)
    BY <1>4 DEF RequestInv
  <1>6. \A r \in due' : status'[r] = "PENDING" => ~InErp(r)
    BY <1>2 DEF RequestInv
  <1>7. CASE ErpRegisters(q)
    <2>1. /\ q.stage = "latency" /\ q.row \in Rows /\ q.row \notin acknowledged
          /\ acknowledged' = acknowledged \cup {q.row}
          /\ registrations' = [registrations EXCEPT ![q.row] = @ + 1]
      BY <1>7, Types DEF ErpRegisters, RequestInv
    <2>2. \A r \in Rows : registrations'[r] = IF r \in acknowledged' THEN 1 ELSE 0
      BY <2>1 DEF RequestInv, DispatchInv, TypeOK
    <2>3. \A p \in requests' : p.stage = "latency" => p.row # q.row
      BY <1>3, <2>1 DEF RequestInv
    <2>4. \A p \in requests' : p.stage = "latency" =>
            /\ p.row \notin acknowledged'
            /\ attempts'[p.row] > 0
            /\ \A o \in requests' : o.stage = "latency" /\ o.row = p.row => o = p
      BY <1>2, <1>3, <2>1, <2>3 DEF RequestInv
    <2>5. \A r : InErp(r)' => InErp(r)
      BY <1>3 DEF InErp
    <2> QED
      BY <1>2, <1>5, <1>6, <2>2, <2>4, <2>5 DEF RequestInv
  <1>8. CASE ErpBeginsToFail(q) \/ ErpAnswersError(q) \/ ErpRefuses(q)
    <2>1. UNCHANGED <<acknowledged, registrations>>
      BY <1>8 DEF ErpBeginsToFail, ErpAnswersError, ErpRefuses
    <2> QED
      BY <1>2, <1>3, <1>5, <1>6, <2>1, Types, NoNewRequest
  <1> QED
    BY <1>1, <1>7, <1>8

LEMMA NextRequestInv ==
    ASSUME "erp_slow" \notin Faults
    PROVE  DispatchInv /\ ClaimInv /\ RequestInv /\ [Next]_vars => RequestInv'
  <1> SUFFICES ASSUME DispatchInv, ClaimInv, RequestInv, [Next]_vars PROVE RequestInv'
    OBVIOUS
  <1>1. ASSUME NEW r \in Rows, Enqueue(r) \/ BecomeDue(r) \/ BecomeStale(r) PROVE RequestInv'
    BY <1>1, TableKeepsRequests
  <1>2. ASSUME NEW w \in Workers, Step(w) \/ Crash(w) PROVE RequestInv'
    BY <1>2, LoopKeepsRequests, SendOrderKeepsRequests, OtherSendsKeepRequests,
       RecordKeepsRequests DEF Step, Dispatch
  <1>3. ASSUME ErpStep PROVE RequestInv'
    BY <1>3, ErpKeepsRequests
  <1>4. CASE UNCHANGED vars
    BY <1>4 DEF vars, table, loop, erp, RequestInv, InErp
  <1> QED
    BY <1>1, <1>2, <1>3, <1>4 DEF Next

LEMMA RequestInvAlways ==
    ASSUME "slow" \notin Faults, "erp_slow" \notin Faults
    PROVE  Spec => []RequestInv
  <1>1. Init => RequestInv
    BY InitCalm
  <1>2. DispatchInv /\ ClaimInv /\ RequestInv /\ [Next]_vars => RequestInv'
    BY NextRequestInv
  <1> QED
    BY <1>1, <1>2, DispatchInvAlways, ClaimInvAlways, PTL DEF Spec

(***************************************************************************)
(* Refinement.                                                              *)
(***************************************************************************)

\* The rows of S get a status, and the ERP does nothing.
LEMMA StatusMoves ==
    ASSUME DispatchInv, NEW S \in SUBSET Rows, NEW to \in Statuses,
           \A r \in S : status'[r] = to,
           \A r \in Rows \ S : status'[r] = status[r],
           status' \in [Rows -> Statuses],
           UNCHANGED <<registrations, refused>>
    PROVE  Lifecycle!Move(S, to)
  <1>1. status' = [r \in Rows |-> IF r \in S THEN to ELSE status[r]]
    OBVIOUS
  <1> QED
    BY <1>1 DEF Lifecycle!Move

LEMMA EnqueueWrites ==
    ASSUME DispatchInv, NEW r \in Rows, Enqueue(r)
    PROVE  Lifecycle!Write(r)
  <1>1. Lifecycle!Move({r}, "PENDING")
    BY StatusMoves DEF Enqueue, erp, DispatchInv, TypeOK, Statuses
  <1> QED
    BY <1>1 DEF Enqueue, Lifecycle!Write, Lifecycle!In

LEMMA ReleaseGivesBack ==
    ASSUME DispatchInv, NEW w \in Workers, ReleaseAbandoned(w)
    PROVE  Lifecycle!GiveBack(Abandoned)
  <1>1. Abandoned \subseteq Lifecycle!In("IN_FLIGHT") /\ Abandoned \in SUBSET Rows
    BY DEF Abandoned, Lifecycle!In, DispatchInv, TypeOK
  <1>2. Lifecycle!Move(Abandoned, "PENDING")
    BY <1>1 DEF ReleaseAbandoned, erp, Lifecycle!Move
  <1> QED
    BY <1>1, <1>2 DEF ReleaseAbandoned, Lifecycle!GiveBack

LEMMA BatchClaims ==
    ASSUME DispatchInv, NEW w \in Workers, ClaimBatch(w)
    PROVE  \E S \in SUBSET Rows : Lifecycle!Claim(S)
  <1>1. PICK S \in Batches :
            /\ status' = [r \in Rows |-> IF r \in S THEN "IN_FLIGHT" ELSE status[r]]
            /\ attempts' = [r \in Rows |-> IF r \in S THEN attempts[r] + 1 ELSE attempts[r]]
    BY DEF ClaimBatch
  <1>2. S \in SUBSET Rows /\ S \subseteq Lifecycle!In("PENDING")
    BY DEF Batches, Claimable, Lifecycle!In, DispatchInv, TypeOK
  <1>3. Lifecycle!Move(S, "IN_FLIGHT")
    BY <1>1 DEF ClaimBatch, erp, Lifecycle!Move
  <1>4. attempts' = [r \in Rows |-> attempts[r] + (IF r \in S THEN 1 ELSE 0)]
    BY <1>1, Types
  <1> QED
    BY <1>2, <1>3, <1>4 DEF Lifecycle!Claim

\* The row that a coroutine marks is IN_FLIGHT, and what the coroutine believes is true.
LEMMA RecordMoves ==
    ASSUME DispatchInv, ClaimInv, RequestInv, NEW w \in Workers, NEW i \in items[w],
           MarkSent(w, i) \/ Reschedule(w, i) \/ ToDeadLetter(w, i)
    PROVE  Lifecycle!Confirm(i.row) \/ Lifecycle!GiveBack({i.row}) \/ Lifecycle!GiveUp(i.row)
  <1>1. i.row \in Rows /\ status[i.row] = "IN_FLIGHT" /\ attempts[i.row] = i.attempts
    BY Types DEF ClaimInv, ExclusiveClaim
  <1>2. {i.row} \subseteq Lifecycle!In("IN_FLIGHT") /\ i.row \in Lifecycle!In("IN_FLIGHT")
    BY <1>1 DEF Lifecycle!In
  <1>3. UNCHANGED <<attempts, registrations, refused>>
    BY DEF MarkSent, Reschedule, ToDeadLetter, erp
  <1>4. ASSUME NEW new \in Statuses, Update(i.row, new) PROVE Lifecycle!Move({i.row}, new)
    BY <1>1, <1>3, <1>4, StatusMoves DEF Update, DispatchInv, TypeOK
  <1>5. Justified(i)
    BY DEF DispatchInv, ItemsJustified
  <1>6. CASE MarkSent(w, i)
    <2>1. registrations[i.row] > 0
      BY <1>1, <1>5, <1>6 DEF MarkSent, Justified, RequestInv
    <2>2. Lifecycle!Move({i.row}, "SENT")
      BY <1>4, <1>6 DEF MarkSent, Statuses
    <2> QED
      BY <1>2, <1>3, <2>1, <2>2 DEF Lifecycle!Confirm
  <1>7. CASE Reschedule(w, i)
    <2>1. Lifecycle!Move({i.row}, "PENDING")
      BY <1>4, <1>7 DEF Reschedule, Statuses
    <2> QED
      BY <1>2, <1>3, <2>1 DEF Lifecycle!GiveBack
  <1>8. CASE ToDeadLetter(w, i)
    <2>1. Lifecycle!Move({i.row}, "DLQ")
      BY <1>4, <1>8 DEF ToDeadLetter, Statuses
    <2>2. attempts[i.row] >= MaxAttempts \/ i.row \in refused
      BY <1>1, <1>5, <1>8 DEF ToDeadLetter, Justified, AttemptsExhausted
    <2> QED
      BY <1>2, <1>3, <2>1, <2>2 DEF Lifecycle!GiveUp
  <1> QED
    BY <1>6, <1>7, <1>8

\* The ERP works only for a row that was claimed and is not SENT.
LEMMA ErpActsOnAsked ==
    ASSUME DispatchInv, RequestInv, NEW q \in requests, ErpRegisters(q) \/ ErpRefuses(q)
    PROVE  Lifecycle!Register(q.row) \/ Lifecycle!Refuse(q.row)
  <1>1. q.row \in Rows /\ q.row \notin acknowledged /\ attempts[q.row] > 0
    BY Types DEF ErpRegisters, ErpRefuses, RequestInv
  <1>2. Lifecycle!Asked(q.row)
    BY <1>1 DEF Lifecycle!Asked, DispatchInv, SentWasRegistered
  <1>3. CASE ErpRegisters(q)
    <2>1. registrations[q.row] = 0
      BY <1>1 DEF RequestInv
    <2>2. registrations' = [registrations EXCEPT ![q.row] = 1]
      BY <1>3, <2>1 DEF ErpRegisters
    <2> QED
      BY <1>2, <1>3, <2>1, <2>2 DEF ErpRegisters, table, Lifecycle!Register
  <1>4. CASE ErpRefuses(q)
    BY <1>2, <1>4 DEF ErpRefuses, table, Lifecycle!Refuse
  <1> QED
    BY <1>3, <1>4

LEMMA StepIsLifecycleStep ==
    DispatchInv /\ ClaimInv /\ RequestInv /\ [Next]_vars => [Lifecycle!Next]_(Lifecycle!vars)
  <1> SUFFICES ASSUME DispatchInv, ClaimInv, RequestInv, [Next]_vars
               PROVE  Lifecycle!Next \/ UNCHANGED Lifecycle!vars
    OBVIOUS
  <1>1. ASSUME NEW r \in Rows, Enqueue(r) \/ BecomeDue(r) \/ BecomeStale(r)
        PROVE  Lifecycle!Next \/ UNCHANGED Lifecycle!vars
    <2>1. CASE Enqueue(r)
      BY <2>1, EnqueueWrites DEF Lifecycle!Next
    <2>2. CASE BecomeDue(r) \/ BecomeStale(r)
      BY <2>2 DEF BecomeDue, BecomeStale, erp, Lifecycle!vars
    <2> QED
      BY <1>1, <2>1, <2>2
  <1>2. ASSUME NEW w \in Workers, Step(w) \/ Crash(w)
        PROVE  Lifecycle!Next \/ UNCHANGED Lifecycle!vars
    <2>1. CASE BeginCycle(w) \/ EndBatch(w) \/ Crash(w)
      BY <2>1 DEF BeginCycle, EndBatch, Crash, table, erp, Lifecycle!vars
    <2>2. CASE ReleaseAbandoned(w)
      <3>1. Abandoned \in SUBSET Rows
        BY DEF Abandoned, DispatchInv, TypeOK
      <3> QED
        BY <2>2, <3>1, ReleaseGivesBack DEF Lifecycle!Next
    <2>3. CASE ClaimBatch(w)
      BY <2>3, BatchClaims DEF Lifecycle!Next
    <2>4. CASE Dispatch(w)
      <3>1. PICK i \in items[w] :
                \/ SendOrder(w, i) \/ SendDuplicate(w, i) \/ SendFails(w, i) \/ Timeout(w, i)
                \/ MarkSent(w, i) \/ Reschedule(w, i) \/ ToDeadLetter(w, i)
        BY <2>4 DEF Dispatch
      <3>2. CASE SendOrder(w, i) \/ SendDuplicate(w, i) \/ SendFails(w, i) \/ Timeout(w, i)
        BY <3>2 DEF SendOrder, SendDuplicate, SendFails, Timeout, table, erp, Lifecycle!vars
      <3>3. CASE MarkSent(w, i) \/ Reschedule(w, i) \/ ToDeadLetter(w, i)
        <4>1. i.row \in Rows
          BY Types
        <4> QED
          BY <3>3, <4>1, RecordMoves DEF Lifecycle!Next
      <3> QED
        BY <3>1, <3>2, <3>3
    <2> QED
      BY <1>2, <2>1, <2>2, <2>3, <2>4 DEF Step
  <1>3. ASSUME ErpStep PROVE Lifecycle!Next \/ UNCHANGED Lifecycle!vars
    <2>1. PICK q \in requests :
              ErpBeginsToFail(q) \/ ErpAnswersError(q) \/ ErpRegisters(q) \/ ErpRefuses(q)
      BY <1>3 DEF ErpStep
    <2>2. CASE ErpBeginsToFail(q) \/ ErpAnswersError(q)
      BY <2>2 DEF ErpBeginsToFail, ErpAnswersError, table, Lifecycle!vars
    <2>3. CASE ErpRegisters(q) \/ ErpRefuses(q)
      BY <2>3, ErpActsOnAsked, Types DEF Lifecycle!Next
    <2> QED
      BY <2>1, <2>2, <2>3
  <1>4. CASE UNCHANGED vars
    BY <1>4 DEF vars, table, erp, Lifecycle!vars
  <1> QED
    BY <1>1, <1>2, <1>3, <1>4 DEF Next

\* The dispatch implements the lifecycle of a row: claimed from PENDING only, registered
\* once, SENT only if registered, given up only if exhausted or refused, and neither SENT
\* nor DLQ ever left, as long as no live worker outlives its lock and the ERP answers
\* before the retry (dispatch_worker/main.py: _dispatch; erp_mock/main.py: receive_order).
THEOREM DispatchImplementsLifecycle ==
    ASSUME "slow" \notin Faults, "erp_slow" \notin Faults
    PROVE  Spec => ImplementsLifecycle
  <1>1. Init => Lifecycle!Init
    BY DEF Init, Lifecycle!Init
  <1>2. DispatchInv /\ ClaimInv /\ RequestInv /\ [Next]_vars => [Lifecycle!Next]_(Lifecycle!vars)
    BY StepIsLifecycleStep
  <1> QED
    BY <1>1, <1>2, DispatchInvAlways, ClaimInvAlways, RequestInvAlways, PTL
    DEF Spec, ImplementsLifecycle, Lifecycle!Spec
=============================================================================
