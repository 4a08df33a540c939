------------------------- MODULE ClosedOrders_proofs -------------------------
(***************************************************************************)
(* Proofs about ClosedOrders for any sessions, terms, items and number of   *)
(* statements: the compared columns of a closed order do not change unless  *)
(* it is opened again, and the ERP was told what is stored of every row     *)
(* that nobody was writing while the order was approved.                    *)
(***************************************************************************)
EXTENDS ClosedOrders, TLAPS

\* Whoever holds the row of a closed order has not got past the trigger.
DraftFollows ==
    holder # Nobody =>
        /\ row.reopened => draft.reopened
        /\ row.status \in Closed /\ ~draft.reopened =>
            draft.status \in Closed /\ draft.terms = row.terms

\* While the approval is on its way, a row that no session has been writing meanwhile
\* is still what the approval has read.
Alone ==
    pc \in {"approve", "copy", "commit"} =>
        /\ Order \notin overlap => holder \notin Sessions /\ loaded.terms = row.terms
        /\ pc \in {"copy", "commit"} => draft = Approved(row)
        /\ \A i \in Items \ overlap :
            /\ \A s \in Sessions : i \notin changes[s]
            /\ pc = "commit" => (i \in loaded.items <=> i \in items)

\* After the message only a session that opened the order again has further changes of
\* items to commit.
Announced ==
    outbox # NoMessage =>
        /\ pc = "done"
        /\ ~row.reopened =>
            /\ row.status \in Closed
            /\ Order \notin overlap => outbox.terms = row.terms
            /\ \A i \in Items \ overlap :
                /\ i \in outbox.items <=> i \in items
                /\ \A s \in Sessions : i \in changes[s] => holder = s /\ draft.reopened

ClosedInv == TypeOK /\ DraftFollows /\ Alone /\ Announced

USE ConstantsAssumption DEF Worker, Nobody, Order

\* A row of orders.
Row == [status : Statuses, terms : Terms, closed_at : Dates, reopened : BOOLEAN]

LEMMA InitClosedInv == Init => ClosedInv
  BY DEF Init, ClosedInv, TypeOK, DraftFollows, Alone, Announced, Statuses, NoMessage

(***************************************************************************)
(* Sessions outside the application.                                        *)
(***************************************************************************)

\* A refused statement and a rollback: the session loses what it wrote.
LEMMA EndKeepsInv ==
    ASSUME ClosedInv, NEW s \in Sessions, EndSession(s), UNCHANGED <<row, items>>,
           statements' \in [Sessions -> 0..MaxStatements]
    PROVE  ClosedInv'
  <1>1. /\ holder' = (IF holder = s THEN Nobody ELSE holder)
        /\ changes' = [changes EXCEPT ![s] = {}]
        /\ UNCHANGED <<row, items, draft, pc, loaded, outbox, overlap>>
    BY DEF EndSession, Unlock
  <1>2. TypeOK'
    BY <1>1 DEF ClosedInv, TypeOK
  <1>3. /\ DraftFollows'
        /\ \A o \in Sessions : HasWritten(o)' => HasWritten(o)
        /\ \A o \in Sessions : changes'[o] # {} => o # s /\ changes'[o] = changes[o]
    BY <1>1 DEF ClosedInv, TypeOK, DraftFollows, HasWritten
  <1>4. Alone'
    BY <1>1, <1>3 DEF ClosedInv, Alone
  <1>5. Announced'
    BY <1>1, <1>3 DEF ClosedInv, Announced
  <1> QED
    BY <1>2, <1>3, <1>4, <1>5 DEF ClosedInv

LEMMA StatementCounted ==
    ASSUME TypeOK, NEW s \in Sessions, RunStatement(s)
    PROVE  statements' \in [Sessions -> 0..MaxStatements]
  BY DEF TypeOK, RunStatement

\* While the approval is on its way, a row that a session writes is remembered.
LEMMA MeetingRemembered ==
    ASSUME TypeOK, NEW r \in Items \cup {Order}, Meets(r), UNCHANGED pc
    PROVE  /\ overlap' \subseteq Items \cup {Order}
           /\ overlap \subseteq overlap'
           /\ pc \in {"approve", "copy", "commit"} => r \in overlap'
  BY DEF TypeOK, Meets

LEMMA UpdateKeepsInv ==
    ASSUME ClosedInv, NEW s \in Sessions, NEW status \in Statuses, NEW terms \in Terms,
           NEW closed_at \in Dates, UpdateOrder(s, status, terms, closed_at)
    PROVE  ClosedInv'
  <1> DEFINE old == RowFor(s)
             new == [status |-> status, terms |-> terms, closed_at |-> closed_at,
                     reopened |-> old.reopened \/ (old.status \in Closed /\ status \notin Closed)]
  <1>1. LockIsFree(s) /\ RunStatement(s)
    BY DEF UpdateOrder
  <1>2. CASE ~OrdersTriggerAllows(old, new)
    BY <1>2, EndKeepsInv, StatementCounted DEF UpdateOrder, ClosedInv
  <1>3. CASE OrdersTriggerAllows(old, new)
    <2>1. /\ holder' = s /\ draft' = new /\ Meets(Order)
          /\ UNCHANGED <<row, items, changes, pc, loaded, outbox>>
      BY <1>3 DEF UpdateOrder
    <2>2. /\ row \in Row /\ draft \in Row /\ old \in Row
          /\ holder = s \/ holder = Nobody
          /\ old = IF holder = s THEN draft ELSE row
      BY <1>1 DEF ClosedInv, TypeOK, RowFor, Row, LockIsFree
    <2>3. new \in Row
      BY <2>2 DEF Row
    <2>4. /\ pc \notin {"copy", "commit"} /\ s # Worker
          /\ overlap' \subseteq Items \cup {Order} /\ overlap \subseteq overlap'
          /\ pc = "approve" => Order \in overlap'
      BY <2>1, <2>2, MeetingRemembered DEF ClosedInv, TypeOK
    <2>5. TypeOK'
      BY <1>1, <2>1, <2>3, <2>4, StatementCounted DEF ClosedInv, TypeOK, Row
    <2>6. /\ row.reopened => new.reopened
          /\ row.status \in Closed /\ ~new.reopened => new.status \in Closed /\ new.terms = row.terms
      BY <1>3, <2>2 DEF ClosedInv, DraftFollows, OrdersTriggerAllows
    <2>7. DraftFollows'
      BY <2>1, <2>6 DEF DraftFollows
    <2>8. Alone'
      BY <2>1, <2>4 DEF ClosedInv, Alone
    <2>9. Announced'
      <3>1. SUFFICES ASSUME outbox # NoMessage, ~row.reopened, NEW i \in Items \ overlap',
                            NEW o \in Sessions, i \in changes[o]
                     PROVE  o = s /\ new.reopened
        BY <2>1, <2>4 DEF ClosedInv, Announced
      <3>2. holder = o /\ draft.reopened
        BY <2>4, <3>1 DEF ClosedInv, Announced
      <3> QED
        BY <2>2, <2>4, <3>2
    <2> QED
      BY <2>5, <2>7, <2>8, <2>9 DEF ClosedInv
  <1> QED
    BY <1>2, <1>3

LEMMA ChangeItemKeepsInv ==
    ASSUME ClosedInv, NEW s \in Sessions, NEW i \in Items, ChangeItem(s, i)
    PROVE  ClosedInv'
  <1>1. CASE ~ItemsTriggerAllows(s)
    BY <1>1, EndKeepsInv, StatementCounted DEF ChangeItem, ClosedInv
  <1>2. CASE ItemsTriggerAllows(s)
    <2>1. /\ RunStatement(s) /\ Meets(i)
          /\ changes' = [changes EXCEPT ![s] = @ \cup {i}]
          /\ UNCHANGED <<row, items, holder, draft, pc, loaded, outbox>>
      BY <1>2 DEF ChangeItem
    <2>2. /\ overlap' \subseteq Items \cup {Order} /\ overlap \subseteq overlap'
          /\ pc \in {"approve", "copy", "commit"} => i \in overlap'
      BY <2>1, MeetingRemembered DEF ClosedInv, TypeOK
    <2>3. \A o \in Sessions, k \in Items : k \in changes'[o] => k \in changes[o] \/ (o = s /\ k = i)
      BY <2>1 DEF ClosedInv, TypeOK
    <2>4. TypeOK'
      BY <2>1, <2>2, StatementCounted DEF ClosedInv, TypeOK
    <2>5. DraftFollows' /\ Alone'
      BY <2>1, <2>2, <2>3 DEF ClosedInv, DraftFollows, Alone
    <2>6. Announced'
      <3>1. SUFFICES ASSUME outbox # NoMessage, ~row.reopened, NEW k \in Items \ overlap',
                            NEW o \in Sessions, k \in changes'[o]
                     PROVE  holder = o /\ draft.reopened
        BY <2>1, <2>2 DEF ClosedInv, Announced
      <3>2. CASE k \in changes[o]
        BY <2>2, <3>1, <3>2 DEF ClosedInv, Announced
      <3>3. CASE o = s
        BY <1>2, <2>1, <3>1, <3>3
        DEF ClosedInv, Announced, DraftFollows, ItemsTriggerAllows, RowFor
      <3> QED
        BY <2>3, <3>1, <3>2, <3>3
    <2> QED
      BY <2>4, <2>5, <2>6 DEF ClosedInv
  <1> QED
    BY <1>1, <1>2

LEMMA CommitSessionKeepsInv ==
    ASSUME ClosedInv, NEW s \in Sessions, CommitSession(s)
    PROVE  ClosedInv'
  <1>1. /\ HasWritten(s)
        /\ row' = RowFor(s)
        /\ items' = (items \ changes[s]) \cup (changes[s] \ items)
        /\ holder' = (IF holder = s THEN Nobody ELSE holder)
        /\ changes' = [changes EXCEPT ![s] = {}]
        /\ UNCHANGED <<draft, pc, loaded, outbox, overlap, statements>>
    BY DEF CommitSession, EndSession, Unlock
  <1>2. row \in Row /\ draft \in Row /\ s # Worker
    BY DEF ClosedInv, TypeOK, Row
  <1>3. row' = IF holder = s THEN draft ELSE row
    BY <1>1 DEF RowFor
  <1>4. TypeOK'
    BY <1>1, <1>2, <1>3 DEF ClosedInv, TypeOK, Row
  <1>5. DraftFollows'
    BY <1>1, <1>3 DEF ClosedInv, DraftFollows
  <1>6. /\ \A o \in Sessions, i \in Items : i \in changes'[o] => o # s /\ i \in changes[o]
        /\ \A i \in Items : i \notin changes[s] => (i \in items' <=> i \in items)
    BY <1>1 DEF ClosedInv, TypeOK
  <1>7. Alone'
    <2>1. pc \in {"copy", "commit"} => row' = row
      BY <1>2, <1>3 DEF ClosedInv, TypeOK
    <2>2. pc \in {"approve", "copy", "commit"} /\ Order \notin overlap => row' = row
      BY <1>3 DEF ClosedInv, Alone
    <2> QED
      BY <1>1, <1>6, <2>1, <2>2 DEF ClosedInv, Alone
  <1>8. Announced'
    <2>1. SUFFICES ASSUME outbox # NoMessage, ~row'.reopened
                   PROVE  /\ row'.status \in Closed
                          /\ Order \notin overlap => outbox.terms = row'.terms
                          /\ \A i \in Items \ overlap :
                                /\ i \in outbox.items <=> i \in items'
                                /\ \A o \in Sessions : i \in changes'[o] => holder' = o /\ draft.reopened
      BY <1>1 DEF ClosedInv, Announced
    <2>2. ~row.reopened /\ (holder = s => ~draft.reopened)
      BY <1>3, <2>1 DEF ClosedInv, DraftFollows
    <2>3. /\ row.status \in Closed
          /\ Order \notin overlap => outbox.terms = row.terms
          /\ \A i \in Items \ overlap :
                /\ i \in outbox.items <=> i \in items
                /\ \A o \in Sessions : i \in changes[o] => holder = o /\ draft.reopened
      BY <2>1, <2>2 DEF ClosedInv, Announced
    <2>4. row'.status \in Closed /\ row'.terms = row.terms
      BY <1>3, <2>2, <2>3 DEF ClosedInv, DraftFollows, TypeOK
    <2>5. \A i \in Items \ overlap : i \notin changes[s]
      BY <2>2, <2>3
    <2>6. \A i \in Items \ overlap, o \in Sessions :
              i \in changes'[o] => holder' = o /\ draft.reopened
      BY <1>1, <1>6, <2>3
    <2> QED
      BY <1>6, <2>3, <2>4, <2>5, <2>6
  <1> QED
    BY <1>4, <1>5, <1>7, <1>8 DEF ClosedInv

(***************************************************************************)
(* The transaction that approves.                                           *)
(***************************************************************************)

LEMMA LoadOrderKeepsInv ==
    ASSUME ClosedInv, LoadOrder
    PROVE  ClosedInv'
  <1>1. /\ pc = "idle" /\ pc' \in {"approve", "done"}
        /\ pc' = "approve" => overlap' = BeingWritten
        /\ overlap' \in {BeingWritten, {}}
        /\ loaded' = [loaded EXCEPT !.terms = row.terms]
        /\ UNCHANGED <<row, items, holder, draft, changes, statements, outbox>>
    BY DEF LoadOrder
  <1>2. BeingWritten \subseteq Items \cup {Order}
    BY DEF ClosedInv, TypeOK, BeingWritten
  <1>3. TypeOK'
    BY <1>1, <1>2 DEF ClosedInv, TypeOK
  <1>4. DraftFollows' /\ Announced'
    BY <1>1 DEF ClosedInv, DraftFollows, Announced
  <1>5. Alone'
    <2>1. loaded'.terms = row.terms
      BY <1>1 DEF ClosedInv, TypeOK
    <2>2. Order \notin BeingWritten => holder \notin Sessions
      BY DEF BeingWritten
    <2>3. \A i \in Items \ BeingWritten : \A s \in Sessions : i \notin changes[s]
      BY DEF BeingWritten
    <2> QED
      BY <1>1, <2>1, <2>2, <2>3 DEF Alone
  <1> QED
    BY <1>3, <1>4, <1>5 DEF ClosedInv

LEMMA ApproveKeepsInv ==
    ASSUME ClosedInv, Approve
    PROVE  ClosedInv'
  <1>1. /\ pc = "approve" /\ pc' = "copy" /\ holder' = Worker /\ holder \in {Nobody, Worker}
        /\ draft' = Approved(row)
        /\ loaded' = [loaded EXCEPT !.closed_at = ApprovedAt]
        /\ UNCHANGED <<row, items, changes, statements, outbox, overlap>>
    BY DEF Approve, LockIsFree
  <1>2. /\ Approved(row).status = "APPROVED" /\ Approved(row).terms = row.terms
        /\ Approved(row).reopened = row.reopened
        /\ Approved(row) \in Row
    BY DEF ClosedInv, TypeOK, Statuses, Row, Approved
  <1>3. /\ loaded'.terms = loaded.terms
        /\ loaded' \in [terms : Terms \cup {Nobody}, closed_at : Dates, items : SUBSET Items]
    BY <1>1 DEF ClosedInv, TypeOK
  <1>4. TypeOK'
    BY <1>1, <1>2, <1>3 DEF ClosedInv, TypeOK, Row
  <1>5. DraftFollows'
    BY <1>1, <1>2 DEF DraftFollows, Closed, Statuses
  <1>6. Alone'
    <2>1. Worker \notin Sessions
      OBVIOUS
    <2> QED
      BY <1>1, <1>3, <2>1 DEF ClosedInv, Alone
  <1>7. Announced'
    BY <1>1 DEF ClosedInv, Announced
  <1> QED
    BY <1>4, <1>5, <1>6, <1>7 DEF ClosedInv

LEMMA BuildPayloadKeepsInv ==
    ASSUME ClosedInv, BuildOrderPayload
    PROVE  ClosedInv'
  <1>1. TypeOK'
    BY DEF ClosedInv, TypeOK, BuildOrderPayload
  <1>2. DraftFollows' /\ Announced'
    BY DEF ClosedInv, BuildOrderPayload, DraftFollows, Announced
  <1>3. Alone'
    BY DEF ClosedInv, TypeOK, BuildOrderPayload, Alone
  <1> QED
    BY <1>1, <1>2, <1>3 DEF ClosedInv

LEMMA CommitApprovalKeepsInv ==
    ASSUME ClosedInv, CommitApproval
    PROVE  ClosedInv'
  <1>1. /\ pc = "commit" /\ pc' = "done" /\ holder = Worker /\ holder' = Nobody
        /\ row' = draft /\ outbox' = loaded
        /\ UNCHANGED <<items, draft, changes, statements, loaded, overlap>>
    BY DEF ClosedInv, TypeOK, CommitApproval, Unlock
  <1>2. TypeOK'
    BY <1>1 DEF ClosedInv, TypeOK
  <1>3. DraftFollows' /\ Alone'
    BY <1>1 DEF DraftFollows, Alone
  <1>4. row'.status = "APPROVED" /\ row'.terms = row.terms
    BY <1>1 DEF ClosedInv, TypeOK, Alone, Approved
  <1>5. /\ Order \notin overlap => loaded.terms = row.terms
        /\ \A i \in Items \ overlap :
            /\ i \in loaded.items <=> i \in items
            /\ \A s \in Sessions : i \notin changes[s]
    BY <1>1 DEF ClosedInv, Alone
  <1>6. Announced'
    BY <1>1, <1>4, <1>5 DEF Announced, Closed, Statuses
  <1> QED
    BY <1>2, <1>3, <1>6 DEF ClosedInv

LEMMA ClosedStep ==
    ASSUME ClosedInv, [Next]_vars
    PROVE  ClosedInv'
  <1>1. CASE UNCHANGED vars
    BY <1>1 DEF vars, ClosedInv, TypeOK, DraftFollows, Alone, Announced, HasWritten
  <1>2. ASSUME NEW s \in Sessions, RollBack(s) PROVE ClosedInv'
    BY <1>2, EndKeepsInv DEF RollBack, ClosedInv, TypeOK
  <1> QED
    BY <1>1, <1>2, UpdateKeepsInv, ChangeItemKeepsInv, CommitSessionKeepsInv,
       LoadOrderKeepsInv, ApproveKeepsInv, BuildPayloadKeepsInv, CommitApprovalKeepsInv
    DEF Next

LEMMA ClosedInvAlways == Spec => []ClosedInv
  <1>1. ClosedInv /\ [Next]_vars => ClosedInv'
    BY ClosedStep
  <1> QED
    BY <1>1, InitClosedInv, PTL DEF Spec

\* The variables have their types in every reachable state: the approving transaction
\* holds the row of orders exactly from its UPDATE to its commit.
THEOREM TypeCorrect == Spec => []TypeOK
  <1>1. ClosedInv => TypeOK
    BY DEF ClosedInv
  <1> QED
    BY <1>1, ClosedInvAlways, PTL

\* However many sessions write, and although the trigger on the items does not wait for
\* the approval, the ERP was told the compared columns, and each item, as they are stored,
\* unless a session was writing that row while the approving transaction was open or the
\* order was opened again (payment_handler.py: _enqueue_erp_notification;
\* 0002_immutability_triggers.py).
THEOREM MessageMatchesTheOrder == Spec => []AnnouncedAsStored
  <1>1. ClosedInv => AnnouncedAsStored
    BY DEF ClosedInv, Announced, AnnouncedAsStored
  <1> QED
    BY <1>1, ClosedInvAlways, PTL

\* No sequence of statements in any number of sessions changes a column of a closed
\* order that the trigger compares, unless one of them gave it an open status again, which
\* the trigger does not refuse (0002_immutability_triggers.py:
\* TR_orders_block_retroactive_change).
THEOREM ClosedOrdersStay == Spec => ClosedRowIsImmutable
  <1> DEFINE Kept == row.status \in Closed /\ ~row'.reopened => row'.terms = row.terms
  <1>1. ASSUME ClosedInv, NEW s \in Sessions, CommitSession(s) PROVE Kept
    BY <1>1 DEF CommitSession, RowFor, ClosedInv, TypeOK, DraftFollows
  <1>2. ASSUME ClosedInv, CommitApproval PROVE Kept
    BY <1>2 DEF CommitApproval, ClosedInv, TypeOK, DraftFollows
  <1>3. ASSUME ClosedInv, Next PROVE Kept
    <2>1. ASSUME NEW s \in Sessions, NEW status \in Statuses, NEW terms \in Terms,
                 NEW closed_at \in Dates, UpdateOrder(s, status, terms, closed_at)
          PROVE  UNCHANGED row
      BY <2>1 DEF UpdateOrder
    <2>2. ASSUME NEW s \in Sessions, NEW i \in Items, ChangeItem(s, i)
          PROVE  UNCHANGED row
      BY <2>2 DEF ChangeItem
    <2>3. \/ \E s \in Sessions : CommitSession(s)
          \/ CommitApproval
          \/ UNCHANGED row
      BY <1>3, <2>1, <2>2 DEF Next, RollBack, LoadOrder, Approve, BuildOrderPayload
    <2> QED
      BY <1>1, <1>2, <1>3, <2>3
  <1>4. ClosedInv /\ [Next]_vars => [Kept]_vars
    BY <1>3
  <1> QED
    BY <1>4, ClosedInvAlways, PTL DEF Spec, ClosedRowIsImmutable
=============================================================================
