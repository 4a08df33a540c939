---------------------------- MODULE ClosedOrders ----------------------------
(***************************************************************************)
(* The triggers that keep a closed order as it was sold                     *)
(* (src/migrations/versions/0002_immutability_triggers.py), seen from SQL   *)
(* sessions outside the application that write the order and its items      *)
(* while an ingest worker approves it and copies it into the message for    *)
(* the ERP (payment_handler.py, src/shared/domain/order_payload.py).        *)
(*                                                                          *)
(* The database runs READ_COMMITTED_SNAPSHOT, as in OrderStore.  A trigger  *)
(* runs inside its statement, and its THROW rolls back the transaction.     *)
(***************************************************************************)
EXTENDS Integers, FiniteSets

CONSTANTS
    Sessions,       \* SQL sessions outside the application
    Terms,          \* what the seven columns of an order that its trigger compares may say
    Sold,           \* what they said when the order was placed
    Dates,          \* values of closed_at, which the trigger does not compare
    Never,          \* closed_at of an open order: NULL
    ApprovedAt,     \* the date of the approval
    Items,          \* rows that order_items may hold
    SoldItems,      \* those the order was placed with
    Rewinds,        \* BOOLEAN: a session may give a closed order an open status
    MaxStatements   \* bound: statements of one session

ASSUME ConstantsAssumption ==
    /\ Sessions \cap {"worker", "nobody"} = {}
    /\ "order" \notin Items
    /\ Sold \in Terms
    /\ {Never, ApprovedAt} \subseteq Dates
    /\ SoldItems \subseteq Items
    /\ Rewinds \in BOOLEAN
    /\ MaxStatements \in Nat

Statuses == {"PENDING", "APPROVED", "INVOICED", "CANCELLED"}
Closed   == Statuses \ {"PENDING"}

Worker == "worker"
Nobody == "nobody"
Order  == "order"
NoMessage == [terms |-> Nobody, closed_at |-> Never, items |-> {}]

VARIABLES
    row,        \* the committed row of orders; reopened: history, it was closed and open again
    items,      \* the committed rows of order_items
    holder,     \* who holds the exclusive lock on the row of orders
    draft,      \* the row as the holder has updated it
    changes,    \* rows of order_items that the open transaction of s inserted or deleted
    statements, \* statements s has run
    pc,         \* where the approving transaction is
    loaded,     \* the order and its items as that transaction read them
    outbox,     \* the message for the ERP
    overlap     \* history: rows (Order, or an item) that a session was writing while
                \* the approving transaction was open

vars == <<row, items, holder, draft, changes, statements, pc, loaded, outbox, overlap>>

Init ==
    /\ row = [status |-> "PENDING", terms |-> Sold, closed_at |-> Never, reopened |-> FALSE]
    /\ items = SoldItems
    /\ holder = Nobody
    /\ draft = row
    /\ changes = [s \in Sessions |-> {}]
    /\ statements = [s \in Sessions |-> 0]
    /\ pc = "idle"
    /\ loaded = NoMessage
    /\ outbox = NoMessage
    /\ overlap = {}

LockIsFree(s) == holder \in {Nobody, s}

\* The row that s would update, and the status that a SELECT of s sees.
RowFor(s) == IF holder = s THEN draft ELSE row

Unlock(s) == holder' = IF holder = s THEN Nobody ELSE holder

HasWritten(s) == holder = s \/ changes[s] # {}

(***************************************************************************)
(* The triggers.                                                            *)
(***************************************************************************)

\* Mutant: only a billed order is closed.
OrdersTriggerMissesApproved(old, new) ==
    old.status = "INVOICED" => new.terms = old.terms

\* TR_orders_block_retroactive_change: deleted is old, inserted is new.  It compares
\* neither the status nor closed_at, source_event_id and created_at.
OrdersTriggerAllows(old, new) == old.status \in Closed => new.terms = old.terms

\* Mutant: only a billed order keeps its items.
ItemsTriggerMissesApproved(s) == RowFor(s).status # "INVOICED"

\* TR_order_items_block_retroactive_change reads orders like any SELECT: it
\* neither sees nor waits for a transaction that is about to close the order.
ItemsTriggerAllows(s) == RowFor(s).status \notin Closed

(***************************************************************************)
(* Sessions outside the application.                                        *)
(***************************************************************************)

RunStatement(s) ==
    /\ statements[s] < MaxStatements
    /\ statements' = [statements EXCEPT ![s] = @ + 1]

Meets(r) == overlap' = IF pc \notin {"idle", "done"} THEN overlap \cup {r} ELSE overlap

\* The rows that the open transactions of the sessions have written.
BeingWritten ==
    {i \in Items : \E s \in Sessions : i \in changes[s]} \cup
    (IF holder \in Sessions THEN {Order} ELSE {})

EndSession(s) ==
    /\ Unlock(s)
    /\ changes' = [changes EXCEPT ![s] = {}]
    /\ UNCHANGED <<draft, pc, loaded, outbox, overlap>>

RollBack(s) ==
    /\ HasWritten(s)
    /\ EndSession(s)
    /\ UNCHANGED <<row, items, statements>>

\* UPDATE orders
UpdateOrder(s, status, terms, closed_at) ==
    LET old == RowFor(s)
        new == [status |-> status, terms |-> terms, closed_at |-> closed_at,
                reopened |-> old.reopened \/ (old.status \in Closed /\ status \notin Closed)]
    IN  /\ LockIsFree(s)
        /\ Rewinds \/ new.reopened = old.reopened
        /\ RunStatement(s)
        /\ \/ /\ OrdersTriggerAllows(old, new)
              /\ holder' = s
              /\ draft' = new
              /\ Meets(Order)
              /\ UNCHANGED <<row, items, changes, pc, loaded, outbox>>
           \/ /\ ~OrdersTriggerAllows(old, new)
              /\ EndSession(s)
              /\ UNCHANGED <<row, items>>

\* INSERT or DELETE of a row of order_items; an UPDATE is to the trigger as both.
\* The check of the foreign key makes an INSERT wait for the row of orders.
ChangeItem(s, i) ==
    /\ \A o \in Sessions : i \notin changes[o]
    /\ i \notin items => LockIsFree(s)
    /\ RunStatement(s)
    /\ \/ /\ ItemsTriggerAllows(s)
          /\ changes' = [changes EXCEPT ![s] = @ \cup {i}]
          /\ Meets(i)
          /\ UNCHANGED <<row, items, holder, draft, pc, loaded, outbox>>
       \/ /\ ~ItemsTriggerAllows(s)
          /\ EndSession(s)
          /\ UNCHANGED <<row, items>>

CommitSession(s) ==
    /\ HasWritten(s)
    /\ row' = RowFor(s)
    /\ items' = (items \ changes[s]) \cup (changes[s] \ items)
    /\ EndSession(s)
    /\ UNCHANGED statements

(***************************************************************************)
(* The transaction of PaymentUpdatedHandler.                                *)
(***************************************************************************)

\* get_by_uid: the attributes stay in the session until the commit.
LoadOrder ==
    /\ pc = "idle"
    /\ loaded' = [loaded EXCEPT !.terms = row.terms]
    /\ pc' = IF row.status = "PENDING" THEN "approve" ELSE "done"
    /\ overlap' = IF row.status = "PENDING" THEN BeingWritten ELSE {}
    /\ UNCHANGED <<row, items, holder, draft, changes, statements, outbox>>

Approved(order) == [order EXCEPT !.status = "APPROVED", !.closed_at = ApprovedAt]

\* Mutant: the approval is committed before the message is written, the dual write
\* that payment_handler.py rules out.
ApproveInItsOwnTransaction ==
    /\ pc = "approve"
    /\ LockIsFree(Worker)
    /\ row' = Approved(row)
    /\ loaded' = [loaded EXCEPT !.closed_at = ApprovedAt]
    /\ pc' = "copy"
    /\ UNCHANGED <<items, holder, draft, changes, statements, outbox, overlap>>

\* transition(): UPDATE orders SET status, closed_at, which no trigger refuses.
Approve ==
    /\ pc = "approve"
    /\ LockIsFree(Worker)
    /\ holder' = Worker
    /\ draft' = Approved(row)
    /\ loaded' = [loaded EXCEPT !.closed_at = ApprovedAt]
    /\ pc' = "copy"
    /\ UNCHANGED <<row, items, changes, statements, outbox, overlap>>

\* build_order_payload: the items are loaded now.
BuildOrderPayload ==
    /\ pc = "copy"
    /\ loaded' = [loaded EXCEPT !.items = items]
    /\ pc' = "commit"
    /\ UNCHANGED <<row, items, holder, draft, changes, statements, outbox, overlap>>

CommitApproval ==
    /\ pc = "commit"
    /\ row' = draft
    /\ outbox' = loaded
    /\ Unlock(Worker)
    /\ pc' = "done"
    /\ UNCHANGED <<items, draft, changes, statements, loaded, overlap>>

Next ==
    \/ \E s \in Sessions :
        \/ \E status \in Statuses, terms \in Terms, closed_at \in Dates :
              UpdateOrder(s, status, terms, closed_at)
        \/ \E i \in Items : ChangeItem(s, i)
        \/ CommitSession(s)
        \/ RollBack(s)
    \/ LoadOrder \/ Approve \/ BuildOrderPayload \/ CommitApproval

Spec == Init /\ [][Next]_vars

(***************************************************************************)
(* Properties                                                               *)
(***************************************************************************)

\* The variables have their types; the approving transaction holds the row of orders
\* from its UPDATE until the message is committed with it.
TypeOK ==
    /\ {row, draft} \subseteq
            [status : Statuses, terms : Terms, closed_at : Dates, reopened : BOOLEAN]
    /\ items \subseteq Items
    /\ holder \in Sessions \cup {Worker, Nobody}
    /\ holder = Worker <=> pc \in {"copy", "commit"}
    /\ changes \in [Sessions -> SUBSET Items]
    /\ statements \in [Sessions -> 0..MaxStatements]
    /\ pc \in {"idle", "approve", "copy", "commit", "done"}
    /\ {loaded, outbox} \subseteq
            [terms : Terms \cup {Nobody}, closed_at : Dates, items : SUBSET Items]
    /\ overlap \subseteq Items \cup {Order}

\* The seven columns of a closed order that the trigger compares keep what they say
\* while nobody gives the order an open status again: two statements of one transaction,
\* or of two, do not get past the trigger, because the row is locked when it is compared.
\* closed_at, source_event_id and created_at have no such protection, and closed_at does
\* change when the order is billed (0002: "Ultima linha de defesa contra qualquer caminho
\* que nao passe pela aplicacao").
ClosedRowIsImmutable ==
    [][row.status \in Closed /\ ~row'.reopened => row'.terms = row.terms]_vars

\* The ERP was told what was sold as it is stored, for ever after: a change of the
\* compared columns, or of an item, is in the message or refused, unless a session was
\* writing that same row while the approving transaction was open, or opened the order
\* again (payment_handler.py: _enqueue_erp_notification).
AnnouncedAsStored ==
    outbox # NoMessage /\ ~row.reopened =>
        /\ Order \notin overlap => outbox.terms = row.terms
        /\ \A i \in Items \ overlap : i \in outbox.items <=> i \in items
=============================================================================
