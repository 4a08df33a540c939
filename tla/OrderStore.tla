----------------------------- MODULE OrderStore -----------------------------
(***************************************************************************)
(* The SQL transactions of the event handlers (src/ingest_worker/handlers,  *)
(* src/shared/db/repositories.py) on one client, its address and one order, *)
(* run concurrently by several ingest workers; other orders are invoiced    *)
(* meanwhile, from the same series of invoice numbers.                      *)
(*                                                                          *)
(* The database runs READ_COMMITTED_SNAPSHOT: a SELECT sees the last        *)
(* committed row and its own writes, and takes no lock; an INSERT or UPDATE *)
(* locks its row or unique key until the transaction ends.  What was read   *)
(* may therefore be stale when it is used.  Steps run from one statement    *)
(* that may wait, or whose answer may change, to the next.                  *)
(***************************************************************************)
EXTENDS Integers, Sequences, FiniteSets

CONSTANTS
    Events,         \* the events, see EventShape
    Addresses,      \* contents an address may have
    Txs,            \* provider_tx_id's of the order's payments; no name of a lock
    Numbers,        \* invoice numbers, each with its series
    MaxConcurrent   \* transactions open at a time: the number of workers

NONE == "NONE"

OrderStatuses   == {"PENDING", "APPROVED", "INVOICED", "CANCELLED"}
PaymentStatuses == {"PENDING", "AUTHORIZED", "APPROVED", "REFUSED", "REFUNDED"}

\* id is the event_id; two events may report the same fact.
EventShape(e) ==
    \/ e.type = "client.upserted" /\ e.address \in Addresses
    \/ e.type = "order.created"
    \/ e.type = "payment.updated" /\ e.tx \in Txs /\ e.status \in PaymentStatuses
    \/ e.type = "invoice.issued" /\ e.number \in Numbers

ASSUME ConstantsAssumption ==
    /\ \A e \in Events : EventShape(e)
    /\ NONE \notin Addresses \cup Numbers
    /\ Txs \cap {"client", "order", "order_row", "invoice"} = {}
    /\ MaxConcurrent \in Nat

\* ALLOWED_ORDER_TRANSITIONS
Allowed(from) ==
    CASE from = "PENDING"  -> {"APPROVED", "CANCELLED"}
      [] from = "APPROVED" -> {"INVOICED", "CANCELLED"}
      [] OTHER             -> {}

NoOrder == [status |-> NONE, shipping |-> 0]

VARIABLES
    client,     \* the row of clients exists
    versions,   \* the versions of the address; the last one is current
    order,      \* the row of orders: status and shipping_address_id
    payments,   \* payments[t]: payment.status, NONE without a row
    invoice,    \* the number of the order's row of invoices, NONE without one
    elsewhere,  \* the numbers of the invoices of other orders
    outbox,     \* rows of outbox written for the order
    ledger,     \* processed_events
    pc,         \* the next statement of the transaction of each event
    found,      \* what its first SELECT on the row it will write answered
    status,     \* order.status as it loaded it
    shipping,   \* the address version it loaded
    locks,      \* rows and unique keys it has locked
    outcome,    \* NONE, or the outcome the event was acknowledged with
    stale       \* history: events that wrote orders.status over a value they had not read

database == <<client, versions, order, payments, invoice, elsewhere, outbox, ledger>>
session  == <<pc, found, status, shipping, locks>>
vars     == <<database, session, outcome, stale>>

PCs == {"idle", "write_client", "read_address", "insert_order", "read_payment",
        "write_payment", "approve", "read_invoice", "insert_invoice", "bill",
        "commit"}

Resources == {"client", "order", "order_row", "invoice"} \cup Txs

Init ==
    /\ client = FALSE
    /\ versions = << >>
    /\ order = NoOrder
    /\ payments = [t \in Txs |-> NONE]
    /\ invoice = NONE
    /\ elsewhere = {}
    /\ outbox = 0
    /\ ledger = {}
    /\ pc = [e \in Events |-> "idle"]
    /\ found = [e \in Events |-> NONE]
    /\ status = [e \in Events |-> NONE]
    /\ shipping = [e \in Events |-> 0]
    /\ locks = [e \in Events |-> {}]
    /\ outcome = [e \in Events |-> NONE]
    /\ stale = {}

OrderExists == order.status # NONE

(***************************************************************************)
(* Transactions.                                                            *)
(***************************************************************************)

Open == {e \in Events : pc[e] # "idle"}

GoTo(e, label) == pc' = [pc EXCEPT ![e] = label]

\* The lock can be granted (the check of a foreign key waits for it too), and
\* is held until the transaction ends.
LockIsFree(e, r) == \A o \in Events \ {e} : r \notin locks[o]

Lock(e, r) == locks' = [locks EXCEPT ![e] = @ \cup {r}]

EndTransaction(e) ==
    /\ GoTo(e, "idle")
    /\ found' = [found EXCEPT ![e] = NONE]
    /\ status' = [status EXCEPT ![e] = NONE]
    /\ shipping' = [shipping EXCEPT ![e] = 0]
    /\ locks' = [locks EXCEPT ![e] = {}]

\* _claim_in_ledger inserts the event_id, which nothing else waits for.
MayBegin(e, type) ==
    /\ e.type = type
    /\ pc[e] = "idle"
    /\ outcome[e] = NONE
    /\ e \notin ledger
    /\ Cardinality(Open) < MaxConcurrent

\* A unique key refused the INSERT: rollback, and the event is acknowledged as
\* a duplicate.
RefusedByConstraint(e) ==
    /\ EndTransaction(e)
    /\ outcome' = [outcome EXCEPT ![e] = "DUPLICATE"]
    /\ UNCHANGED <<database, stale>>

\* Any statement may fail (a deadlock victim, a lost connection): rollback, and
\* the event will be delivered again.
Rollback(e) ==
    /\ pc[e] # "idle"
    /\ EndTransaction(e)
    /\ UNCHANGED <<database, outcome, stale>>

Processed(e) ==
    /\ EndTransaction(e)
    /\ ledger' = ledger \cup {e}
    /\ outcome' = [outcome EXCEPT ![e] = "PROCESSED"]

(***************************************************************************)
(* ClientUpsertedHandler                                                    *)
(***************************************************************************)

BeginClient(e) ==
    /\ MayBegin(e, "client.upserted")
    /\ found' = [found EXCEPT ![e] = IF client THEN "row" ELSE NONE]
    /\ GoTo(e, "write_client")
    /\ UNCHANGED <<database, status, shipping, locks, outcome, stale>>

\* INSERT, or the UPDATE of updated_at that the next SELECT flushes: both lock
\* the client, so the address is read and versioned under that lock.
WriteClient(e) ==
    /\ pc[e] = "write_client"
    /\ LockIsFree(e, "client")
    /\ \/ /\ found[e] = NONE /\ client
          /\ RefusedByConstraint(e)
       \/ /\ ~(found[e] = NONE /\ client)
          /\ Lock(e, "client")
          /\ GoTo(e, "commit")
          /\ UNCHANGED <<database, found, status, shipping, outcome, stale>>

\* Mutant: the current version is updated in place.
VersionsAfterInPlace(content) ==
    IF versions = << >> THEN <<content>> ELSE [versions EXCEPT ![Len(versions)] = content]

\* upsert_version: a new version when the content differs from the current one.
VersionsAfter(content) ==
    IF versions # << >> /\ versions[Len(versions)] = content
    THEN versions
    ELSE Append(versions, content)

CommitClient(e) ==
    /\ e.type = "client.upserted"
    /\ pc[e] = "commit"
    /\ client' = TRUE
    /\ versions' = VersionsAfter(e.address)
    /\ Processed(e)
    /\ UNCHANGED <<order, payments, invoice, elsewhere, outbox, stale>>

(***************************************************************************)
(* OrderCreatedHandler                                                      *)
(***************************************************************************)

\* exists(): a known order ends the handler, and the event is recorded.
BeginOrder(e) ==
    /\ MayBegin(e, "order.created")
    /\ found' = [found EXCEPT ![e] = IF OrderExists THEN "row" ELSE NONE]
    /\ GoTo(e, IF OrderExists THEN "commit" ELSE "read_address")
    /\ UNCHANGED <<database, status, shipping, locks, outcome, stale>>

\* Mutant: the missing client is not noticed.
ReadAddressUnchecked(e) ==
    /\ pc[e] = "read_address"
    /\ shipping' = [shipping EXCEPT ![e] = Len(versions)]
    /\ GoTo(e, "insert_order")
    /\ UNCHANGED <<database, found, status, locks, outcome, stale>>

\* Mutant: it is left to the foreign key, whose IntegrityError passes for a duplicate.
ReadAddressLeftToForeignKey(e) ==
    /\ pc[e] = "read_address"
    /\ \/ ~client /\ RefusedByConstraint(e)
       \/ /\ client
          /\ shipping' = [shipping EXCEPT ![e] = Len(versions)]
          /\ GoTo(e, "insert_order")
          /\ UNCHANGED <<database, found, status, locks, outcome, stale>>

\* The client and its current address, which are written together; without them
\* DependencyNotReadyError, that is Rollback.
ReadAddress(e) ==
    /\ pc[e] = "read_address"
    /\ client
    /\ shipping' = [shipping EXCEPT ![e] = Len(versions)]
    /\ GoTo(e, "insert_order")
    /\ UNCHANGED <<database, found, status, locks, outcome, stale>>

InsertOrder(e) ==
    /\ pc[e] = "insert_order"
    /\ LockIsFree(e, "order") /\ LockIsFree(e, "client")
    /\ \/ OrderExists /\ RefusedByConstraint(e)
       \/ /\ ~OrderExists
          /\ Lock(e, "order")
          /\ GoTo(e, "commit")
          /\ UNCHANGED <<database, found, status, shipping, outcome, stale>>

CommitOrder(e) ==
    /\ e.type = "order.created"
    /\ pc[e] = "commit"
    /\ order' = IF "order" \in locks[e]
                THEN [status |-> "PENDING", shipping |-> shipping[e]]
                ELSE order
    /\ Processed(e)
    /\ UNCHANGED <<client, versions, payments, invoice, elsewhere, outbox, stale>>

(***************************************************************************)
(* PaymentUpdatedHandler                                                    *)
(***************************************************************************)

\* The order is loaded once; its status stays in the session.
LoadOrder(e) == status' = [status EXCEPT ![e] = order.status]

BeginPayment(e) ==
    /\ MayBegin(e, "payment.updated")
    /\ OrderExists
    /\ LoadOrder(e)
    /\ GoTo(e, "read_payment")
    /\ UNCHANGED <<database, found, shipping, locks, outcome, stale>>

ReadPayment(e) ==
    /\ pc[e] = "read_payment"
    /\ found' = [found EXCEPT ![e] = payments[e.tx]]
    /\ GoTo(e, "write_payment")
    /\ UNCHANGED <<database, status, shipping, locks, outcome, stale>>

\* Mutant: transition() does not look at the status.
MayMoveFromAnywhere(e, to) == to \in OrderStatuses

\* transition() goes by the status in the session.
MayMove(e, to) == to \in Allowed(status[e])

\* Mutant: a payment that was known before approves nothing.
AfterNewPayment(e) ==
    IF found[e] = NONE /\ e.status = "APPROVED" /\ MayMove(e, "APPROVED")
    THEN "approve" ELSE "commit"

AfterPayment(e) ==
    IF e.status = "APPROVED" /\ MayMove(e, "APPROVED") THEN "approve" ELSE "commit"

\* INSERT if no row was found; UPDATE if its status differs; else no statement.
WritePayment(e) ==
    /\ pc[e] = "write_payment"
    /\ \/ /\ found[e] = e.status
          /\ GoTo(e, AfterPayment(e))
          /\ UNCHANGED <<database, found, status, shipping, locks, outcome, stale>>
       \/ /\ found[e] = NONE /\ payments[e.tx] # NONE
          /\ LockIsFree(e, e.tx)
          /\ RefusedByConstraint(e)
       \/ /\ found[e] # e.status
          /\ found[e] = NONE => payments[e.tx] = NONE /\ LockIsFree(e, "order_row")
          /\ LockIsFree(e, e.tx)
          /\ Lock(e, e.tx)
          /\ GoTo(e, AfterPayment(e))
          /\ UNCHANGED <<database, found, status, shipping, outcome, stale>>

\* UPDATE orders SET status: by order_id, without looking at the row's status.
LockOrderRow(e, label) ==
    /\ pc[e] = label
    /\ LockIsFree(e, "order_row")
    /\ Lock(e, "order_row")
    /\ GoTo(e, "commit")
    /\ UNCHANGED <<database, found, status, shipping, outcome, stale>>

Approve(e) == LockOrderRow(e, "approve")

\* What the UPDATE of the order leaves, and whether it overwrote a change.
MoveOrder(e, to) ==
    IF "order_row" \in locks[e]
    THEN /\ order' = [order EXCEPT !.status = to]
         /\ stale' = IF order.status = status[e] THEN stale ELSE stale \cup {e}
    ELSE UNCHANGED <<order, stale>>

\* Mutant: the approval is not announced.
MessagesForgotten(e) == 0

\* The message of the outbox is written with the approval.
MessagesOf(e) == IF "order_row" \in locks[e] THEN 1 ELSE 0

CommitPayment(e) ==
    /\ e.type = "payment.updated"
    /\ pc[e] = "commit"
    /\ payments' = IF e.tx \in locks[e] THEN [payments EXCEPT ![e.tx] = e.status]
                   ELSE payments
    /\ MoveOrder(e, "APPROVED")
    /\ outbox' = outbox + MessagesOf(e)
    /\ Processed(e)
    /\ UNCHANGED <<client, versions, invoice, elsewhere>>

(***************************************************************************)
(* InvoiceIssuedHandler                                                     *)
(***************************************************************************)

BeginInvoice(e) ==
    /\ MayBegin(e, "invoice.issued")
    /\ OrderExists
    /\ LoadOrder(e)
    /\ GoTo(e, "read_invoice")
    /\ UNCHANGED <<database, found, shipping, locks, outcome, stale>>

\* Mutant: the order is billed before its invoice is written.
ReadInvoiceThenBill(e) ==
    /\ pc[e] = "read_invoice"
    /\ GoTo(e, IF invoice # NONE THEN "commit"
               ELSE IF MayMove(e, "INVOICED") THEN "bill" ELSE "insert_invoice")
    /\ UNCHANGED <<database, found, status, shipping, locks, outcome, stale>>

\* exists_for_order(): a known invoice ends the handler.
ReadInvoice(e) ==
    /\ pc[e] = "read_invoice"
    /\ GoTo(e, IF invoice # NONE THEN "commit" ELSE "insert_invoice")
    /\ UNCHANGED <<database, found, status, shipping, locks, outcome, stale>>

\* UNIQUE (order_id) and UNIQUE (invoice_number, series).
InvoiceKeyIsTaken(e) == invoice # NONE \/ e.number \in elsewhere

InsertInvoice(e) ==
    /\ pc[e] = "insert_invoice"
    /\ LockIsFree(e, "invoice") /\ LockIsFree(e, "order_row")
    /\ \/ InvoiceKeyIsTaken(e) /\ RefusedByConstraint(e)
       \/ /\ ~InvoiceKeyIsTaken(e)
          /\ Lock(e, "invoice")
          /\ GoTo(e, IF MayMove(e, "INVOICED") THEN "bill" ELSE "commit")
          /\ UNCHANGED <<database, found, status, shipping, outcome, stale>>

Bill(e) == LockOrderRow(e, "bill")

CommitInvoice(e) ==
    /\ e.type = "invoice.issued"
    /\ pc[e] = "commit"
    /\ invoice' = IF "invoice" \in locks[e] THEN e.number ELSE invoice
    /\ MoveOrder(e, "INVOICED")
    /\ Processed(e)
    /\ UNCHANGED <<client, versions, payments, elsewhere, outbox>>

\* The same handler commits an invoice of another order; its INSERT waits for one of
\* the same number.
InvoiceAnotherOrder(n) ==
    /\ n \notin elsewhere \cup {invoice}
    /\ \A e \in Events : "invoice" \in locks[e] => e.number # n
    /\ elsewhere' = elsewhere \cup {n}
    /\ UNCHANGED <<client, versions, order, payments, invoice, outbox, ledger, session,
                   outcome, stale>>

Statement(e) ==
    \/ BeginClient(e)  \/ WriteClient(e)  \/ CommitClient(e)
    \/ BeginOrder(e)   \/ ReadAddress(e)  \/ InsertOrder(e)   \/ CommitOrder(e)
    \/ BeginPayment(e) \/ ReadPayment(e)  \/ WritePayment(e)  \/ Approve(e)
    \/ CommitPayment(e)
    \/ BeginInvoice(e) \/ ReadInvoice(e)  \/ InsertInvoice(e) \/ Bill(e)
    \/ CommitInvoice(e)
    \/ Rollback(e)

Next ==
    \/ \E e \in Events : Statement(e)
    \/ \E n \in Numbers : InvoiceAnotherOrder(n)

Spec == Init /\ [][Next]_vars

(***************************************************************************)
(* Properties                                                               *)
(***************************************************************************)

\* The variables have their types.
TypeOK ==
    /\ client \in BOOLEAN
    /\ versions \in Seq(Addresses)
    /\ order \in [status : OrderStatuses \cup {NONE}, shipping : Nat]
    /\ OrderExists => order.shipping \in 1..Len(versions)
    /\ payments \in [Txs -> PaymentStatuses \cup {NONE}]
    /\ invoice \in Numbers \cup {NONE}
    /\ elsewhere \subseteq Numbers
    /\ outbox \in Nat
    /\ ledger \subseteq Events
    /\ pc \in [Events -> PCs]
    /\ found \in [Events -> PaymentStatuses \cup {NONE, "row"}]
    /\ status \in [Events -> OrderStatuses \cup {NONE}]
    /\ shipping \in [Events -> Nat]
    /\ locks \in [Events -> SUBSET Resources]
    /\ outcome \in [Events -> {NONE, "PROCESSED", "DUPLICATE"}]
    /\ stale \subseteq Events

\* The outbox is transactional: the ERP is told of an order if and only if the
\* order was approved (payment_handler.py: handle), and an order is billed
\* together with the row of its invoice (invoice_handler.py: handle).
StatusHasItsFacts ==
    /\ (outbox > 0) <=> (order.status \in {"APPROVED", "INVOICED"})
    /\ order.status = "INVOICED" => invoice # NONE

\* An approved order is announced to the ERP once (README: "um payment.approved
\* duplicado não gera um segundo despacho").
SingleDispatch == outbox <= 1

\* The status of the order follows ALLOWED_ORDER_TRANSITIONS, although a transaction may
\* write it over one that it has not read: the only move that is not allowed, INVOICED
\* back to APPROVED, comes with a further message for the ERP; an order is never billed
\* before it was approved (repositories.py: transition; enums.py).
StatusAdvancesUnlessApprovedAgain ==
    [][order.status # NONE /\ order'.status # order.status
        => order'.status \in Allowed(order.status) \/ outbox' > 1]_vars

\* An order keeps the address it was created with, and that version never
\* changes, whatever the client's address becomes afterwards.
OrderAddressIsFrozen ==
    [][OrderExists => /\ order'.shipping = order.shipping
                      /\ versions'[order.shipping] = versions[order.shipping]]_vars

\* An approval that was processed stays: a PENDING or REFUSED of the payment that
\* is handled later, or a transaction that loaded the order before, may change
\* the row of the payment but never takes the order back (repositories.py: upsert
\* and transition).
ApprovalIsNotForgotten ==
    \A e \in ledger :
        e.type = "payment.updated" /\ e.status = "APPROVED"
            => order.status \in {"APPROVED", "INVOICED"}

SameKey(e, o) ==
    /\ o.type = e.type
    /\ e.type = "payment.updated" => o.tx = e.tx

\* An event is acknowledged as a duplicate only for another one with the same unique key
\* whose transaction committed, or for the invoice of another order: never for a
\* transaction that is rolled back afterwards, nor for a row that is missing, which must
\* be retried (processor.py: _apply).
RefusedKeyIsTaken ==
    \A e \in Events : outcome[e] = "DUPLICATE" =>
        \/ \E o \in ledger : SameKey(e, o)
        \/ e.type = "invoice.issued" /\ e.number \in elsewhere
=============================================================================
