-------------------------- MODULE OrderStore_proofs --------------------------
(***************************************************************************)
(* Proofs about OrderStore for any events, addresses, payments and number   *)
(* of concurrent transactions: its type invariant, that the status of the   *)
(* order, the outbox and the invoice agree, that nothing known is lost,     *)
(* what a constraint refuses, and which moves the status can make.          *)
(***************************************************************************)
EXTENDS OrderStore, SequenceTheorems, TLAPS

\* The order has been approved.
Past == {"APPROVED", "INVOICED"}

\* The transaction is at a statement of its handler.
Program(e) ==
    \/ pc[e] \in {"idle", "commit"}
    \/ e.type = "client.upserted" /\ pc[e] = "write_client"
    \/ e.type = "order.created" /\ pc[e] \in {"read_address", "insert_order"}
    \/ e.type = "payment.updated" /\ pc[e] \in {"read_payment", "write_payment", "approve"}
    \/ e.type = "invoice.issued" /\ pc[e] \in {"read_invoice", "insert_invoice", "bill"}

\* What an open transaction knows, and what stays true although others commit: the
\* version it read is still there, nobody else can have inserted the order it inserts,
\* an order it saw exists and one it saw approved stays approved.
SessionOfOrder(e) ==
    /\ pc[e] = "insert_order" \/ "order" \in locks[e] => shipping[e] \in 1..Len(versions)
    /\ "order" \in locks[e] => ~OrderExists

SessionOfPayment(e) ==
    /\ pc[e] # "idle" => status[e] \in Past \cup {"PENDING"}
    /\ pc[e] = "approve" \/ "order_row" \in locks[e] =>
        e.status = "APPROVED" /\ status[e] = "PENDING"
    /\ pc[e] = "commit" /\ "order_row" \notin locks[e] =>
        (e.status = "APPROVED" => status[e] \in Past)

SessionOfInvoice(e) ==
    /\ pc[e] # "idle" => status[e] \in Past \cup {"PENDING"}
    /\ pc[e] = "bill" \/ "order_row" \in locks[e] =>
        "invoice" \in locks[e] /\ status[e] = "APPROVED"

SessionInv(e) ==
    /\ Program(e)
    /\ pc[e] = "idle" => locks[e] = {} /\ status[e] = NONE
    /\ status[e] # NONE => OrderExists
    /\ status[e] \in Past => order.status \in Past
    /\ SessionOfOrder(e)
    /\ e.type = "payment.updated" => SessionOfPayment(e)
    /\ e.type = "invoice.issued" => SessionOfInvoice(e)

OneInsertsTheOrder ==
    \A e, f \in Events : "order" \in locks[e] /\ "order" \in locks[f] => e = f

\* A row that holds a unique key was written by an event of the ledger.
KeysAreReported ==
    /\ client => \E o \in ledger : o.type = "client.upserted"
    /\ OrderExists => \E o \in ledger : o.type = "order.created"
    /\ \A t \in Txs : payments[t] # NONE =>
            \E o \in ledger : o.type = "payment.updated" /\ o.tx = t
    /\ invoice # NONE => \E o \in ledger : o.type = "invoice.issued"

\* The facts of the database agree because every writer knows what it needs.
Facts ==
    /\ client => versions # << >>
    /\ order.status # "CANCELLED"
    /\ StatusHasItsFacts
    /\ ApprovalIsNotForgotten
    /\ KeysAreReported
    /\ RefusedKeyIsTaken
    /\ stale = {} => outbox <= 1

StoreInv ==
    /\ TypeOK
    /\ \A e \in Events : SessionInv(e)
    /\ OneInsertsTheOrder
    /\ Facts

USE ConstantsAssumption

LEMMA InitStoreInv == Init => StoreInv
  <1> SUFFICES ASSUME Init PROVE StoreInv
    OBVIOUS
  <1>1. TypeOK
    <2>1. versions \in Seq(Addresses)
      BY DEF Init
    <2>2. /\ client \in BOOLEAN /\ invoice \in Numbers \cup {NONE} /\ outbox \in Nat
          /\ elsewhere \subseteq Numbers
          /\ ledger \subseteq Events /\ stale \subseteq Events
      BY DEF Init
    <2>3. ~OrderExists /\ order \in [status : OrderStatuses \cup {NONE}, shipping : Nat]
      BY DEF Init, OrderExists, NoOrder
    <2>4. payments \in [Txs -> PaymentStatuses \cup {NONE}]
      BY DEF Init
    <2>5. /\ pc \in [Events -> PCs] /\ locks \in [Events -> SUBSET Resources]
          /\ found \in [Events -> PaymentStatuses \cup {NONE, "row"}]
          /\ status \in [Events -> OrderStatuses \cup {NONE}]
          /\ shipping \in [Events -> Nat]
          /\ outcome \in [Events -> {NONE, "PROCESSED", "DUPLICATE"}]
      BY DEF Init, PCs
    <2> QED
      BY <2>1, <2>2, <2>3, <2>4, <2>5 DEF TypeOK
  <1>2. \A e \in Events : SessionInv(e)
    BY DEF Init, SessionInv, Program, SessionOfOrder, SessionOfPayment, SessionOfInvoice,
       NONE, Past
  <1>3. OneInsertsTheOrder
    BY DEF Init, OneInsertsTheOrder
  <1>4. Facts
    <2>1. RefusedKeyIsTaken /\ KeysAreReported
      BY DEF Init, RefusedKeyIsTaken, KeysAreReported, OrderExists, NoOrder, NONE
    <2>2. StatusHasItsFacts /\ ApprovalIsNotForgotten
      BY DEF Init, StatusHasItsFacts, ApprovalIsNotForgotten, NoOrder, NONE
    <2> QED
      BY <2>1, <2>2 DEF Init, Facts, NoOrder, NONE
  <1> QED
    BY <1>1, <1>2, <1>3, <1>4 DEF StoreInv

(***************************************************************************)
(* What a transaction leaves to the others.                                 *)
(***************************************************************************)

\* The transaction of o does nothing.
Rests(o) ==
    /\ pc'[o] = pc[o] /\ found'[o] = found[o] /\ status'[o] = status[o]
    /\ shipping'[o] = shipping[o] /\ locks'[o] = locks[o] /\ outcome'[o] = outcome[o]

\* The rows others may have read are only added to.
DatabaseGrows ==
    /\ client => client'
    /\ Len(versions') >= Len(versions)
    /\ \A i \in 1..Len(versions) : versions'[i] = versions[i]
    /\ invoice # NONE => invoice' # NONE
    /\ elsewhere \subseteq elsewhere'
    /\ ledger \subseteq ledger'
    /\ \A t \in Txs : payments[t] # NONE => payments'[t] # NONE
    /\ OrderExists => OrderExists' /\ order'.shipping = order.shipping
    /\ order.status \in Past => order'.status \in Past

LEMMA UnchangedGrows ==
    ASSUME TypeOK, UNCHANGED database
    PROVE  DatabaseGrows
  BY LenProperties DEF TypeOK, database, DatabaseGrows, OrderExists

\* Commits of others do not disturb an open transaction.
LEMMA RestKeepsSession ==
    ASSUME TypeOK, versions' \in Seq(Addresses), NEW o \in Events, SessionInv(o),
           Rests(o), DatabaseGrows, "order" \in locks[o] => ~OrderExists'
    PROVE  SessionInv(o)'
  <1>1. /\ pc'[o] = pc[o] /\ status'[o] = status[o]
        /\ shipping'[o] = shipping[o] /\ locks'[o] = locks[o]
    BY DEF Rests
  <1>2. SessionOfOrder(o)'
    <2>1. Len(versions) \in Nat /\ Len(versions') \in Nat /\ Len(versions') >= Len(versions)
      BY LenProperties DEF TypeOK, DatabaseGrows
    <2>2. shipping[o] \in 1..Len(versions) => shipping[o] \in 1..Len(versions')
      BY <2>1
    <2> QED
      BY <1>1, <2>2 DEF SessionInv, SessionOfOrder
  <1>3. /\ SessionOfPayment(o)' <=> SessionOfPayment(o)
        /\ SessionOfInvoice(o)' <=> SessionOfInvoice(o)
    BY <1>1 DEF SessionOfPayment, SessionOfInvoice
  <1> QED
    BY <1>1, <1>2, <1>3 DEF SessionInv, DatabaseGrows, Program

\* A transaction that ends knows nothing.
LEMMA EndedSession ==
    ASSUME TypeOK, NEW e \in Events, EndTransaction(e)
    PROVE  /\ SessionInv(e)'
           /\ locks'[e] = {}
           /\ \A o \in Events \ {e} :
                /\ pc'[o] = pc[o] /\ found'[o] = found[o] /\ status'[o] = status[o]
                /\ shipping'[o] = shipping[o] /\ locks'[o] = locks[o]
  <1>1. /\ pc'[e] = "idle" /\ status'[e] = NONE /\ locks'[e] = {}
    BY DEF EndTransaction, GoTo, TypeOK
  <1>2. SessionInv(e)'
    BY <1>1 DEF SessionInv, Program, SessionOfOrder, SessionOfPayment, SessionOfInvoice,
       NONE, Past
  <1> QED
    BY <1>1, <1>2 DEF EndTransaction, GoTo, TypeOK

\* A statement that writes nothing others can see.
LEMMA StatementKeepsInv ==
    ASSUME StoreInv, NEW e \in Events, TypeOK', UNCHANGED <<database, outcome, stale>>,
           \A o \in Events \ {e} : Rests(o),
           SessionInv(e)',
           "order" \in locks'[e] => "order" \in locks[e] \/ LockIsFree(e, "order")
    PROVE  StoreInv'
  <1>1. DatabaseGrows /\ versions' \in Seq(Addresses)
    BY UnchangedGrows DEF StoreInv, TypeOK, database
  <1>2. \A o \in Events : SessionInv(o)'
    <2>1. \A o \in Events \ {e} : "order" \in locks[o] => ~OrderExists'
      BY DEF StoreInv, SessionInv, SessionOfOrder, OrderExists, database
    <2> QED
      BY <1>1, <2>1, RestKeepsSession DEF StoreInv
  <1>3. OneInsertsTheOrder'
    BY DEF StoreInv, OneInsertsTheOrder, LockIsFree, Rests
  <1>4. Facts'
    BY DEF StoreInv, Facts, StatusHasItsFacts, ApprovalIsNotForgotten, KeysAreReported,
       RefusedKeyIsTaken, OrderExists, database
  <1> QED
    BY <1>2, <1>3, <1>4 DEF StoreInv

\* A transaction that is rolled back.
LEMMA RollbackKeepsInv ==
    ASSUME StoreInv, NEW e \in Events, Rollback(e)
    PROVE  StoreInv'
  <1>1. EndTransaction(e) /\ UNCHANGED <<database, outcome, stale>>
    BY DEF Rollback
  <1>2. TypeOK'
    BY <1>1 DEF StoreInv, TypeOK, EndTransaction, GoTo, database, PCs, OrderExists
  <1>3. SessionInv(e)' /\ locks'[e] = {} /\ \A o \in Events \ {e} : Rests(o)
    BY <1>1, EndedSession DEF StoreInv, Rests
  <1> QED
    BY <1>1, <1>2, <1>3, StatementKeepsInv

\* The unique key that e would insert has been committed by another event.
KeyTaken(e) ==
    \/ \E o \in ledger : SameKey(e, o)
    \/ e.type = "invoice.issued" /\ e.number \in elsewhere

LEMMA RefusalKeepsInv ==
    ASSUME StoreInv, NEW e \in Events, RefusedByConstraint(e), KeyTaken(e)
    PROVE  StoreInv'
  <1>1. /\ EndTransaction(e) /\ UNCHANGED <<database, stale>>
        /\ outcome' = [outcome EXCEPT ![e] = "DUPLICATE"]
    BY DEF RefusedByConstraint
  <1>2. TypeOK'
    BY <1>1 DEF StoreInv, TypeOK, EndTransaction, GoTo, database, PCs, OrderExists
  <1>3. SessionInv(e)' /\ locks'[e] = {} /\ \A o \in Events \ {e} : Rests(o)
    BY <1>1, EndedSession DEF StoreInv, Rests, TypeOK
  <1>4. DatabaseGrows /\ versions' \in Seq(Addresses)
    BY <1>1, UnchangedGrows DEF StoreInv, TypeOK, database
  <1>5. \A o \in Events : SessionInv(o)'
    <2>1. \A o \in Events \ {e} : "order" \in locks[o] => ~OrderExists'
      BY <1>1 DEF StoreInv, SessionInv, SessionOfOrder, OrderExists, database
    <2> QED
      BY <1>3, <1>4, <2>1, RestKeepsSession DEF StoreInv
  <1>6. OneInsertsTheOrder'
    BY <1>3 DEF StoreInv, OneInsertsTheOrder, Rests
  <1>7. RefusedKeyIsTaken' /\ KeysAreReported'
    <2>1. \A o \in Events : outcome'[o] = "DUPLICATE" => o = e \/ outcome[o] = "DUPLICATE"
      BY <1>1 DEF StoreInv, TypeOK
    <2> QED
      BY <1>1, <2>1 DEF StoreInv, Facts, RefusedKeyIsTaken, KeysAreReported, KeyTaken,
         OrderExists, database
  <1>8. Facts'
    BY <1>1, <1>7 DEF StoreInv, Facts, StatusHasItsFacts, ApprovalIsNotForgotten, database
  <1> QED
    BY <1>2, <1>5, <1>6, <1>8 DEF StoreInv

(***************************************************************************)
(* The statements.                                                          *)
(***************************************************************************)

\* ALLOWED_ORDER_TRANSITIONS, entry by entry.
LEMMA AllowedMoves ==
    /\ Allowed("PENDING") = {"APPROVED", "CANCELLED"}
    /\ Allowed("APPROVED") = {"INVOICED", "CANCELLED"}
    /\ Allowed("INVOICED") = {}
  BY DEF Allowed

\* The fields of the events.
LEMMA EventFields ==
    ASSUME NEW e \in Events
    PROVE  /\ e.type \in {"client.upserted", "order.created", "payment.updated", "invoice.issued"}
           /\ e.type = "client.upserted" => e.address \in Addresses
           /\ e.type = "payment.updated" => e.tx \in Txs /\ e.status \in PaymentStatuses
           /\ e.type = "invoice.issued" => e.number \in Numbers
  BY DEF EventShape

LEMMA ClientStatementKeepsInv ==
    ASSUME StoreInv, NEW e \in Events, BeginClient(e) \/ WriteClient(e)
    PROVE  StoreInv'
  <1>0. TypeOK /\ SessionInv(e)
    BY DEF StoreInv
  <1>1. CASE BeginClient(e)
    <2>1. TypeOK'
      BY <1>0, <1>1 DEF BeginClient, GoTo, TypeOK, PCs, OrderExists, database
    <2>2. SessionInv(e)'
      BY <1>0, <1>1 DEF BeginClient, MayBegin, GoTo, TypeOK, SessionInv, Program,
         SessionOfOrder, NONE, Past
    <2>3. \A o \in Events \ {e} : Rests(o)
      BY <1>0, <1>1 DEF BeginClient, GoTo, TypeOK, Rests
    <2> QED
      BY <1>1, <2>1, <2>2, <2>3, StatementKeepsInv DEF BeginClient
  <1>2. ASSUME WriteClient(e), RefusedByConstraint(e), client PROVE StoreInv'
    <2>1. KeyTaken(e)
      BY <1>0, <1>2 DEF SessionInv, Program, WriteClient, KeyTaken, SameKey, StoreInv, Facts,
         KeysAreReported
    <2> QED
      BY <1>2, <2>1, RefusalKeepsInv
  <1>3. ASSUME WriteClient(e), Lock(e, "client"), GoTo(e, "commit"),
               UNCHANGED <<database, found, status, shipping, outcome, stale>>
        PROVE  StoreInv'
    <2>1. TypeOK'
      BY <1>0, <1>3 DEF GoTo, Lock, Resources, TypeOK, PCs, OrderExists, database
    <2>2. /\ pc'[e] = "commit" /\ locks'[e] = locks[e] \cup {"client"}
          /\ e.type = "client.upserted"
      BY <1>0, <1>3 DEF GoTo, Lock, TypeOK, WriteClient, SessionInv, Program
    <2>3. SessionInv(e)'
      BY <1>0, <1>3, <2>2 DEF SessionInv, Program, SessionOfOrder, OrderExists, database
    <2>4. \A o \in Events \ {e} : Rests(o)
      BY <1>0, <1>3 DEF GoTo, Lock, TypeOK, Rests
    <2> QED
      BY <1>3, <2>1, <2>2, <2>3, <2>4, StatementKeepsInv
  <1> QED
    BY <1>1, <1>2, <1>3 DEF WriteClient

LEMMA OrderStatementKeepsInv ==
    ASSUME StoreInv, NEW e \in Events, BeginOrder(e) \/ ReadAddress(e) \/ InsertOrder(e)
    PROVE  StoreInv'
  <1>0. TypeOK /\ SessionInv(e)
    BY DEF StoreInv
  <1>1. CASE BeginOrder(e)
    <2>1. TypeOK'
      BY <1>0, <1>1 DEF BeginOrder, GoTo, TypeOK, PCs, OrderExists, database
    <2>2. SessionInv(e)'
      BY <1>0, <1>1 DEF BeginOrder, MayBegin, GoTo, TypeOK, SessionInv, Program,
         SessionOfOrder, NONE, Past
    <2>3. \A o \in Events \ {e} : Rests(o)
      BY <1>0, <1>1 DEF BeginOrder, GoTo, TypeOK, Rests
    <2> QED
      BY <1>1, <2>1, <2>2, <2>3, StatementKeepsInv DEF BeginOrder
  <1>2. CASE ReadAddress(e)
    <2>1. Len(versions) \in Nat /\ Len(versions) # 0
      BY <1>2, LenProperties, EmptySeq DEF StoreInv, Facts, TypeOK, ReadAddress
    <2>2. TypeOK'
      BY <1>0, <1>2, <2>1 DEF ReadAddress, GoTo, TypeOK, PCs, OrderExists, database
    <2>3. /\ e.type = "order.created" /\ pc'[e] = "insert_order"
          /\ shipping'[e] = Len(versions)
      BY <1>0, <1>2 DEF ReadAddress, GoTo, TypeOK, SessionInv, Program
    <2>4. SessionInv(e)'
      BY <1>0, <1>2, <2>1, <2>3 DEF ReadAddress, SessionInv, Program, SessionOfOrder,
         OrderExists, database
    <2>5. \A o \in Events \ {e} : Rests(o)
      BY <1>0, <1>2 DEF ReadAddress, GoTo, TypeOK, Rests
    <2> QED
      BY <1>2, <2>2, <2>4, <2>5, StatementKeepsInv DEF ReadAddress
  <1>3. ASSUME InsertOrder(e), OrderExists, RefusedByConstraint(e) PROVE StoreInv'
    <2>1. KeyTaken(e)
      BY <1>0, <1>3 DEF SessionInv, Program, InsertOrder, KeyTaken, SameKey, StoreInv, Facts,
         KeysAreReported
    <2> QED
      BY <1>3, <2>1, RefusalKeepsInv
  <1>4. ASSUME InsertOrder(e), ~OrderExists, Lock(e, "order"), GoTo(e, "commit"),
               UNCHANGED <<database, found, status, shipping, outcome, stale>>
        PROVE  StoreInv'
    <2>1. TypeOK'
      BY <1>0, <1>4 DEF GoTo, Lock, Resources, TypeOK, PCs, OrderExists, database
    <2>2. /\ pc'[e] = "commit" /\ e.type = "order.created"
          /\ shipping'[e] \in 1..Len(versions)
      BY <1>0, <1>4 DEF GoTo, TypeOK, InsertOrder, SessionInv, SessionOfOrder, Program
    <2>3. SessionInv(e)'
      BY <1>0, <1>4, <2>2 DEF SessionInv, Program, SessionOfOrder, OrderExists, database
    <2>4. \A o \in Events \ {e} : Rests(o)
      BY <1>0, <1>4 DEF GoTo, Lock, TypeOK, Rests
    <2>5. LockIsFree(e, "order")
      BY <1>4 DEF InsertOrder
    <2> QED
      BY <1>4, <2>1, <2>3, <2>4, <2>5, StatementKeepsInv
  <1> QED
    BY <1>1, <1>2, <1>3, <1>4 DEF InsertOrder

\* Where the handlers of payments and invoices find the order when they load it.
LEMMA LoadedStatus ==
    ASSUME StoreInv, OrderExists
    PROVE  order.status \in Past \cup {"PENDING"}
  BY DEF StoreInv, TypeOK, Facts, OrderExists, Past, OrderStatuses, NONE

LEMMA PaymentStatementKeepsInv ==
    ASSUME StoreInv, NEW e \in Events,
           BeginPayment(e) \/ ReadPayment(e) \/ WritePayment(e) \/ Approve(e)
    PROVE  StoreInv'
  <1>0. TypeOK /\ SessionInv(e)
    BY DEF StoreInv
  <1>1. CASE BeginPayment(e)
    <2>1. TypeOK'
      BY <1>0, <1>1 DEF BeginPayment, LoadOrder, GoTo, TypeOK, PCs, OrderExists, database
    <2>2. /\ e.type = "payment.updated" /\ pc'[e] = "read_payment" /\ locks'[e] = {}
          /\ status'[e] = order.status /\ order.status \in Past \cup {"PENDING"}
      BY <1>0, <1>1, LoadedStatus
      DEF BeginPayment, LoadOrder, MayBegin, GoTo, TypeOK, SessionInv
    <2>3. SessionInv(e)'
      BY <1>1, <2>2 DEF BeginPayment, SessionInv, Program, SessionOfOrder, SessionOfPayment,
         Past, OrderExists, database
    <2>4. \A o \in Events \ {e} : Rests(o)
      BY <1>0, <1>1 DEF BeginPayment, LoadOrder, GoTo, TypeOK, Rests
    <2>5. locks' = locks
      BY <1>1 DEF BeginPayment
    <2> QED
      BY <1>1, <2>1, <2>3, <2>4, <2>5, StatementKeepsInv DEF BeginPayment
  <1>2. CASE ReadPayment(e)
    <2>1. TypeOK'
      BY <1>0, <1>2, EventFields DEF ReadPayment, GoTo, TypeOK, PCs, OrderExists, database,
         SessionInv, Program
    <2>2. e.type = "payment.updated" /\ pc[e] = "read_payment" /\ pc'[e] = "write_payment"
      BY <1>0, <1>2 DEF ReadPayment, GoTo, TypeOK, SessionInv, Program
    <2>3. SessionInv(e)'
      BY <1>0, <1>2, <2>2 DEF ReadPayment, SessionInv, Program, SessionOfOrder,
         SessionOfPayment, OrderExists, database
    <2>4. \A o \in Events \ {e} : Rests(o)
      BY <1>0, <1>2 DEF ReadPayment, GoTo, TypeOK, Rests
    <2>5. locks' = locks
      BY <1>2 DEF ReadPayment
    <2> QED
      BY <1>2, <2>1, <2>3, <2>4, <2>5, StatementKeepsInv DEF ReadPayment
  <1>3. ASSUME WritePayment(e), payments[e.tx] # NONE, RefusedByConstraint(e) PROVE StoreInv'
    <2>1. KeyTaken(e)
      BY <1>0, <1>3, EventFields DEF SessionInv, Program, WritePayment, KeyTaken, SameKey,
         StoreInv, Facts, KeysAreReported
    <2> QED
      BY <1>3, <2>1, RefusalKeepsInv
  <1>4. ASSUME WritePayment(e), locks' = locks \/ Lock(e, e.tx), GoTo(e, AfterPayment(e)),
               UNCHANGED <<database, found, status, shipping, outcome, stale>>
        PROVE  StoreInv'
    <2>1. /\ e.type = "payment.updated" /\ pc[e] = "write_payment"
          /\ e.tx \in Txs /\ e.tx \notin {"order", "order_row"}
      BY <1>0, <1>4, EventFields DEF WritePayment, SessionInv, Program
    <2>2. /\ pc'[e] = AfterPayment(e)
          /\ \A o \in Events \ {e} : pc'[o] = pc[o] /\ locks'[o] = locks[o]
          /\ locks'[e] = locks[e] \/ locks'[e] = locks[e] \cup {e.tx}
          /\ locks' \in [Events -> SUBSET Resources]
      <3>1. /\ pc'[e] = AfterPayment(e)
            /\ \A o \in Events \ {e} : pc'[o] = pc[o]
        BY <1>0, <1>4 DEF GoTo, TypeOK
      <3>2. locks[e] \cup {e.tx} \in SUBSET Resources
        BY <1>0, <2>1 DEF TypeOK, Resources
      <3>3. CASE locks' = locks
        BY <1>0, <3>1, <3>3 DEF TypeOK
      <3>4. CASE Lock(e, e.tx)
        BY <1>0, <3>1, <3>2, <3>4 DEF Lock, TypeOK
      <3> QED
        BY <1>4, <3>3, <3>4
    <2>3. status[e] \in Past \cup {"PENDING"}
      BY <1>0, <2>1 DEF SessionInv, SessionOfPayment
    <2>4. \/ AfterPayment(e) = "approve" /\ e.status = "APPROVED" /\ status[e] = "PENDING"
          \/ AfterPayment(e) = "commit" /\ (e.status = "APPROVED" => status[e] \in Past)
      <3>1. MayMove(e, "APPROVED") <=> status[e] = "PENDING"
        BY <2>3, AllowedMoves DEF MayMove, Past
      <3> QED
        BY <2>3, <3>1 DEF AfterPayment
    <2>5. TypeOK'
      BY <1>0, <1>4, <2>2, <2>4 DEF GoTo, TypeOK, PCs, OrderExists, database
    <2>6. SessionInv(e)'
      <3>1. "order" \in locks'[e] => "order" \in locks[e]
        BY <2>1, <2>2
      <3>2. "order_row" \in locks'[e] <=> "order_row" \in locks[e]
        BY <2>1, <2>2
      <3> QED
        BY <1>0, <1>4, <2>1, <2>2, <2>3, <2>4, <3>1, <3>2
        DEF SessionInv, Program, SessionOfOrder, SessionOfPayment, OrderExists, database
    <2>7. \A o \in Events \ {e} : Rests(o)
      BY <1>4, <2>2 DEF Rests
    <2>8. "order" \in locks'[e] => "order" \in locks[e]
      BY <2>1, <2>2
    <2> QED
      BY <1>4, <2>5, <2>6, <2>7, <2>8, StatementKeepsInv
  <1>5. CASE Approve(e)
    <2>1. TypeOK'
      BY <1>0, <1>5 DEF Approve, LockOrderRow, GoTo, Lock, Resources, TypeOK, PCs,
         OrderExists, database
    <2>2. /\ e.type = "payment.updated" /\ pc[e] = "approve" /\ pc'[e] = "commit"
          /\ locks'[e] = locks[e] \cup {"order_row"}
      BY <1>0, <1>5 DEF Approve, LockOrderRow, GoTo, Lock, TypeOK, SessionInv, Program
    <2>3. SessionInv(e)'
      BY <1>0, <1>5, <2>2 DEF Approve, LockOrderRow, SessionInv, Program, SessionOfOrder,
         SessionOfPayment, OrderExists, database
    <2>4. \A o \in Events \ {e} : Rests(o)
      BY <1>0, <1>5 DEF Approve, LockOrderRow, GoTo, Lock, TypeOK, Rests
    <2> QED
      BY <1>5, <2>1, <2>2, <2>3, <2>4, StatementKeepsInv DEF Approve, LockOrderRow
  <1> QED
    BY <1>1, <1>2, <1>3, <1>4, <1>5 DEF WritePayment

LEMMA InvoiceStatementKeepsInv ==
    ASSUME StoreInv, NEW e \in Events,
           BeginInvoice(e) \/ ReadInvoice(e) \/ InsertInvoice(e) \/ Bill(e)
    PROVE  StoreInv'
  <1>0. TypeOK /\ SessionInv(e)
    BY DEF StoreInv
  <1>1. CASE BeginInvoice(e)
    <2>1. TypeOK'
      BY <1>0, <1>1 DEF BeginInvoice, LoadOrder, GoTo, TypeOK, PCs, OrderExists, database
    <2>2. /\ e.type = "invoice.issued" /\ pc'[e] = "read_invoice" /\ locks'[e] = {}
          /\ status'[e] = order.status /\ order.status \in Past \cup {"PENDING"}
      BY <1>0, <1>1, LoadedStatus
      DEF BeginInvoice, LoadOrder, MayBegin, GoTo, TypeOK, SessionInv
    <2>3. SessionInv(e)'
      BY <1>1, <2>2 DEF BeginInvoice, SessionInv, Program, SessionOfOrder, SessionOfInvoice,
         Past, OrderExists, database
    <2>4. \A o \in Events \ {e} : Rests(o)
      BY <1>0, <1>1 DEF BeginInvoice, LoadOrder, GoTo, TypeOK, Rests
    <2>5. locks' = locks
      BY <1>1 DEF BeginInvoice
    <2> QED
      BY <1>1, <2>1, <2>3, <2>4, <2>5, StatementKeepsInv DEF BeginInvoice
  <1>2. CASE ReadInvoice(e)
    <2>1. TypeOK'
      BY <1>0, <1>2 DEF ReadInvoice, GoTo, TypeOK, PCs, OrderExists, database
    <2>2. /\ e.type = "invoice.issued" /\ pc[e] = "read_invoice"
          /\ pc'[e] \in {"commit", "insert_invoice"}
      BY <1>0, <1>2 DEF ReadInvoice, GoTo, TypeOK, SessionInv, Program
    <2>3. SessionInv(e)'
      BY <1>0, <1>2, <2>2 DEF ReadInvoice, SessionInv, Program, SessionOfOrder,
         SessionOfInvoice, OrderExists, database
    <2>4. \A o \in Events \ {e} : Rests(o)
      BY <1>0, <1>2 DEF ReadInvoice, GoTo, TypeOK, Rests
    <2>5. locks' = locks
      BY <1>2 DEF ReadInvoice
    <2> QED
      BY <1>2, <2>1, <2>3, <2>4, <2>5, StatementKeepsInv DEF ReadInvoice
  <1>3. ASSUME InsertInvoice(e), InvoiceKeyIsTaken(e), RefusedByConstraint(e) PROVE StoreInv'
    <2>1. KeyTaken(e)
      BY <1>0, <1>3 DEF SessionInv, Program, InsertInvoice, InvoiceKeyIsTaken, KeyTaken, SameKey,
         StoreInv, Facts, KeysAreReported
    <2> QED
      BY <1>3, <2>1, RefusalKeepsInv
  <1>4. ASSUME InsertInvoice(e), Lock(e, "invoice"),
               GoTo(e, IF MayMove(e, "INVOICED") THEN "bill" ELSE "commit"),
               UNCHANGED <<database, found, status, shipping, outcome, stale>>
        PROVE  StoreInv'
    <2>1. /\ e.type = "invoice.issued" /\ pc[e] = "insert_invoice"
          /\ pc'[e] \in {"bill", "commit"}
          /\ pc'[e] = "bill" => MayMove(e, "INVOICED")
          /\ locks'[e] = locks[e] \cup {"invoice"}
      BY <1>0, <1>4 DEF InsertInvoice, GoTo, Lock, TypeOK, SessionInv, Program
    <2>2. status[e] \in Past \cup {"PENDING"}
      BY <1>0, <2>1 DEF SessionInv, SessionOfInvoice
    <2>3. pc'[e] = "bill" => status[e] = "APPROVED"
      BY <2>1, <2>2, AllowedMoves DEF MayMove, Past
    <2>4. TypeOK'
      BY <1>0, <1>4 DEF GoTo, Lock, Resources, TypeOK, PCs, OrderExists, database
    <2>5. SessionInv(e)'
      BY <1>0, <1>4, <2>1, <2>2, <2>3 DEF SessionInv, Program, SessionOfOrder,
         SessionOfInvoice, OrderExists, database
    <2>6. \A o \in Events \ {e} : Rests(o)
      BY <1>0, <1>4 DEF GoTo, Lock, TypeOK, Rests
    <2> QED
      BY <1>4, <2>1, <2>4, <2>5, <2>6, StatementKeepsInv
  <1>5. CASE Bill(e)
    <2>1. TypeOK'
      BY <1>0, <1>5 DEF Bill, LockOrderRow, GoTo, Lock, Resources, TypeOK, PCs,
         OrderExists, database
    <2>2. /\ e.type = "invoice.issued" /\ pc[e] = "bill" /\ pc'[e] = "commit"
          /\ locks'[e] = locks[e] \cup {"order_row"}
      BY <1>0, <1>5 DEF Bill, LockOrderRow, GoTo, Lock, TypeOK, SessionInv, Program
    <2>3. SessionInv(e)'
      BY <1>0, <1>5, <2>2 DEF Bill, LockOrderRow, SessionInv, Program, SessionOfOrder,
         SessionOfInvoice, OrderExists, database
    <2>4. \A o \in Events \ {e} : Rests(o)
      BY <1>0, <1>5 DEF Bill, LockOrderRow, GoTo, Lock, TypeOK, Rests
    <2> QED
      BY <1>5, <2>1, <2>2, <2>3, <2>4, StatementKeepsInv DEF Bill, LockOrderRow
  <1> QED
    BY <1>1, <1>2, <1>3, <1>4, <1>5 DEF InsertInvoice

(***************************************************************************)
(* The commits.                                                             *)
(***************************************************************************)

\* A commit that adds to the database, and agrees with itself.
LEMMA CommitKeepsInv ==
    ASSUME StoreInv, NEW e \in Events, Processed(e), DatabaseGrows,
           versions' \in Seq(Addresses), client' \in BOOLEAN,
           invoice' \in Numbers \cup {NONE}, elsewhere' = elsewhere,
           order' \in [status : OrderStatuses \cup {NONE}, shipping : Nat],
           OrderExists' => order'.shipping \in 1..Len(versions'),
           payments' \in [Txs -> PaymentStatuses \cup {NONE}],
           outbox' \in Nat, stale' \subseteq Events,
           client' => versions' # << >>, order'.status # "CANCELLED", StatusHasItsFacts',
           e.type = "payment.updated" /\ e.status = "APPROVED" => order'.status \in Past,
           stale' = {} => outbox' <= 1,
           client' => client \/ e.type = "client.upserted",
           OrderExists' => OrderExists \/ e.type = "order.created",
           \A t \in Txs : payments'[t] # NONE =>
                payments[t] # NONE \/ (e.type = "payment.updated" /\ e.tx = t),
           invoice' # NONE => invoice # NONE \/ e.type = "invoice.issued",
           \A o \in Events \ {e} : "order" \in locks[o] => ~OrderExists'
    PROVE  StoreInv'
  <1>1. /\ EndTransaction(e) /\ ledger' = ledger \cup {e}
        /\ outcome' = [outcome EXCEPT ![e] = "PROCESSED"]
    BY DEF Processed
  <1>2. TypeOK'
    <2>1. /\ ledger' \subseteq Events /\ elsewhere' \subseteq Numbers
          /\ outcome' \in [Events -> {NONE, "PROCESSED", "DUPLICATE"}]
      BY <1>1 DEF StoreInv, TypeOK
    <2>2. /\ pc' \in [Events -> PCs]
          /\ found' \in [Events -> PaymentStatuses \cup {NONE, "row"}]
          /\ status' \in [Events -> OrderStatuses \cup {NONE}]
          /\ shipping' \in [Events -> Nat]
          /\ locks' \in [Events -> SUBSET Resources]
      BY <1>1 DEF StoreInv, TypeOK, EndTransaction, GoTo, PCs
    <2> QED
      BY <2>1, <2>2 DEF TypeOK
  <1>3. SessionInv(e)' /\ locks'[e] = {} /\ \A o \in Events \ {e} : Rests(o)
    BY <1>1, EndedSession DEF StoreInv, Rests, TypeOK
  <1>4. \A o \in Events : SessionInv(o)'
    BY <1>3, RestKeepsSession DEF StoreInv
  <1>5. OneInsertsTheOrder'
    BY <1>3 DEF StoreInv, OneInsertsTheOrder, Rests
  <1>6. RefusedKeyIsTaken'
    <2>1. \A o \in Events : outcome'[o] = "DUPLICATE" => outcome[o] = "DUPLICATE"
      BY <1>1 DEF StoreInv, TypeOK
    <2> QED
      BY <1>1, <2>1 DEF StoreInv, Facts, RefusedKeyIsTaken, SameKey
  <1>7. KeysAreReported'
    <2>1. ledger \subseteq ledger' /\ e \in ledger'
      BY <1>1
    <2> QED
      BY <2>1 DEF StoreInv, Facts, KeysAreReported
  <1>8. ApprovalIsNotForgotten'
    BY <1>1 DEF StoreInv, Facts, ApprovalIsNotForgotten, DatabaseGrows, Past
  <1> QED
    BY <1>2, <1>4, <1>5, <1>6, <1>7, <1>8 DEF StoreInv, Facts

\* Versions are only added: VersionsAfter never changes one.
LEMMA VersionsAreAdded ==
    ASSUME versions \in Seq(Addresses), NEW a \in Addresses
    PROVE  /\ VersionsAfter(a) \in Seq(Addresses)
           /\ VersionsAfter(a) # << >>
           /\ Len(VersionsAfter(a)) >= Len(versions)
           /\ \A i \in 1..Len(versions) : VersionsAfter(a)[i] = versions[i]
  <1>1. CASE versions # << >> /\ versions[Len(versions)] = a
    BY <1>1, LenProperties DEF VersionsAfter
  <1>2. CASE ~(versions # << >> /\ versions[Len(versions)] = a)
    <2>1. VersionsAfter(a) = Append(versions, a)
      BY <1>2 DEF VersionsAfter
    <2>2. /\ Append(versions, a) \in Seq(Addresses) /\ Len(Append(versions, a)) = Len(versions) + 1
          /\ \A i \in 1..Len(versions) : Append(versions, a)[i] = versions[i]
      BY AppendProperties
    <2>3. Len(versions) \in Nat
      BY LenProperties
    <2>4. Append(versions, a) # << >>
      BY <2>2, <2>3
    <2> QED
      BY <2>1, <2>2, <2>3, <2>4
  <1> QED
    BY <1>1, <1>2

LEMMA CommitClientKeepsInv ==
    ASSUME StoreInv, NEW e \in Events, CommitClient(e)
    PROVE  StoreInv' /\ DatabaseGrows
  <1>1. /\ e.type = "client.upserted" /\ e.address \in Addresses /\ client' = TRUE
        /\ versions' = VersionsAfter(e.address) /\ Processed(e)
        /\ UNCHANGED <<order, payments, invoice, elsewhere, outbox, stale>>
    BY EventFields DEF CommitClient
  <1>2. /\ versions' \in Seq(Addresses) /\ versions' # << >> /\ Len(versions') >= Len(versions)
        /\ \A i \in 1..Len(versions) : versions'[i] = versions[i]
    BY <1>1, VersionsAreAdded DEF StoreInv, TypeOK
  <1>3. DatabaseGrows
    BY <1>1, <1>2 DEF DatabaseGrows, OrderExists, Processed
  <1>4. OrderExists' => order'.shipping \in 1..Len(versions')
    <2>1. Len(versions) \in Nat /\ Len(versions') \in Nat
      BY <1>2, LenProperties DEF StoreInv, TypeOK
    <2> QED
      BY <1>1, <1>2, <2>1 DEF StoreInv, TypeOK, OrderExists
  <1>5. \A o \in Events \ {e} : "order" \in locks[o] => ~OrderExists'
    BY <1>1 DEF StoreInv, SessionInv, SessionOfOrder, OrderExists
  <1>6. StatusHasItsFacts'
    BY <1>1 DEF StoreInv, Facts, StatusHasItsFacts
  <1> QED
    BY <1>1, <1>2, <1>3, <1>4, <1>5, <1>6, CommitKeepsInv DEF StoreInv, TypeOK, Facts, OrderExists

LEMMA CommitOrderKeepsInv ==
    ASSUME StoreInv, NEW e \in Events, CommitOrder(e)
    PROVE  StoreInv' /\ DatabaseGrows
  <1>1. /\ e.type = "order.created" /\ Processed(e)
        /\ UNCHANGED <<client, versions, payments, invoice, elsewhere, outbox, stale>>
    BY DEF CommitOrder
  <1>2. CASE "order" \in locks[e]
    <2>1. /\ order' = [status |-> "PENDING", shipping |-> shipping[e]] /\ ~OrderExists
          /\ shipping[e] \in 1..Len(versions)
      BY <1>2 DEF CommitOrder, StoreInv, SessionInv, SessionOfOrder
    <2>2. order' \in [status : OrderStatuses \cup {NONE}, shipping : Nat]
      BY <2>1 DEF StoreInv, TypeOK, OrderStatuses
    <2>3. OrderExists' /\ order.status \notin Past /\ order'.status = "PENDING"
          /\ order'.shipping \in 1..Len(versions')
      BY <1>1, <2>1 DEF OrderExists, NONE, Past
    <2>4. DatabaseGrows
      BY <1>1, <2>1, <2>3, LenProperties DEF DatabaseGrows, StoreInv, TypeOK, Processed
    <2>5. \A o \in Events \ {e} : "order" \notin locks[o]
      BY <1>2 DEF StoreInv, OneInsertsTheOrder
    <2>6. StatusHasItsFacts'
      BY <1>1, <2>3 DEF StoreInv, Facts, StatusHasItsFacts, Past
    <2> QED
      BY <1>1, <2>2, <2>3, <2>4, <2>5, <2>6, CommitKeepsInv DEF StoreInv, TypeOK, Facts
  <1>3. CASE "order" \notin locks[e]
    <2>1. order' = order
      BY <1>3 DEF CommitOrder
    <2>2. DatabaseGrows
      BY <1>1, <2>1, LenProperties DEF DatabaseGrows, StoreInv, TypeOK, OrderExists, Processed
    <2>3. \A o \in Events \ {e} : "order" \in locks[o] => ~OrderExists'
      BY <2>1 DEF StoreInv, SessionInv, SessionOfOrder, OrderExists
    <2>4. StatusHasItsFacts'
      BY <1>1, <2>1 DEF StoreInv, Facts, StatusHasItsFacts
    <2>5. OrderExists' => order'.shipping \in 1..Len(versions')
      BY <1>1, <2>1 DEF StoreInv, TypeOK, OrderExists
    <2> QED
      BY <1>1, <2>1, <2>2, <2>3, <2>4, <2>5, CommitKeepsInv DEF StoreInv, TypeOK, Facts
  <1> QED
    BY <1>2, <1>3

\* What the UPDATE of orders does, whatever was read before.
LEMMA MovedOrder ==
    ASSUME StoreInv, NEW e \in Events, NEW to \in Past, MoveOrder(e, to),
           "order_row" \in locks[e] => OrderExists
    PROVE  /\ order' \in [status : OrderStatuses \cup {NONE}, shipping : Nat]
           /\ order'.shipping = order.shipping
           /\ order'.status = IF "order_row" \in locks[e] THEN to ELSE order.status
           /\ OrderExists' <=> OrderExists
           /\ stale' \subseteq Events
           /\ stale \subseteq stale'
           /\ "order_row" \in locks[e] /\ stale' = {} => order.status = status[e]
  <1>1. CASE "order_row" \in locks[e]
    <2>1. /\ order' = [order EXCEPT !.status = to]
          /\ stale' = IF order.status = status[e] THEN stale ELSE stale \cup {e}
      BY <1>1 DEF MoveOrder
    <2>2. /\ order \in [status : OrderStatuses \cup {NONE}, shipping : Nat]
          /\ stale \subseteq Events /\ OrderExists
      BY <1>1 DEF StoreInv, TypeOK
    <2> QED
      BY <1>1, <2>1, <2>2 DEF OrderStatuses, OrderExists, Past, NONE
  <1>2. CASE "order_row" \notin locks[e]
    BY <1>2 DEF MoveOrder, StoreInv, TypeOK, OrderExists
  <1> QED
    BY <1>1, <1>2

LEMMA CommitPaymentKeepsInv ==
    ASSUME StoreInv, NEW e \in Events, CommitPayment(e)
    PROVE  StoreInv' /\ DatabaseGrows
  <1>1. /\ e.type = "payment.updated" /\ e.tx \in Txs /\ e.status \in PaymentStatuses
        /\ pc[e] = "commit" /\ Processed(e) /\ MoveOrder(e, "APPROVED")
        /\ UNCHANGED <<client, versions, invoice, elsewhere>>
    BY EventFields DEF CommitPayment
  <1>2. /\ "order_row" \in locks[e] => status[e] = "PENDING" /\ OrderExists
        /\ "order_row" \notin locks[e] /\ e.status = "APPROVED" => order.status \in Past
    BY <1>1 DEF StoreInv, SessionInv, SessionOfPayment, NONE
  <1>3. /\ order' \in [status : OrderStatuses \cup {NONE}, shipping : Nat]
        /\ order'.shipping = order.shipping
        /\ order'.status = IF "order_row" \in locks[e] THEN "APPROVED" ELSE order.status
        /\ OrderExists' <=> OrderExists
        /\ stale' \subseteq Events /\ stale \subseteq stale'
        /\ "order_row" \in locks[e] /\ stale' = {} => order.status = status[e]
    BY <1>1, <1>2, MovedOrder DEF Past
  <1>4. /\ payments' \in [Txs -> PaymentStatuses \cup {NONE}]
        /\ \A t \in Txs : payments[t] # NONE => payments'[t] # NONE
        /\ \A t \in Txs : payments'[t] # NONE => payments[t] # NONE \/ e.tx = t
    <2>1. NONE \notin PaymentStatuses
      BY DEF NONE, PaymentStatuses
    <2> QED
      BY <1>1, <2>1 DEF CommitPayment, StoreInv, TypeOK
  <1>5. /\ outbox \in Nat
        /\ outbox' = IF "order_row" \in locks[e] THEN outbox + 1 ELSE outbox
    BY DEF CommitPayment, MessagesOf, StoreInv, TypeOK
  <1>6. StatusHasItsFacts'
    BY <1>1, <1>3, <1>5 DEF StoreInv, Facts, StatusHasItsFacts
  <1>7. stale' = {} => outbox' <= 1
    BY <1>2, <1>3, <1>5 DEF StoreInv, Facts, StatusHasItsFacts
  <1>8. DatabaseGrows
    BY <1>1, <1>3, <1>4, LenProperties DEF DatabaseGrows, StoreInv, TypeOK, Past, Processed
  <1>9. \A o \in Events \ {e} : "order" \in locks[o] => ~OrderExists'
    BY <1>3 DEF StoreInv, SessionInv, SessionOfOrder
  <1>10. /\ OrderExists' => order'.shipping \in 1..Len(versions')
         /\ order'.status # "CANCELLED"
         /\ e.status = "APPROVED" => order'.status \in Past
    BY <1>1, <1>2, <1>3 DEF StoreInv, TypeOK, Facts, Past
  <1>11. /\ versions' \in Seq(Addresses) /\ client' \in BOOLEAN
         /\ invoice' \in Numbers \cup {NONE}
         /\ outbox' \in Nat
         /\ client' => versions' # << >>
    BY <1>1, <1>5 DEF StoreInv, TypeOK, Facts
  <1> QED
    BY <1>1, <1>3, <1>4, <1>6, <1>7, <1>8, <1>9, <1>10, <1>11, CommitKeepsInv

LEMMA CommitInvoiceKeepsInv ==
    ASSUME StoreInv, NEW e \in Events, CommitInvoice(e)
    PROVE  StoreInv' /\ DatabaseGrows
  <1>1. /\ e.type = "invoice.issued"
        /\ Processed(e) /\ MoveOrder(e, "INVOICED")
        /\ UNCHANGED <<client, versions, payments, elsewhere, outbox>>
        /\ invoice' = (IF "invoice" \in locks[e] THEN e.number ELSE invoice)
        /\ e.number \in Numbers
    BY EventFields DEF CommitInvoice
  <1>2. "order_row" \in locks[e] =>
            /\ "invoice" \in locks[e] /\ status[e] = "APPROVED"
            /\ OrderExists /\ order.status \in Past
    BY <1>1 DEF StoreInv, SessionInv, SessionOfInvoice, NONE, Past
  <1>3. /\ order' \in [status : OrderStatuses \cup {NONE}, shipping : Nat]
        /\ order'.shipping = order.shipping
        /\ order'.status = IF "order_row" \in locks[e] THEN "INVOICED" ELSE order.status
        /\ OrderExists' <=> OrderExists
        /\ stale' \subseteq Events /\ stale \subseteq stale'
    BY <1>1, <1>2, MovedOrder DEF Past
  <1>4. /\ invoice' \in Numbers \cup {NONE} /\ (invoice # NONE => invoice' # NONE)
        /\ "invoice" \in locks[e] => invoice' # NONE
    BY <1>1 DEF StoreInv, TypeOK
  <1>5. StatusHasItsFacts'
    BY <1>1, <1>2, <1>3, <1>4 DEF StoreInv, Facts, StatusHasItsFacts, Past
  <1>6. stale' = {} => outbox' <= 1
    BY <1>1, <1>3 DEF StoreInv, Facts
  <1>7. DatabaseGrows
    BY <1>1, <1>3, <1>4, LenProperties DEF DatabaseGrows, StoreInv, TypeOK, Past, Processed
  <1>8. \A o \in Events \ {e} : "order" \in locks[o] => ~OrderExists'
    BY <1>3 DEF StoreInv, SessionInv, SessionOfOrder
  <1>9. /\ OrderExists' => order'.shipping \in 1..Len(versions')
        /\ order'.status # "CANCELLED"
    BY <1>1, <1>2, <1>3 DEF StoreInv, TypeOK, Facts, Past
  <1>10. /\ versions' \in Seq(Addresses) /\ client' \in BOOLEAN /\ outbox' \in Nat
         /\ payments' \in [Txs -> PaymentStatuses \cup {NONE}]
         /\ client' => versions' # << >>
    BY <1>1 DEF StoreInv, TypeOK, Facts
  <1> QED
    BY <1>1, <1>3, <1>4, <1>5, <1>6, <1>7, <1>8, <1>9, <1>10, CommitKeepsInv

Commit(e) == CommitClient(e) \/ CommitOrder(e) \/ CommitPayment(e) \/ CommitInvoice(e)

\* Every statement but a commit leaves the database alone.
LEMMA StatementWritesNothing ==
    ASSUME StoreInv, NEW e \in Events, Statement(e), ~Commit(e)
    PROVE  StoreInv' /\ UNCHANGED <<database, stale>>
  <1>1. UNCHANGED <<database, stale>>
    BY DEF Statement, Commit, BeginClient, WriteClient, BeginOrder, ReadAddress, InsertOrder,
       BeginPayment, ReadPayment, WritePayment, Approve, BeginInvoice, ReadInvoice,
       InsertInvoice, Bill, Rollback, LockOrderRow, RefusedByConstraint
  <1>2. StoreInv'
    BY ClientStatementKeepsInv, OrderStatementKeepsInv, PaymentStatementKeepsInv,
       InvoiceStatementKeepsInv, RollbackKeepsInv DEF Statement, Commit
  <1> QED
    BY <1>1, <1>2

\* An invoice of another order takes its number and nothing else.
LEMMA OtherInvoiceKeepsInv ==
    ASSUME StoreInv, NEW n \in Numbers, InvoiceAnotherOrder(n)
    PROVE  StoreInv' /\ DatabaseGrows
  <1>1. /\ elsewhere' = elsewhere \cup {n}
        /\ UNCHANGED <<client, versions, order, payments, invoice, outbox, ledger, outcome, stale>>
        /\ UNCHANGED <<pc, found, status, shipping, locks>>
    BY DEF InvoiceAnotherOrder, session
  <1>2. TypeOK'
    BY <1>1 DEF StoreInv, TypeOK, OrderExists
  <1>3. DatabaseGrows
    BY <1>1, LenProperties DEF StoreInv, TypeOK, DatabaseGrows, OrderExists
  <1>4. \A e \in Events : SessionInv(e)'
    BY <1>1 DEF StoreInv, SessionInv, Program, SessionOfOrder, SessionOfPayment,
       SessionOfInvoice, OrderExists
  <1>5. OneInsertsTheOrder'
    BY <1>1 DEF StoreInv, OneInsertsTheOrder
  <1>6. Facts'
    BY <1>1 DEF StoreInv, Facts, StatusHasItsFacts, ApprovalIsNotForgotten, KeysAreReported,
       RefusedKeyIsTaken, OrderExists
  <1> QED
    BY <1>2, <1>3, <1>4, <1>5, <1>6 DEF StoreInv

LEMMA StoreStep ==
    ASSUME StoreInv, [Next]_vars
    PROVE  StoreInv' /\ DatabaseGrows
  <1>1. ASSUME UNCHANGED vars PROVE StoreInv' /\ DatabaseGrows
    <2>1. DatabaseGrows
      BY <1>1, UnchangedGrows DEF vars, StoreInv
    <2>2. TypeOK' /\ Facts' /\ OneInsertsTheOrder'
      BY <1>1 DEF vars, database, session, StoreInv, TypeOK, Facts, OneInsertsTheOrder,
         OrderExists, StatusHasItsFacts, ApprovalIsNotForgotten, KeysAreReported,
         RefusedKeyIsTaken
    <2>3. \A e \in Events : SessionInv(e)'
      BY <1>1 DEF vars, database, session, StoreInv, SessionInv, Program, SessionOfOrder,
         SessionOfPayment, SessionOfInvoice, OrderExists
    <2> QED
      BY <2>1, <2>2, <2>3 DEF StoreInv
  <1>2. ASSUME NEW e \in Events, Commit(e) PROVE StoreInv' /\ DatabaseGrows
    BY <1>2, CommitClientKeepsInv, CommitOrderKeepsInv, CommitPaymentKeepsInv,
       CommitInvoiceKeepsInv DEF Commit
  <1>3. ASSUME NEW e \in Events, UNCHANGED <<database, stale>>, StoreInv'
        PROVE  StoreInv' /\ DatabaseGrows
    BY <1>3, UnchangedGrows DEF StoreInv
  <1> QED
    BY <1>1, <1>2, <1>3, StatementWritesNothing, OtherInvoiceKeepsInv DEF Next

\* A step writes at most one message for the ERP.
LEMMA OneMessageAtATime ==
    ASSUME StoreInv, [Next]_vars
    PROVE  outbox' \in {outbox, outbox + 1}
  <1>1. CASE UNCHANGED vars
    BY <1>1 DEF vars, database
  <1>2. ASSUME NEW e \in Events, Commit(e) PROVE outbox' \in {outbox, outbox + 1}
    <2>1. CASE CommitPayment(e)
      <3>1. outbox \in Nat /\ outbox' = outbox + MessagesOf(e)
        BY <2>1 DEF CommitPayment, StoreInv, TypeOK
      <3>2. MessagesOf(e) \in {0, 1}
        BY DEF MessagesOf
      <3> QED
        BY <3>1, <3>2
    <2>2. CASE ~CommitPayment(e)
      BY <1>2, <2>2 DEF Commit, CommitClient, CommitOrder, CommitInvoice
    <2> QED
      BY <2>1, <2>2
  <1>3. ASSUME UNCHANGED <<database, stale>> PROVE outbox' \in {outbox, outbox + 1}
    BY <1>3 DEF database
  <1>4. ASSUME NEW n \in Numbers, InvoiceAnotherOrder(n) PROVE outbox' = outbox
    BY <1>4 DEF InvoiceAnotherOrder
  <1> QED
    BY <1>1, <1>2, <1>3, <1>4, StatementWritesNothing DEF Next

LEMMA StoreInvAlways == Spec => []StoreInv
  <1>1. StoreInv /\ [Next]_vars => StoreInv'
    BY StoreStep
  <1> QED
    BY <1>1, InitStoreInv, PTL DEF Spec

\* Every reachable state has the types TypeOK gives the variables, and the order
\* references a version of the address that exists.
THEOREM TypeCorrect == Spec => []TypeOK
  <1>1. StoreInv => TypeOK
    BY DEF StoreInv
  <1> QED
    BY <1>1, StoreInvAlways, PTL

\* However the transactions interleave, the order is approved or invoiced if and only if
\* the outbox has a message for it, and an invoiced order has its invoice
\* (payment_handler.py, invoice_handler.py: one transaction writes both).
THEOREM StatusAndFactsAgree == Spec => []StatusHasItsFacts
  <1>1. StoreInv => StatusHasItsFacts
    BY DEF StoreInv, Facts
  <1> QED
    BY <1>1, StoreInvAlways, PTL

\* Whatever runs at the same time, an event that a constraint refuses has its unique key
\* taken by an event that was processed and is in the ledger, or its invoice number by
\* another order; nothing is refused for a transaction that is rolled back later, or
\* because a row it needs is missing (processor.py: IntegrityError is a duplicate).
THEOREM RefusedKeysAreTaken == Spec => []RefusedKeyIsTaken
  <1>1. StoreInv => RefusedKeyIsTaken
    BY DEF StoreInv, Facts
  <1> QED
    BY <1>1, StoreInvAlways, PTL

\* Once an approval was processed no later event and no stale transaction takes the
\* order back to PENDING (repositories.py: transition).
THEOREM ApprovalsStay == Spec => []ApprovalIsNotForgotten
  <1>1. StoreInv => ApprovalIsNotForgotten
    BY DEF StoreInv, Facts
  <1> QED
    BY <1>1, StoreInvAlways, PTL

\* A second message is written for an order only if a transaction overwrote a status it
\* had not read: without stale writes the order is announced to the ERP once.
THEOREM SingleDispatchUnlessStale == Spec => [](stale = {} => SingleDispatch)
  <1>1. StoreInv => (stale = {} => SingleDispatch)
    BY DEF StoreInv, Facts, SingleDispatch
  <1> QED
    BY <1>1, StoreInvAlways, PTL

\* No step changes the address an order was created with, nor the content of the version
\* it references (address repository: upsert_version).
THEOREM AddressesAreFrozen == Spec => OrderAddressIsFrozen
  <1>1. ASSUME StoreInv, [Next]_vars, OrderExists
        PROVE  /\ order'.shipping = order.shipping
               /\ versions'[order.shipping] = versions[order.shipping]
    BY <1>1, StoreStep DEF StoreInv, TypeOK, DatabaseGrows
  <1>2. StoreInv /\ [Next]_vars =>
            [OrderExists => /\ order'.shipping = order.shipping
                            /\ versions'[order.shipping] = versions[order.shipping]]_vars
    BY <1>1
  <1> QED
    BY <1>2, StoreInvAlways, PTL DEF Spec, OrderAddressIsFrozen

\* However many transactions write the status of the order over one they have not read,
\* it follows ALLOWED_ORDER_TRANSITIONS or the step writes a further message for the ERP:
\* the only wrong move is an order that is approved again (repositories.py: transition).
THEOREM StatusAdvances == Spec => StatusAdvancesUnlessApprovedAgain
  <1> DEFINE Advances == order.status # NONE /\ order'.status # order.status
                            => order'.status \in Allowed(order.status) \/ outbox' > 1
  <1>1. ASSUME StoreInv, NEW e \in Events, CommitPayment(e) PROVE Advances
    <2>1. e.type = "payment.updated" /\ MoveOrder(e, "APPROVED")
      BY <1>1 DEF CommitPayment
    <2>2. "order_row" \in locks[e] => OrderExists
      BY <1>1, <2>1 DEF StoreInv, SessionInv, SessionOfPayment, NONE
    <2>3. order'.status = IF "order_row" \in locks[e] THEN "APPROVED" ELSE order.status
      BY <1>1, <2>1, <2>2, MovedOrder DEF Past
    <2>4. /\ outbox \in Nat
          /\ outbox' = IF "order_row" \in locks[e] THEN outbox + 1 ELSE outbox
          /\ order.status \in Past => outbox > 0
      BY <1>1 DEF CommitPayment, MessagesOf, StoreInv, TypeOK, Facts, StatusHasItsFacts, Past
    <2>5. SUFFICES ASSUME "order_row" \in locks[e], order.status = "PENDING"
                   PROVE  Advances
      BY <1>1, <2>2, <2>3, <2>4, LoadedStatus
    <2> QED
      BY <2>3, <2>5, AllowedMoves
  <1>2. ASSUME StoreInv, NEW e \in Events, CommitInvoice(e) PROVE Advances
    <2>1. e.type = "invoice.issued" /\ MoveOrder(e, "INVOICED")
      BY <1>2 DEF CommitInvoice
    <2>2. "order_row" \in locks[e] => OrderExists /\ order.status \in Past
      BY <1>2, <2>1 DEF StoreInv, SessionInv, SessionOfInvoice, NONE, Past
    <2>3. order'.status = IF "order_row" \in locks[e] THEN "INVOICED" ELSE order.status
      BY <1>2, <2>1, <2>2, MovedOrder DEF Past
    <2> QED
      BY <2>2, <2>3, AllowedMoves DEF Past
  <1>3. ASSUME StoreInv, NEW e \in Events, CommitOrder(e) PROVE Advances
    BY <1>3 DEF CommitOrder, StoreInv, SessionInv, SessionOfOrder, OrderExists
  <1>4. ASSUME StoreInv, NEW e \in Events, CommitClient(e) PROVE Advances
    BY <1>4 DEF CommitClient
  <1>5. ASSUME StoreInv, Next PROVE Advances
    <2>1. ASSUME NEW e \in Events, Commit(e) PROVE Advances
      BY <1>1, <1>2, <1>3, <1>4, <1>5, <2>1 DEF Commit
    <2>2. ASSUME NEW e \in Events, Statement(e), ~Commit(e) PROVE UNCHANGED order
      BY <1>5, <2>2, StatementWritesNothing DEF database
    <2>3. ASSUME NEW n \in Numbers, InvoiceAnotherOrder(n) PROVE UNCHANGED order
      BY <2>3 DEF InvoiceAnotherOrder
    <2> QED
      BY <1>5, <2>1, <2>2, <2>3 DEF Next
  <1>6. StoreInv /\ [Next]_vars => [Advances]_vars
    BY <1>5
  <1> QED
    BY <1>6, StoreInvAlways, PTL DEF Spec, StatusAdvancesUnlessApprovedAgain
=============================================================================
