---------------------------- MODULE MCOrderStore ----------------------------
(* Small instances of OrderStore: two versions of the address, an order sent *)
(* twice, payments of two provider transactions, two invoices of the order.  *)
EXTENDS OrderStore

Client(i, a)     == [id |-> i, type |-> "client.upserted", address |-> a]
NewOrder(i)      == [id |-> i, type |-> "order.created"]
Payment(i, t, s) == [id |-> i, type |-> "payment.updated", tx |-> t, status |-> s]
NewInvoice(i, n) == [id |-> i, type |-> "invoice.issued", number |-> n]

MCEvents ==
    {Client(1, "Joinville"), Client(2, "Curitiba"), NewOrder(3), NewOrder(4),
     Payment(5, "t1", "PENDING"), Payment(6, "t1", "APPROVED"),
     Payment(7, "t2", "APPROVED"), NewInvoice(8, "n1"), NewInvoice(9, "n2")}

\* The same approval reported twice, after the payment was seen pending.
MCDuplicateApproval ==
    {Client(1, "Joinville"), NewOrder(2), Payment(3, "t1", "PENDING"),
     Payment(4, "t1", "APPROVED"), Payment(5, "t1", "APPROVED")}
=============================================================================
