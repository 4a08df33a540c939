--------------------------- MODULE MCApprovalToErp ---------------------------
(* Small instance of ApprovalToErp: an order whose approval is reported       *)
(* twice; the second report must find the order approved.                     *)
EXTENDS ApprovalToErp

MCApprovals ==
    {[id |-> 1, type |-> "client.upserted", address |-> "Joinville"],
     [id |-> 2, type |-> "order.created"],
     [id |-> 3, type |-> "payment.updated", tx |-> "t1", status |-> "APPROVED"],
     [id |-> 4, type |-> "payment.updated", tx |-> "t1", status |-> "APPROVED"]}
=============================================================================
