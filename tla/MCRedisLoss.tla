----------------------------- MODULE MCRedisLoss -----------------------------
(* A small instance of RedisLoss: a client and an order that depends on it.  The *)
(* client may never be sent: the order is then given up.                         *)
EXTENDS RedisLoss

MCFactOf == [e \in Events |-> e]
MCDependsOn == [e \in Events |-> IF e = "order" THEN {"client"} ELSE {}]
=============================================================================
