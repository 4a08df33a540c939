--------------------------- MODULE MCClosedOrders ---------------------------
(* Small instances of ClosedOrders. *)
EXTENDS ClosedOrders, TLC

MCSymmetry == Permutations(Sessions)
=============================================================================
