-------------------------- MODULE MCOutboxDispatch --------------------------
(* Small instances of OutboxDispatch. *)
EXTENDS OutboxRefinement, TLC

CONSTANTS w1, w2, r1, r2

\* Workers run the same program and rows are treated alike.
Symmetry == Permutations(Workers) \cup Permutations(Rows)
=============================================================================
