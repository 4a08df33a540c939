-------------------------- MODULE OutboxRefinement --------------------------
(***************************************************************************)
(* The claims, coroutines, retries and marks of the dispatch workers and    *)
(* the ERP implement OutboxLifecycle, as long as no live worker outlives    *)
(* its lock and the ERP answers before the retry.                           *)
(***************************************************************************)
EXTENDS OutboxDispatch

\* The row is what it is in the table; what the workers and the ERP have in
\* hand is hidden.
Lifecycle == INSTANCE OutboxLifecycle

\* Every step of the dispatch is a step of the lifecycle or none: no row is
\* claimed twice, marked by someone who does not hold it, or moved by an answer
\* that belongs to an earlier claim (dispatch_worker/main.py: _dispatch).
ImplementsLifecycle == Lifecycle!Spec
=============================================================================
