--------------------------- MODULE OutboxLifecycle ---------------------------
(***************************************************************************)
(* What the outbox promises about each of its rows, without workers, locks, *)
(* batches or requests: a row is claimed from PENDING only; it ends SENT if *)
(* the ERP has the order, or in the DLQ if its attempts are exhausted or    *)
(* the ERP refused it; it leaves neither; the ERP registers the order once. *)
(* OutboxDispatch implements this specification, see OutboxRefinement.      *)
(***************************************************************************)
EXTENDS Integers

CONSTANTS
    Rows,           \* outbox_id's
    MaxAttempts     \* dispatch_max_attempts

VARIABLES
    status,         \* outbox.status; "ABSENT" before the row is written
    attempts,       \* outbox.attempts
    registrations,  \* how often the ERP registered the order of a row
    refused         \* rows the ERP refused for good

vars == <<status, attempts, registrations, refused>>

Init ==
    /\ status = [r \in Rows |-> "ABSENT"]
    /\ attempts = [r \in Rows |-> 0]
    /\ registrations = [r \in Rows |-> 0]
    /\ refused = {}

In(s) == {r \in Rows : status[r] = s}

Move(S, to) ==
    /\ status' = [r \in Rows |-> IF r \in S THEN to ELSE status[r]]
    /\ UNCHANGED <<registrations, refused>>

Write(r) == r \in In("ABSENT") /\ Move({r}, "PENDING") /\ UNCHANGED attempts

Claim(S) ==
    /\ S \subseteq In("PENDING")
    /\ Move(S, "IN_FLIGHT")
    /\ attempts' = [r \in Rows |-> attempts[r] + (IF r \in S THEN 1 ELSE 0)]

\* A retry, or the release of rows whose worker died.
GiveBack(S) == S \subseteq In("IN_FLIGHT") /\ Move(S, "PENDING") /\ UNCHANGED attempts

Confirm(r) ==
    /\ r \in In("IN_FLIGHT")
    /\ registrations[r] > 0
    /\ Move({r}, "SENT")
    /\ UNCHANGED attempts

GiveUp(r) ==
    /\ r \in In("IN_FLIGHT")
    /\ attempts[r] >= MaxAttempts \/ r \in refused
    /\ Move({r}, "DLQ")
    /\ UNCHANGED attempts

\* The ERP acts on a request of a claim, which may be over by now: the row may
\* be waiting for its retry or be in the DLQ, but it is not SENT.
Asked(r) == attempts[r] > 0 /\ status[r] # "SENT"

Register(r) ==
    /\ Asked(r)
    /\ registrations[r] = 0
    /\ registrations' = [registrations EXCEPT ![r] = 1]
    /\ UNCHANGED <<status, attempts, refused>>

Refuse(r) ==
    /\ Asked(r)
    /\ refused' = refused \cup {r}
    /\ UNCHANGED <<status, attempts, registrations>>

Next ==
    \/ \E r \in Rows : Write(r) \/ Confirm(r) \/ GiveUp(r) \/ Register(r) \/ Refuse(r)
    \/ \E S \in SUBSET Rows : Claim(S) \/ GiveBack(S)

Spec == Init /\ [][Next]_vars
=============================================================================
