------------------------------ MODULE RedisLoss ------------------------------
(***************************************************************************)
(* Redis restarts.  It keeps no log of its commands (docker-compose.yml:    *)
(* --appendonly no), only the snapshot that it saves when it is stopped in  *)
(* order: then the stream, the consumer group and its pending list, the     *)
(* dead letters and the reservations come back as they were.  In a new      *)
(* container, or after it died before its first snapshot, they are gone,    *)
(* while the workers go on with what they hold and the database keeps its   *)
(* ledger.  Older snapshots are not modelled.                               *)
(*                                                                          *)
(* The ids of a stream are times, so those of lost entries do not come back:*)
(* log keeps the lost entries, as history.                                  *)
(***************************************************************************)
EXTENDS IngestDelivery

CONSTANT MaxRestarts    \* bound: restarts of Redis

ASSUME RestartsAssumption == MaxRestarts \in Nat

VARIABLES
    group,      \* the consumer group exists
    lost,       \* entries that a restart has lost
    broken,     \* workers whose asynchronous connection does not know it yet
    restarts

redisVars == <<group, lost, broken, restarts>>

RedisInit ==
    /\ Init
    /\ group = TRUE
    /\ lost = {}
    /\ broken = {}
    /\ restarts = 0

RedisRestarts ==
    /\ restarts < MaxRestarts
    /\ restarts' = restarts + 1
    /\ broken' = Workers
    /\ UNCHANGED <<log, ledger, applied, local>>

RedisComesBack ==
    /\ RedisRestarts
    /\ UNCHANGED <<cursor, pel, times, idle, dlq, keys, group, lost>>

RedisComesBackEmpty ==
    /\ RedisRestarts
    /\ lost' = 1..Len(log)
    /\ cursor' = Len(log)
    /\ pel' = {}
    /\ idle' = {}
    /\ times' = [m \in Ids |-> 0]
    /\ dlq' = [m \in Ids |-> 0]
    /\ keys' = {}
    /\ group' = FALSE

\* The commands of the asynchronous connection: XREADGROUP, XPENDING, XCLAIM,
\* XADD to the dead letter stream, XACK.
Commands == {"read", "scan", "reclaim", "dead", "dead_ack"}

\* XREADGROUP and XCLAIM answer NOGROUP; XPENDING too, which the worker takes
\* for an empty answer; XACK of a group that is not there acknowledges nothing.
NeedsGroup(w) == pc[w] \in {"read", "reclaim"}

WorkerStep(w) ==
    /\ NeedsGroup(w) => group
    /\ Step(w)
    /\ broken' = IF pc[w] \in Commands THEN broken \ {w} ELSE broken
    /\ UNCHANGED <<group, lost, restarts>>

\* Mutant: only a group that was there at the start is used.
GroupAfterStartUnchanged == group

\* ensure_group, at the start of a process: BUSYGROUP or a new group from id 0.
GroupAfterStart == TRUE

\* Nobody catches the error: the process exits, and its container starts it anew.
WorkerExits(w) ==
    /\ \/ NeedsGroup(w) /\ ~group
       \/ pc[w] \in Commands /\ w \in broken
    /\ NewProcess(w)
    /\ group' = GroupAfterStart
    /\ broken' = broken \ {w}
    /\ UNCHANGED <<lost, restarts>>

\* Workers that die by themselves and reservations that expire are left to Next.
RedisNext ==
    \/ \E w \in Workers : WorkerStep(w) \/ WorkerExits(w)
    \/ RedisComesBack \/ RedisComesBackEmpty
    \/ /\ \/ \E p \in Events \cup {Malformed} : Publish(p)
          \/ \E m \in Ids : GoIdle(m)
       /\ UNCHANGED redisVars

RedisSpec == RedisInit /\ [][RedisNext]_<<vars, redisVars>>

\* Workers run, and their containers restart them (restart: unless-stopped).
RedisFairness ==
    /\ \A w \in Workers : WF_<<vars, redisVars>>(WorkerStep(w) \/ WorkerExits(w))
    /\ \A m \in Ids : WF_<<vars, redisVars>>(GoIdle(m) /\ UNCHANGED redisVars)

RedisFairSpec == RedisSpec /\ RedisFairness

(***************************************************************************)
(* Properties                                                               *)
(***************************************************************************)

\* A restart that forgets everything loses what was in the stream, and no more: an
\* event that is sent again afterwards does not disappear, unless an entry of it was
\* lost whose worker goes on: it may have reserved the event, have the new entry
\* refused as a duplicate, and fail (processor.py: process).
ResendNeedsNoLostTwin ==
    \A m \in 1..Len(log) :
        Accounted(m) \/ \E k \in lost : log[k] = log[m]

\* What is in the stream is delivered and leaves the pending list, whatever is sent
\* after a restart included: the workers find out that the connection is broken or
\* their group is gone, start again, make the group anew and take up what is pending
\* (consumer.py: ensure_group, reclaim_abandoned).
SettledAfterRestart == EventuallySettled
=============================================================================
