-------------------------- MODULE RedisLoss_proofs --------------------------
(***************************************************************************)
(* Proofs about RedisLoss, for any workers, events, limits and number of    *)
(* restarts of Redis, with or without what it had: the types, that the      *)
(* ledger alone keeps an event from taking effect twice, and what an event  *)
(* that is sent again after a restart can rely on.                          *)
(*                                                                          *)
(* The steps of the workers are those of IngestDelivery, and most of what   *)
(* is needed about them is proved there, for a set L of entries that are    *)
(* excepted; here L is the set of lost entries.                             *)
(***************************************************************************)
EXTENDS RedisLoss, IngestDelivery_proofs

USE ConstantsAssumption DEF Ids, Parsed

(***************************************************************************)
(* Types.                                                                   *)
(***************************************************************************)

\* What is lost was in the stream.
LostInv == TypeInv /\ lost \subseteq 1..Len(log)

\* Redis comes back without its pending list: everything before the end of the stream
\* counts as delivered.
LEMMA EmptyRedisTypeInv ==
    ASSUME TypeInv, RedisComesBackEmpty
    PROVE  TypeInv'
  <1>1. /\ UNCHANGED <<log, ledger, applied>>
        /\ UNCHANGED <<pc, cycle, todo, scan, current, acks, dead>>
        /\ cursor' = Len(log) /\ pel' = {} /\ idle' = {} /\ keys' = {}
        /\ times' = [m \in Ids |-> 0] /\ dlq' = [m \in Ids |-> 0]
    BY DEF RedisComesBackEmpty, RedisRestarts, local
  <1>2. TypeOK'
    BY <1>1 DEF TypeInv, TypeOK
  <1>3. \A m \in Ids : m <= cursor => m <= cursor'
    BY <1>1 DEF TypeInv, TypeOK
  <1>4. ASSUME NEW w \in Workers PROVE InHand(w)' /\ HeldWasDelivered(w)'
    <2>1. InHand(w)'
      BY <1>1, <1>3, MessageFields DEF TypeInv, InHand
    <2>2. HeldWasDelivered(w)'
      BY <1>1, <1>3, MessageFields DEF TypeInv, TypeOK, HeldWasDelivered
    <2> QED
      BY <2>1, <2>2
  <1> QED
    BY <1>2, <1>4 DEF TypeInv

\* Steps that change nothing that IngestDelivery knows of.
LEMMA SameTypeInv ==
    ASSUME TypeInv, UNCHANGED vars
    PROVE  TypeInv'
  BY NextTypeInv

LEMMA RedisBackIsSame ==
    ASSUME RedisComesBack
    PROVE  UNCHANGED vars /\ lost' = lost
  BY DEF RedisComesBack, RedisRestarts, vars, stream, store, local

LEMMA NextLostInv == LostInv /\ [RedisNext]_<<vars, redisVars>> => LostInv'
  <1> SUFFICES ASSUME LostInv, [RedisNext]_<<vars, redisVars>> PROVE LostInv'
    OBVIOUS
  <1>1. ASSUME NEW w \in Workers, WorkerStep(w) PROVE LostInv'
    <2>1. Step(w) /\ lost' = lost
      BY <1>1 DEF WorkerStep
    <2> QED
      BY <2>1, StepTypeInv, StepKeepsLog DEF LostInv
  <1>2. ASSUME NEW w \in Workers, WorkerExits(w) PROVE LostInv'
    <2>1. NewProcess(w) /\ lost' = lost /\ log' = log
      BY <1>2 DEF WorkerExits, NewProcess, stream
    <2> QED
      BY <2>1, NewProcessTypeInv DEF LostInv
  <1>3. CASE RedisComesBack
    <2>1. log' = log
      BY <1>3, RedisBackIsSame DEF vars, stream
    <2> QED
      BY <1>3, <2>1, RedisBackIsSame, SameTypeInv DEF LostInv
  <1>4. CASE RedisComesBackEmpty
    <2>1. lost' = 1..Len(log) /\ log' = log
      BY <1>4 DEF RedisComesBackEmpty, RedisRestarts
    <2> QED
      BY <1>4, <2>1, EmptyRedisTypeInv DEF LostInv
  <1>5. ASSUME NEW p \in Events \cup {Malformed}, Publish(p), UNCHANGED redisVars PROVE LostInv'
    <2>1. lost' = lost
      BY <1>5 DEF redisVars
    <2>2. Len(log') = Len(log) + 1 /\ Len(log) \in Nat
      BY <1>5, PublishKeepsEntries DEF LostInv, TypeInv, TypeOK
    <2>3. 1..Len(log) \subseteq 1..Len(log')
      BY <2>2
    <2> QED
      BY <1>5, <2>1, <2>3, PublishTypeInv DEF LostInv
  <1>6. ASSUME NEW m \in Ids, GoIdle(m), UNCHANGED redisVars PROVE LostInv'
    BY <1>6, GoIdleTypeInv DEF LostInv, GoIdle, redisVars
  <1>7. CASE UNCHANGED <<vars, redisVars>>
    <2>1. log' = log /\ lost' = lost /\ UNCHANGED vars
      BY <1>7 DEF vars, stream, redisVars
    <2> QED
      BY <2>1, SameTypeInv DEF LostInv
  <1> QED
    BY <1>1, <1>2, <1>3, <1>4, <1>5, <1>6, <1>7 DEF RedisNext

LEMMA LostInvAlways == RedisSpec => []LostInv
  <1>1. RedisInit => LostInv
    BY InitTypeInv DEF RedisInit, LostInv
  <1> QED
    BY <1>1, NextLostInv, PTL DEF RedisSpec

\* The variables keep their types and what is pending was delivered, however Redis comes
\* back and whenever the workers find it out (consumer.py: ensure_group).
THEOREM RestartsKeepTypes == RedisSpec => []TypeOK
  <1>1. LostInv => TypeOK
    BY DEF LostInv, TypeInv
  <1> QED
    BY <1>1, LostInvAlways, PTL

(***************************************************************************)
(* Exactly-once effect.                                                     *)
(***************************************************************************)

\* An event takes effect once although Redis forgets the reservations: the ledger, which
\* is in the database, decides (processor.py: _claim_in_ledger).
THEOREM ExactlyOnceWithoutRedis == RedisSpec => []AppliedAtMostOnce
  <1>1. RedisInit => AppliedAtMostOnce
    BY DEF RedisInit, Init, AppliedAtMostOnce
  <1>2. LostInv /\ AppliedAtMostOnce /\ [RedisNext]_<<vars, redisVars>> => AppliedAtMostOnce'
    <2> SUFFICES ASSUME LostInv, AppliedAtMostOnce, [RedisNext]_<<vars, redisVars>>
                 PROVE  AppliedAtMostOnce'
      OBVIOUS
    <2>1. ASSUME UNCHANGED <<ledger, applied>> PROVE AppliedAtMostOnce'
      BY <2>1 DEF AppliedAtMostOnce
    <2>2. ASSUME NEW w \in Workers, WorkerStep(w) PROVE AppliedAtMostOnce'
      BY <2>2, StepAppliedAtMostOnce DEF WorkerStep, LostInv
    <2>3. ASSUME NEW w \in Workers, WorkerExits(w) PROVE AppliedAtMostOnce'
      BY <2>1, <2>3 DEF WorkerExits, NewProcess, store
    <2>4. CASE RedisComesBack \/ RedisComesBackEmpty
      BY <2>1, <2>4 DEF RedisComesBack, RedisComesBackEmpty, RedisRestarts
    <2>5. ASSUME NEW p \in Events \cup {Malformed}, Publish(p) PROVE AppliedAtMostOnce'
      BY <2>1, <2>5 DEF Publish, store
    <2>6. ASSUME NEW m \in Ids, GoIdle(m) PROVE AppliedAtMostOnce'
      BY <2>1, <2>6 DEF GoIdle, store
    <2>7. CASE UNCHANGED <<vars, redisVars>>
      BY <2>1, <2>7 DEF vars, store
    <2> QED
      BY <2>2, <2>3, <2>4, <2>5, <2>6, <2>7 DEF RedisNext
  <1> QED
    BY <1>1, <1>2, LostInvAlways, PTL DEF RedisSpec

(***************************************************************************)
(* An event that is sent again.                                             *)
(***************************************************************************)

\* What a worker has in hand is pending or lost, and what it dead-letters has its copy or
\* is lost; what is in the stream is accounted for, but for lost entries and the later
\* ones of their events.
RestartInv ==
    /\ HandInv
    /\ HandsPendingBut(lost)
    /\ DeadLetterWrittenBut(lost)
    /\ LossInvBut(lost)

LEMMA StepKeepsHandsPending ==
    ASSUME TypeInv, HandInv, NEW L, HandsPendingBut(L), NEW w \in Workers,
           Step(w) \/ NewProcess(w)
    PROVE  HandInv' /\ HandsPendingBut(L)'
  <1>1. HandInv' /\ PelFollows(w)
    BY StepKeepsHands, NewProcessKeepsHands
  <1>2. ASSUME NEW v \in Workers, NEW m \in Ids, m \in Hand(v)', m \notin pel'
        PROVE  m \in L
    <2>1. m \in Hand(v) /\ m \notin pel
      BY <1>1, <1>2, HandsStayPending
    <2> QED
      BY <2>1 DEF HandsPendingBut
  <1> QED
    BY <1>1, <1>2 DEF HandsPendingBut

\* A dead letter is written before it is acknowledged.
LEMMA StepKeepsDeadLetterWritten ==
    ASSUME TypeInv, NEW L, DeadLetterWrittenBut(L), NEW w \in Workers, Step(w)
    PROVE  DeadLetterWrittenBut(L)'
  <1>1. \A v \in Workers \ {w} : pc'[v] = pc[v] /\ current'[v] = current[v]
    BY OthersRest DEF TypeInv, Rests
  <1>2. \A v \in Workers : pc[v] = "dead_ack" => current[v].id \in Ids
    BY MessageFields DEF TypeInv, InHand
  <1>3. CASE SendToDeadLetter(w)
    <2>1. PICK m \in dead[w] :
            dlq' = [dlq EXCEPT ![m.id] = @ + 1] /\ current'[w] = m
      BY <1>3 DEF SendToDeadLetter, TypeInv, TypeOK
    <2>2. m.id \in Ids /\ dlq \in [Ids -> Nat]
      BY MessageFields DEF TypeInv, TypeOK
    <2>3. dlq'[m.id] > 0 /\ \A k \in Ids : dlq[k] > 0 => dlq'[k] > 0
      BY <2>1, <2>2
    <2> QED
      BY <1>1, <1>2, <2>1, <2>3 DEF DeadLetterWrittenBut
  <1>4. CASE ~SendToDeadLetter(w)
    <2>1. dlq' = dlq /\ pc'[w] # "dead_ack"
      <3>1. CASE Read(w) \/ PendingDeliveryCounts(w) \/ ReclaimAbandoned(w)
        BY <3>1 DEF Read, PendingDeliveryCounts, ReclaimAbandoned, AfterBatch, TypeInv,
           TypeOK, stream
      <3>2. CASE ClaimReservation(w) \/ DiscardMalformed(w)
        BY <3>2 DEF ClaimReservation, DiscardMalformed, TypeInv, TypeOK, stream
      <3>3. CASE Commit(w) \/ Duplicate(w) \/ Fail(w) \/ CommitLost(w) \/ Release(w)
        BY <3>3 DEF Commit, Duplicate, Fail, CommitLost, Release, Acknowledge, TypeInv,
           TypeOK, stream
      <3>4. CASE EndPersist(w) \/ AckDeadLetter(w) \/ Ack(w)
        BY <3>4 DEF EndPersist, AckDeadLetter, Ack, TypeInv, TypeOK, stream
      <3> QED
        BY <1>4, <3>1, <3>2, <3>3, <3>4 DEF Step
    <2> QED
      BY <1>1, <2>1 DEF DeadLetterWrittenBut
  <1> QED
    BY <1>3, <1>4

LEMMA WorkerStepKeepsRestartInv ==
    ASSUME "release_error" \notin Faults,
           LostInv, RestartInv, NEW w \in Workers, WorkerStep(w)
    PROVE  RestartInv'
  <1>1. PICK L : L = lost
    OBVIOUS
  <1>2. TypeInv /\ Step(w) /\ lost' = L
    BY <1>1 DEF LostInv, WorkerStep
  <1>3. HandInv /\ HandsPendingBut(L) /\ DeadLetterWrittenBut(L) /\ LossInvBut(L)
    BY <1>1 DEF RestartInv
  <1>4. HandInv' /\ HandsPendingBut(L)' /\ DeadLetterWrittenBut(L)' /\ LossInvBut(L)'
    BY <1>2, <1>3, StepKeepsHandsPending, StepKeepsDeadLetterWritten, StepKeepsLossInv
  <1> QED
    BY <1>2, <1>4 DEF RestartInv, HandsPendingBut, DeadLetterWrittenBut, LossInvBut

\* A process exits in a command to Redis: it holds no reservation then.
LEMMA WorkerExitsKeepsRestartInv ==
    ASSUME LostInv, RestartInv, NEW w \in Workers, WorkerExits(w)
    PROVE  RestartInv'
  <1>1. PICK L : L = lost
    OBVIOUS
  <1>2. TypeInv /\ NewProcess(w) /\ lost' = L
    BY <1>1 DEF LostInv, WorkerExits
  <1>3. HandInv /\ HandsPendingBut(L) /\ DeadLetterWrittenBut(L) /\ LossInvBut(L)
    BY <1>1 DEF RestartInv
  <1>4. HandInv' /\ HandsPendingBut(L)'
    BY <1>2, <1>3, StepKeepsHandsPending
  <1>5. \A v \in Workers \ {w} :
            pc'[v] = pc[v] /\ current'[v] = current[v] /\ acks'[v] = acks[v]
    BY <1>2, OthersRest DEF TypeInv, Rests
  <1>6. /\ pc'[w] = "read" /\ acks'[w] = {}
        /\ UNCHANGED <<log, cursor, pel, dlq, keys, ledger>>
    BY <1>2 DEF NewProcess, TypeInv, TypeOK, stream, store
  <1>7. pc[w] \notin {"apply", "release"}
    BY DEF WorkerExits, NeedsGroup, Commands
  <1>8. DeadLetterWrittenBut(L)'
    BY <1>3, <1>5, <1>6 DEF DeadLetterWrittenBut
  <1>9. LossInvBut(L)'
    <2>1. \A k : (Kept(k)' <=> Kept(k)) /\ (Standing(k) => Standing(k)')
      BY <1>5, <1>6 DEF Standing, Kept, CanStillBeDelivered
    <2>2. \A f : FactCommitted(f)' <=> FactCommitted(f)
      BY <1>6 DEF FactCommitted
    <2>3. KeysHeld'
      BY <1>3, <1>5, <1>6, <1>7, <2>2 DEF LossInvBut, KeysHeld, EventOf
    <2>4. \A m \in 1..Len(log) : Represented(m) => Represented(m)'
      BY <1>6, <2>1, <2>2 DEF Represented
    <2> QED
      BY <1>3, <1>5, <1>6, <2>1, <2>3, <2>4 DEF LossInvBut
  <1> QED
    BY <1>2, <1>4, <1>8, <1>9 DEF RestartInv, HandsPendingBut, DeadLetterWrittenBut, LossInvBut

\* Steps that leave the workers and the reservations alone and lose nothing.
LEMMA OutsideKeepsRestartInv ==
    ASSUME LostInv, RestartInv, lost' = lost,
           UNCHANGED <<local, log, cursor, pel, dlq, keys, ledger>>,
           \A m \in idle' : m \in idle \/ \A w \in Workers : ~Holds(w, m)
    PROVE  RestartInv'
  <1>1. PICK L : L = lost
    OBVIOUS
  <1>2. HandInv /\ HandsPendingBut(L) /\ DeadLetterWrittenBut(L) /\ LossInvBut(L)
    BY <1>1 DEF RestartInv
  <1>3. TypeInv /\ cursor' \in Nat /\ cursor <= cursor'
    <2>1. TypeInv /\ cursor' = cursor
      BY DEF LostInv
    <2>2. cursor \in Nat
      BY <2>1 DEF TypeInv, TypeOK
    <2> QED
      BY <2>1, <2>2
  <1>4. HandInv' /\ \A w \in Workers : Hand(w)' = Hand(w)
    BY <1>2, <1>3, OutsideKeepsHands
  <1>5. UNCHANGED <<pc, current>>
    BY DEF local
  <1>6. HandsPendingBut(L)' /\ DeadLetterWrittenBut(L)'
    BY <1>2, <1>4, <1>5 DEF HandsPendingBut, DeadLetterWrittenBut
  <1>7. LossInvBut(L)'
    BY <1>2, OutsideKeepsLossInv
  <1> QED
    BY <1>1, <1>4, <1>6, <1>7 DEF RestartInv, HandsPendingBut, DeadLetterWrittenBut, LossInvBut

LEMMA PublishKeepsRestartInv ==
    ASSUME LostInv, RestartInv, lost' = lost,
           NEW p \in Events \cup {Malformed}, Publish(p)
    PROVE  RestartInv'
  <1>1. PICK L \in SUBSET (1..Len(log)) : L = lost
    BY DEF LostInv
  <1>2. HandInv /\ HandsPendingBut(L) /\ DeadLetterWrittenBut(L) /\ LossInvBut(L)
    BY <1>1 DEF RestartInv
  <1>3. TypeInv /\ UNCHANGED <<cursor, pel, idle, dlq>> /\ UNCHANGED local
    BY DEF LostInv, Publish
  <1>4. cursor' \in Nat /\ cursor <= cursor'
    BY <1>3 DEF TypeInv, TypeOK
  <1>5. HandInv' /\ \A w \in Workers : Hand(w)' = Hand(w)
    BY <1>2, <1>3, <1>4, OutsideKeepsHands
  <1>6. UNCHANGED <<pc, current>>
    BY <1>3 DEF local
  <1>7. HandsPendingBut(L)' /\ DeadLetterWrittenBut(L)'
    BY <1>2, <1>3, <1>5, <1>6 DEF HandsPendingBut, DeadLetterWrittenBut
  <1>8. LossInvBut(L)'
    BY <1>2, <1>3, PublishKeepsLossInv
  <1> QED
    BY <1>1, <1>5, <1>7, <1>8 DEF RestartInv, HandsPendingBut, DeadLetterWrittenBut, LossInvBut

\* Redis comes back with nothing: whatever was in the stream is lost, and no event is
\* reserved, but the workers have in hand what they had.
LEMMA EmptyRedisKeepsRestartInv ==
    ASSUME LostInv, RestartInv, RedisComesBackEmpty
    PROVE  RestartInv'
  <1>1. /\ log' = log /\ lost' = 1..Len(log) /\ cursor' = Len(log)
        /\ idle' = {} /\ keys' = {} /\ UNCHANGED local
    BY DEF RedisComesBackEmpty, RedisRestarts
  <1>2. UNCHANGED <<pc, current, acks>>
    BY <1>1 DEF local
  <1>3. /\ TypeInv /\ HandInv
        /\ \A w \in Workers : \A m \in acks[w] : m <= cursor /\ log[m] # Malformed
    BY DEF LostInv, RestartInv, LossInvBut
  <1>4. cursor \in Nat /\ Len(log) \in Nat /\ cursor <= Len(log)
    BY DEF LostInv, TypeInv, TypeOK
  <1>5. \A m \in Ids : m <= cursor => m \in lost' /\ m <= cursor'
    BY <1>1, <1>4
  <1>6. HandInv' /\ \A w \in Workers : Hand(w)' = Hand(w)
    BY <1>1, <1>3, <1>4, OutsideKeepsHands
  <1>7. HandsPendingBut(lost)'
    BY <1>3, <1>5, <1>6 DEF HandInv, HandsPendingBut
  <1>8. DeadLetterWrittenBut(lost)'
    <2>1. ASSUME NEW w \in Workers, pc[w] = "dead_ack" PROVE current[w].id \in lost'
      <3>1. current[w].id \in Ids /\ current[w].id \in Hand(w)
        BY <1>3, <2>1, MessageFields DEF TypeInv, InHand, Hand
      <3> QED
        BY <1>3, <1>5, <3>1 DEF HandInv
    <2> QED
      BY <1>2, <2>1 DEF DeadLetterWrittenBut
  <1>9. LossInvBut(lost)'
    <2>1. KeysHeld'
      BY <1>1 DEF KeysHeld
    <2>2. \A w \in Workers : \A m \in acks'[w] : m <= cursor' /\ log'[m] # Malformed
      <3>1. \A w \in Workers : acks[w] \subseteq Ids
        BY <1>3 DEF TypeInv, TypeOK
      <3> QED
        BY <1>1, <1>2, <1>3, <1>5, <3>1
    <2> QED
      BY <1>1, <2>1, <2>2 DEF LossInvBut
  <1> QED
    BY <1>6, <1>7, <1>8, <1>9 DEF RestartInv

LEMMA NextRestartInv ==
    ASSUME "slow" \notin Faults, "release_error" \notin Faults
    PROVE  LostInv /\ RestartInv /\ [RedisNext]_<<vars, redisVars>> => RestartInv'
  <1> SUFFICES ASSUME LostInv, RestartInv, [RedisNext]_<<vars, redisVars>> PROVE RestartInv'
    OBVIOUS
  <1>1. ASSUME NEW w \in Workers, WorkerStep(w) \/ WorkerExits(w) PROVE RestartInv'
    BY <1>1, WorkerStepKeepsRestartInv, WorkerExitsKeepsRestartInv
  <1>2. CASE RedisComesBack
    BY <1>2, RedisBackIsSame, OutsideKeepsRestartInv DEF vars, stream, store
  <1>3. CASE RedisComesBackEmpty
    BY <1>3, EmptyRedisKeepsRestartInv
  <1>4. ASSUME NEW p \in Events \cup {Malformed}, Publish(p), UNCHANGED redisVars
        PROVE  RestartInv'
    BY <1>4, PublishKeepsRestartInv DEF redisVars
  <1>5. ASSUME NEW m \in Ids, GoIdle(m), UNCHANGED redisVars PROVE RestartInv'
    BY <1>5, OutsideKeepsRestartInv DEF GoIdle, store, redisVars
  <1>6. CASE UNCHANGED <<vars, redisVars>>
    BY <1>6, OutsideKeepsRestartInv DEF vars, stream, store, redisVars
  <1> QED
    BY <1>1, <1>2, <1>3, <1>4, <1>5, <1>6 DEF RedisNext

\* A restart that forgets everything loses what was in the stream, and no more: an event
\* that is sent again is committed, pending or in the dead letter stream, unless an entry
\* of it was lost, as long as no worker outlives the idle limit and reservations can be
\* released (consumer.py: ensure_group; dedupe.py).  Workers exit only because of their
\* connection here, in a command to Redis, when they are committing nothing.
THEOREM OnlyTwinsOfLostEntriesDisappear ==
    ASSUME "slow" \notin Faults, "release_error" \notin Faults
    PROVE  RedisSpec => []ResendNeedsNoLostTwin
  <1>1. RedisInit => RestartInv
    <2> SUFFICES ASSUME RedisInit PROVE RestartInv
      OBVIOUS
    <2>1. Init
      BY DEF RedisInit
    <2>2. HandInv
      BY <2>1 DEF Init, HandInv, InOnePlace, EmptyLists, Hand, IdsOf, NoMessage
    <2>3. HandsPendingBut(lost) /\ DeadLetterWrittenBut(lost)
      BY <2>1 DEF Init, HandsPendingBut, DeadLetterWrittenBut, Hand, IdsOf, NoMessage
    <2>4. LossInvBut(lost)
      BY <2>1 DEF Init, LossInvBut, KeysHeld
    <2> QED
      BY <2>2, <2>3, <2>4 DEF RestartInv
  <1>2. LostInv /\ RestartInv /\ [RedisNext]_<<vars, redisVars>> => RestartInv'
    BY NextRestartInv
  <1>3. LostInv /\ RestartInv => ResendNeedsNoLostTwin
    BY DEF RestartInv, LossInvBut, Represented, ResendNeedsNoLostTwin, Accounted, Standing, Kept
  <1> QED
    BY <1>1, <1>2, <1>3, LostInvAlways, PTL DEF RedisSpec
=============================================================================
