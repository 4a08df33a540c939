----------------------- MODULE IngestDelivery_proofs -----------------------
(***************************************************************************)
(* Proofs about IngestDelivery for any workers, events, batch sizes and     *)
(* limits.  For every set of faults: its type invariant, the exactly-once   *)
(* effect of an event, and that no valid event is given up too early.       *)
(*                                                                          *)
(* For workers that finish within the idle limit, a message is in one pair  *)
(* of hands; if no worker dies, it is dead-lettered once; if reservations   *)
(* can be released too, no event is lost, and every step of the ingest is   *)
(* a step of EventSink.                                                     *)
(***************************************************************************)
EXTENDS IngestRefinement, TLAPS

\* The message a worker is working on.
InHand(w) ==
    /\ pc[w] \in {"apply", "release", "dead_ack"} => current[w] \in Message
    /\ pc[w] \in {"apply", "release"} =>
        current[w].id <= cursor /\ log[current[w].id] # Malformed

\* What a worker holds was delivered, that is, it is in the stream.
HeldWasDelivered(w) ==
    \A m \in todo[w] \cup scan[w] \cup dead[w] : m.id <= cursor

\* TypeOK alone is not preserved: what a worker acknowledges, reserves and
\* commits has a type only because it comes from a delivered message.
TypeInv ==
    /\ TypeOK
    /\ \A w \in Workers : InHand(w) /\ HeldWasDelivered(w)

USE ConstantsAssumption DEF Ids, Parsed

\* The fields of a message, and how one is made.
LEMMA MessageFields ==
    /\ \A m \in Message : m.id \in Ids /\ m.delivery_count \in Nat
    /\ \A i \in Ids, n \in Nat, r \in BOOLEAN :
        [id |-> i, delivery_count |-> n, reclaimed |-> r] \in Message
  BY DEF Message

LEMMA InitTypeInv == Init => TypeInv
  <1> SUFFICES ASSUME Init PROVE TypeInv
    OBVIOUS
  <1>1. TypeOK
    BY DEF Init, TypeOK, PCs, NoMessage
  <1>2. \A w \in Workers : InHand(w) /\ HeldWasDelivered(w)
    BY DEF Init, InHand, HeldWasDelivered
  <1> QED
    BY <1>1, <1>2 DEF TypeInv

\* A step that adds nothing to the stream and hands out nothing new keeps what
\* is held among what was delivered.
LEMMA KeepsWhatWasDelivered ==
    ASSUME TypeInv, UNCHANGED <<log, cursor>>,
           NEW w \in Workers,
           \A m \in todo'[w] \cup scan'[w] \cup dead'[w] :
                m \in todo[w] \cup scan[w] \cup dead[w] \/ m.id <= cursor
    PROVE  HeldWasDelivered(w)'
  BY DEF TypeInv, HeldWasDelivered

\* What is being applied or released is an event.
LEMMA InHandIsValid ==
    ASSUME TypeInv, NEW w \in Workers, pc[w] \in {"apply", "release"}
    PROVE  EventOf(current[w]) \in Events
  <1>1. current[w].id \in Ids /\ current[w].id <= cursor
    BY MessageFields DEF TypeInv, InHand
  <1>2. cursor \in Nat /\ Len(log) \in Nat /\ cursor <= Len(log)
    BY DEF TypeInv, TypeOK
  <1>3. current[w].id \in 1..Len(log)
    BY <1>1, <1>2
  <1>4. log \in Seq(Events \cup {Malformed}) /\ log[current[w].id] # Malformed
    BY DEF TypeInv, TypeOK, InHand
  <1> QED
    BY <1>3, <1>4 DEF EventOf

\* An entry that is appended changes no other entry.
LEMMA PublishKeepsEntries ==
    ASSUME TypeOK, NEW p \in Events \cup {Malformed}, Publish(p)
    PROVE  /\ log' \in Seq(Events \cup {Malformed})
           /\ Len(log') = Len(log) + 1
           /\ Len(log') <= MaxMessages
           /\ \A m \in 1..Len(log) : log'[m] = log[m]
  BY DEF TypeOK, Publish

LEMMA PublishTypeInv ==
    ASSUME TypeInv, NEW p \in Events \cup {Malformed}, Publish(p)
    PROVE  TypeInv'
  <1>1. /\ log' \in Seq(Events \cup {Malformed})
        /\ Len(log') = Len(log) + 1
        /\ Len(log') <= MaxMessages
        /\ \A m \in 1..Len(log) : log'[m] = log[m]
    BY PublishKeepsEntries DEF TypeInv
  <1>2. /\ UNCHANGED <<cursor, pel, times, idle, dlq>>
        /\ UNCHANGED <<keys, ledger, applied>>
        /\ UNCHANGED <<pc, cycle, todo, scan, current, acks, dead>>
    BY DEF Publish, store, local
  <1>3. TypeOK'
    <2>1. cursor' \in 0..Len(log')
      BY <1>1, <1>2 DEF TypeInv, TypeOK
    <2> QED
      BY <1>1, <1>2, <2>1 DEF TypeInv, TypeOK
  <1>4. ASSUME NEW w \in Workers PROVE InHand(w)' /\ HeldWasDelivered(w)'
    <2>1. InHand(w)'
      <3>1. CASE pc[w] \in {"apply", "release", "dead_ack"}
        <4>1. current[w] \in Message /\ current[w].id \in Ids
          BY <3>1, MessageFields DEF TypeInv, InHand
        <4>2. ASSUME current[w].id <= cursor
              PROVE  log'[current[w].id] = log[current[w].id]
          <5>1. cursor \in Nat /\ Len(log) \in Nat /\ cursor <= Len(log)
            BY DEF TypeInv, TypeOK
          <5>2. current[w].id \in 1..Len(log)
            BY <4>1, <4>2, <5>1
          <5> QED
            BY <5>2, <1>1
        <4> QED
          BY <3>1, <4>1, <4>2, <1>2 DEF TypeInv, InHand
      <3>2. CASE pc[w] \notin {"apply", "release", "dead_ack"}
        BY <3>2, <1>2 DEF InHand
      <3> QED
        BY <3>1, <3>2
    <2>2. HeldWasDelivered(w)'
      BY <1>2 DEF TypeInv, HeldWasDelivered
    <2> QED
      BY <2>1, <2>2
  <1> QED
    BY <1>3, <1>4 DEF TypeInv

\* What XREADGROUP delivers is in the stream, after the cursor.
LEMMA NewIdsInLog ==
    ASSUME TypeOK
    PROVE  /\ NewIds \subseteq (cursor + 1)..Len(log)
           /\ NewIds \subseteq Ids
           /\ \A m \in NewIds : m > cursor /\ m <= cursor + BatchSize
  <1>1. cursor \in Nat /\ Len(log) \in Nat /\ Len(log) <= MaxMessages
    BY DEF TypeOK
  <1> QED
    BY <1>1 DEF NewIds

LEMMA ReadMovesCursor ==
    ASSUME TypeOK, NEW w \in Workers, Read(w)
    PROVE  /\ cursor' \in cursor..Len(log) /\ cursor' \in Nat /\ cursor <= cursor'
           /\ NewIds \subseteq 1..cursor'
  <1>1. cursor \in Nat /\ Len(log) \in Nat /\ cursor <= Len(log)
    BY DEF TypeOK
  <1>2. cursor' = IF cursor + BatchSize <= Len(log) THEN cursor + BatchSize ELSE Len(log)
    BY DEF Read
  <1>3. /\ NewIds \subseteq (cursor + 1)..Len(log)
        /\ \A m \in NewIds : m <= cursor + BatchSize
    BY NewIdsInLog
  <1> QED
    BY <1>1, <1>2, <1>3

LEMMA ReadTypeInv ==
    ASSUME TypeInv, NEW w \in Workers, Read(w)
    PROVE  TypeInv'
  <1> DEFINE batch == {[id |-> m, delivery_count |-> FIRST_DELIVERY, reclaimed |-> FALSE] :
                            m \in NewIds}
  <1>1. cursor' \in cursor..Len(log) /\ NewIds \subseteq 1..cursor'
    BY ReadMovesCursor DEF TypeInv
  <1>2. batch \subseteq Message /\ \A m \in batch : m.id <= cursor'
    <2>1. NewIds \subseteq Ids /\ \A m \in NewIds : m <= cursor'
      BY <1>1, NewIdsInLog DEF TypeInv, TypeOK
    <2> SUFFICES ASSUME NEW m \in NewIds
                 PROVE  LET b == [id |-> m, delivery_count |-> FIRST_DELIVERY,
                                  reclaimed |-> FALSE]
                        IN  b \in Message /\ b.id <= cursor'
      OBVIOUS
    <2> QED
      BY <2>1, MessageFields DEF FIRST_DELIVERY
  <1>3. TypeOK'
    <2>1. todo' \in [Workers -> SUBSET Message]
      BY <1>2 DEF TypeInv, TypeOK, Read
    <2>2. times' \in [Ids -> Nat]
      BY NewIdsInLog DEF TypeInv, TypeOK, Read, FIRST_DELIVERY
    <2>3. cycle' \in [Workers -> 0..(ReclaimEvery - 1)]
      BY DEF TypeInv, TypeOK, Read
    <2>4. pc' \in [Workers -> PCs]
      BY DEF TypeInv, TypeOK, Read, PCs, AfterBatch
    <2>5. cursor' \in 0..Len(log') /\ pel' \subseteq 1..cursor' /\ idle' \subseteq pel'
      BY <1>1 DEF TypeInv, TypeOK, Read
    <2> QED
      BY <2>1, <2>2, <2>3, <2>4, <2>5 DEF TypeInv, TypeOK, Read, store
  <1>4. ASSUME NEW v \in Workers PROVE InHand(v)' /\ HeldWasDelivered(v)'
    <2>1. InHand(v)'
      <3>1. /\ pc'[v] \in {"apply", "release", "dead_ack"} => pc'[v] = pc[v]
            /\ UNCHANGED <<current, log>>
        BY DEF TypeInv, TypeOK, Read, AfterBatch
      <3>2. cursor \in Nat /\ cursor' \in Nat /\ cursor <= cursor'
        BY <1>1 DEF TypeInv, TypeOK
      <3>3. InHand(v)
        BY DEF TypeInv
      <3>4. current[v] \in Message => current[v].id \in Nat
        BY MessageFields
      <3> QED
        BY <3>1, <3>2, <3>3, <3>4 DEF InHand
    <2>2. HeldWasDelivered(v)'
      <3>1. todo'[v] \in {todo[v], batch} /\ scan' = scan /\ dead' = dead
        BY DEF TypeInv, TypeOK, Read
      <3>2. \A m \in todo[v] \cup scan[v] \cup dead[v] : m.id <= cursor'
        <4> SUFFICES ASSUME NEW m \in todo[v] \cup scan[v] \cup dead[v]
                     PROVE  m.id <= cursor'
          OBVIOUS
        <4>1. m.id \in Nat /\ m.id <= cursor
          BY MessageFields DEF TypeInv, TypeOK, HeldWasDelivered
        <4> QED
          BY <4>1, <1>1 DEF TypeInv, TypeOK
      <3> QED
        BY <3>1, <3>2, <1>2 DEF HeldWasDelivered
    <2> QED
      BY <2>1, <2>2
  <1> QED
    BY <1>3, <1>4 DEF TypeInv

LEMMA PendingDeliveryCountsTypeInv ==
    ASSUME TypeInv, NEW w \in Workers, PendingDeliveryCounts(w)
    PROVE  TypeInv'
  <1> DEFINE answer == {[id |-> m, delivery_count |-> times[m], reclaimed |-> TRUE] :
                            m \in OldestIdle}
  <1>0. answer \subseteq Message /\ \A m \in answer : m.id <= cursor
    <2>1. \A m \in OldestIdle : m \in Ids /\ m <= cursor /\ times[m] \in Nat
      BY DEF TypeInv, TypeOK, OldestIdle
    <2> SUFFICES ASSUME NEW m \in OldestIdle
                 PROVE  LET b == [id |-> m, delivery_count |-> times[m], reclaimed |-> TRUE]
                        IN  b \in Message /\ b.id <= cursor
      OBVIOUS
    <2> QED
      BY <2>1, MessageFields
  <1>1. TypeOK'
    <2>1. scan' \in [Workers -> SUBSET Message]
      BY <1>0 DEF TypeInv, TypeOK, PendingDeliveryCounts
    <2>2. pc' \in [Workers -> PCs]
      BY DEF TypeInv, TypeOK, PendingDeliveryCounts, AfterBatch, PCs
    <2> QED
      BY <2>1, <2>2 DEF TypeInv, TypeOK, PendingDeliveryCounts, stream, store
  <1>2. ASSUME NEW v \in Workers PROVE InHand(v)' /\ HeldWasDelivered(v)'
    <2>1. InHand(v)'
      BY DEF TypeInv, TypeOK, PendingDeliveryCounts, AfterBatch, stream, InHand
    <2>2. HeldWasDelivered(v)'
      <3>1. scan'[v] \in {scan[v], answer} /\ UNCHANGED <<log, cursor, todo, dead>>
        BY DEF TypeInv, TypeOK, PendingDeliveryCounts, stream
      <3> QED
        BY <3>1, <1>0, KeepsWhatWasDelivered
    <2> QED
      BY <2>1, <2>2
  <1> QED
    BY <1>1, <1>2 DEF TypeInv

LEMMA DiscardMalformedTypeInv ==
    ASSUME TypeInv, NEW w \in Workers, DiscardMalformed(w)
    PROVE  TypeInv'
  <1>1. TypeOK'
    <2>1. todo' \in [Workers -> SUBSET Message] /\ dead' \in [Workers -> SUBSET Message]
      BY DEF TypeInv, TypeOK, DiscardMalformed
    <2> QED
      BY <2>1 DEF TypeInv, TypeOK, DiscardMalformed, stream, store
  <1>2. ASSUME NEW v \in Workers PROVE InHand(v)' /\ HeldWasDelivered(v)'
    <2>1. InHand(v)'
      BY DEF TypeInv, TypeOK, DiscardMalformed, stream, InHand
    <2>2. HeldWasDelivered(v)'
      <3>1. /\ todo'[v] \subseteq todo[v] /\ dead'[v] \subseteq dead[v] \cup todo[v]
            /\ UNCHANGED <<log, cursor, scan>>
        BY DEF TypeInv, TypeOK, DiscardMalformed, stream
      <3> QED
        BY <3>1, KeepsWhatWasDelivered
    <2> QED
      BY <2>1, <2>2
  <1> QED
    BY <1>1, <1>2 DEF TypeInv

LEMMA CommitTypeInv ==
    ASSUME TypeInv, NEW w \in Workers, Commit(w)
    PROVE  TypeInv'
  <1>0. EventOf(current[w]) \in Events
    BY InHandIsValid DEF Commit
  <1>1. TypeOK'
    <2>1. current[w] \in Message
      BY DEF TypeInv, InHand, Commit
    <2>2. acks' \in [Workers -> SUBSET Ids]
      BY <2>1, MessageFields DEF TypeInv, TypeOK, Commit, Acknowledge
    <2>3. current' \in [Workers -> Message \cup {NoMessage}] /\ pc' \in [Workers -> PCs]
      BY DEF TypeInv, TypeOK, Commit, Acknowledge, PCs
    <2>5. ledger' \subseteq Events /\ applied' \in [Events -> Nat]
      BY <1>0 DEF TypeInv, TypeOK, Commit, CommitEffect
    <2> QED
      BY <2>2, <2>3, <2>5 DEF TypeInv, TypeOK, Commit, stream
  <1>2. ASSUME NEW v \in Workers PROVE InHand(v)' /\ HeldWasDelivered(v)'
    <2>1. InHand(v)'
      BY DEF TypeInv, TypeOK, Commit, Acknowledge, stream, InHand
    <2>2. HeldWasDelivered(v)'
      BY KeepsWhatWasDelivered DEF TypeInv, TypeOK, Commit, stream
    <2> QED
      BY <2>1, <2>2
  <1> QED
    BY <1>1, <1>2 DEF TypeInv

LEMMA DuplicateTypeInv ==
    ASSUME TypeInv, NEW w \in Workers, Duplicate(w)
    PROVE  TypeInv'
  <1>1. TypeOK'
    <2>1. current[w] \in Message
      BY DEF TypeInv, InHand, Duplicate
    <2>2. acks' \in [Workers -> SUBSET Ids]
      BY <2>1, MessageFields DEF TypeInv, TypeOK, Duplicate, Acknowledge
    <2>3. current' \in [Workers -> Message \cup {NoMessage}] /\ pc' \in [Workers -> PCs]
      BY DEF TypeInv, TypeOK, Duplicate, Acknowledge, PCs
    <2> QED
      BY <2>2, <2>3 DEF TypeInv, TypeOK, Duplicate, stream, store
  <1>2. ASSUME NEW v \in Workers PROVE InHand(v)' /\ HeldWasDelivered(v)'
    <2>1. InHand(v)'
      BY DEF TypeInv, TypeOK, Duplicate, Acknowledge, stream, InHand
    <2>2. HeldWasDelivered(v)'
      BY KeepsWhatWasDelivered DEF TypeInv, TypeOK, Duplicate, stream
    <2> QED
      BY <2>1, <2>2
  <1> QED
    BY <1>1, <1>2 DEF TypeInv

LEMMA FailTypeInv ==
    ASSUME TypeInv, NEW w \in Workers, Fail(w)
    PROVE  TypeInv'
  <1>1. TypeOK'
    BY DEF TypeInv, TypeOK, Fail, stream, store, PCs
  <1>2. ASSUME NEW v \in Workers PROVE InHand(v)' /\ HeldWasDelivered(v)'
    <2>1. InHand(v)'
      BY DEF TypeInv, TypeOK, Fail, stream, InHand
    <2>2. HeldWasDelivered(v)'
      BY KeepsWhatWasDelivered DEF TypeInv, TypeOK, Fail, stream
    <2> QED
      BY <2>1, <2>2
  <1> QED
    BY <1>1, <1>2 DEF TypeInv

LEMMA CommitLostTypeInv ==
    ASSUME TypeInv, NEW w \in Workers, CommitLost(w)
    PROVE  TypeInv'
  <1>0. EventOf(current[w]) \in Events
    BY InHandIsValid DEF CommitLost
  <1>1. TypeOK'
    <2>5. ledger' \subseteq Events /\ applied' \in [Events -> Nat]
      BY <1>0 DEF TypeInv, TypeOK, CommitLost, CommitEffect
    <2>6. pc' \in [Workers -> PCs]
      BY DEF TypeInv, TypeOK, CommitLost, PCs
    <2> QED
      BY <2>5, <2>6 DEF TypeInv, TypeOK, CommitLost, stream
  <1>2. ASSUME NEW v \in Workers PROVE InHand(v)' /\ HeldWasDelivered(v)'
    <2>1. InHand(v)'
      BY DEF TypeInv, TypeOK, CommitLost, stream, InHand
    <2>2. HeldWasDelivered(v)'
      BY KeepsWhatWasDelivered DEF TypeInv, TypeOK, CommitLost, stream
    <2> QED
      BY <2>1, <2>2
  <1> QED
    BY <1>1, <1>2 DEF TypeInv

LEMMA ReleaseTypeInv ==
    ASSUME TypeInv, NEW w \in Workers, Release(w)
    PROVE  TypeInv'
  <1>0. current[w] \in Message /\ current[w].id <= cursor
    BY DEF TypeInv, InHand, Release
  <1>1. TypeOK'
    <2>1. dead' \in [Workers -> SUBSET Message]
      BY <1>0 DEF TypeInv, TypeOK, Release
    <2>2. keys' \subseteq Events
      BY DEF TypeInv, TypeOK, Release, KeysAfterRelease
    <2>3. current' \in [Workers -> Message \cup {NoMessage}] /\ pc' \in [Workers -> PCs]
      BY DEF TypeInv, TypeOK, Release, PCs
    <2> QED
      BY <2>1, <2>2, <2>3 DEF TypeInv, TypeOK, Release, stream
  <1>2. ASSUME NEW v \in Workers PROVE InHand(v)' /\ HeldWasDelivered(v)'
    <2>1. InHand(v)'
      BY DEF TypeInv, TypeOK, Release, stream, InHand
    <2>2. HeldWasDelivered(v)'
      <3>1. /\ dead'[v] \subseteq dead[v] \cup {current[w]}
            /\ UNCHANGED <<log, cursor, todo, scan>>
        BY DEF TypeInv, TypeOK, Release, stream
      <3> QED
        BY <3>1, <1>0, KeepsWhatWasDelivered
    <2> QED
      BY <2>1, <2>2
  <1> QED
    BY <1>1, <1>2 DEF TypeInv

LEMMA EndPersistTypeInv ==
    ASSUME TypeInv, NEW w \in Workers, EndPersist(w)
    PROVE  TypeInv'
  <1>1. TypeOK'
    BY DEF TypeInv, TypeOK, EndPersist, stream, store, PCs
  <1>2. ASSUME NEW v \in Workers PROVE InHand(v)' /\ HeldWasDelivered(v)'
    <2>1. InHand(v)'
      BY DEF TypeInv, TypeOK, EndPersist, stream, InHand
    <2>2. HeldWasDelivered(v)'
      BY KeepsWhatWasDelivered DEF TypeInv, TypeOK, EndPersist, stream
    <2> QED
      BY <2>1, <2>2
  <1> QED
    BY <1>1, <1>2 DEF TypeInv

LEMMA SendToDeadLetterTypeInv ==
    ASSUME TypeInv, NEW w \in Workers, SendToDeadLetter(w)
    PROVE  TypeInv'
  <1>1. TypeOK'
    <2>1. current' \in [Workers -> Message \cup {NoMessage}] /\ pc' \in [Workers -> PCs]
      BY DEF TypeInv, TypeOK, SendToDeadLetter, PCs
    <2>2. dead' \in [Workers -> SUBSET Message]
      BY DEF TypeInv, TypeOK, SendToDeadLetter
    <2>3. dlq' \in [Ids -> Nat]
      <3>1. PICK m \in dead[w] : dlq' = [dlq EXCEPT ![m.id] = @ + 1]
        BY DEF SendToDeadLetter
      <3>2. dlq \in [Ids -> Nat] /\ m.id \in Ids
        BY MessageFields DEF TypeInv, TypeOK
      <3> QED
        BY <3>1, <3>2
    <2> QED
      BY <2>1, <2>2, <2>3 DEF TypeInv, TypeOK, SendToDeadLetter, store
  <1>2. ASSUME NEW v \in Workers PROVE InHand(v)' /\ HeldWasDelivered(v)'
    <2>1. InHand(v)'
      BY DEF TypeInv, TypeOK, SendToDeadLetter, stream, InHand
    <2>2. HeldWasDelivered(v)'
      <3>1. dead'[v] \subseteq dead[v] /\ UNCHANGED <<log, cursor, todo, scan>>
        BY DEF TypeInv, TypeOK, SendToDeadLetter
      <3> QED
        BY <3>1, KeepsWhatWasDelivered
    <2> QED
      BY <2>1, <2>2
  <1> QED
    BY <1>1, <1>2 DEF TypeInv

LEMMA AckDeadLetterTypeInv ==
    ASSUME TypeInv, NEW w \in Workers, AckDeadLetter(w)
    PROVE  TypeInv'
  <1>1. TypeOK'
    BY DEF TypeInv, TypeOK, AckDeadLetter, XAck, store, PCs
  <1>2. ASSUME NEW v \in Workers PROVE InHand(v)' /\ HeldWasDelivered(v)'
    <2>1. InHand(v)'
      BY DEF TypeInv, TypeOK, AckDeadLetter, stream, InHand
    <2>2. HeldWasDelivered(v)'
      BY KeepsWhatWasDelivered DEF TypeInv, TypeOK, AckDeadLetter, stream
    <2> QED
      BY <2>1, <2>2
  <1> QED
    BY <1>1, <1>2 DEF TypeInv

LEMMA AckTypeInv ==
    ASSUME TypeInv, NEW w \in Workers, Ack(w)
    PROVE  TypeInv'
  <1>1. TypeOK'
    BY DEF TypeInv, TypeOK, Ack, XAck, store, PCs
  <1>2. ASSUME NEW v \in Workers PROVE InHand(v)' /\ HeldWasDelivered(v)'
    <2>1. InHand(v)'
      BY DEF TypeInv, TypeOK, Ack, stream, InHand
    <2>2. HeldWasDelivered(v)'
      BY KeepsWhatWasDelivered DEF TypeInv, TypeOK, Ack, stream
    <2> QED
      BY <2>1, <2>2
  <1> QED
    BY <1>1, <1>2 DEF TypeInv

LEMMA NewProcessTypeInv ==
    ASSUME TypeInv, NEW w \in Workers, NewProcess(w)
    PROVE  TypeInv'
  <1>1. TypeOK'
    <2>1. /\ todo' \in [Workers -> SUBSET Message]
          /\ scan' \in [Workers -> SUBSET Message]
          /\ dead' \in [Workers -> SUBSET Message]
          /\ acks' \in [Workers -> SUBSET Ids]
      BY DEF TypeInv, TypeOK, NewProcess
    <2>2. /\ pc' \in [Workers -> PCs]
          /\ cycle' \in [Workers -> 0..(ReclaimEvery - 1)]
          /\ current' \in [Workers -> Message \cup {NoMessage}]
      BY DEF TypeInv, TypeOK, NewProcess, PCs
    <2> QED
      BY <2>1, <2>2 DEF TypeInv, TypeOK, NewProcess, stream, store
  <1>2. ASSUME NEW v \in Workers PROVE InHand(v)' /\ HeldWasDelivered(v)'
    <2>1. InHand(v)'
      BY DEF TypeInv, TypeOK, NewProcess, stream, InHand
    <2>2. HeldWasDelivered(v)'
      BY KeepsWhatWasDelivered DEF TypeInv, TypeOK, NewProcess, stream
    <2> QED
      BY <2>1, <2>2
  <1> QED
    BY <1>1, <1>2 DEF TypeInv

LEMMA GoIdleTypeInv ==
    ASSUME TypeInv, NEW m \in Ids, GoIdle(m)
    PROVE  TypeInv'
  <1>1. TypeOK'
    BY DEF TypeInv, TypeOK, GoIdle, store, local
  <1>2. ASSUME NEW v \in Workers PROVE InHand(v)' /\ HeldWasDelivered(v)'
    <2>1. InHand(v)'
      BY DEF TypeInv, TypeOK, GoIdle, local, InHand
    <2>2. HeldWasDelivered(v)'
      BY KeepsWhatWasDelivered DEF TypeInv, TypeOK, GoIdle, local
    <2> QED
      BY <2>1, <2>2
  <1> QED
    BY <1>1, <1>2 DEF TypeInv

LEMMA ExpireReservationTypeInv ==
    ASSUME TypeInv, NEW e \in Events, ExpireReservation(e)
    PROVE  TypeInv'
  <1>1. TypeOK'
    BY DEF TypeInv, TypeOK, ExpireReservation, stream, local
  <1>2. ASSUME NEW v \in Workers PROVE InHand(v)' /\ HeldWasDelivered(v)'
    <2>1. InHand(v)'
      BY DEF TypeInv, TypeOK, ExpireReservation, local, stream, InHand
    <2>2. HeldWasDelivered(v)'
      BY KeepsWhatWasDelivered DEF TypeInv, TypeOK, ExpireReservation, local, stream
    <2> QED
      BY <2>1, <2>2
  <1> QED
    BY <1>1, <1>2 DEF TypeInv

LEMMA ReclaimAbandonedTypeInv ==
    ASSUME TypeInv, NEW w \in Workers, ReclaimAbandoned(w)
    PROVE  TypeInv'
  <1>1. TypeOK'
    <2>1. Claimable(w) \subseteq Message
      BY DEF TypeInv, TypeOK, Claimable
    <2>2. todo' \in [Workers -> SUBSET Message] /\ scan' \in [Workers -> SUBSET Message]
      BY <2>1 DEF TypeInv, TypeOK, ReclaimAbandoned
    <2>3. times' \in [Ids -> Nat]
      BY DEF TypeInv, TypeOK, ReclaimAbandoned
    <2>4. pc' \in [Workers -> PCs]
      BY DEF TypeInv, TypeOK, ReclaimAbandoned, AfterBatch, PCs
    <2> QED
      BY <2>2, <2>3, <2>4 DEF TypeInv, TypeOK, ReclaimAbandoned, store
  <1>2. ASSUME NEW v \in Workers PROVE InHand(v)' /\ HeldWasDelivered(v)'
    <2>1. InHand(v)'
      BY DEF TypeInv, TypeOK, ReclaimAbandoned, AfterBatch, InHand
    <2>2. HeldWasDelivered(v)'
      <3>1. /\ todo'[v] \subseteq todo[v] \cup scan[v]
            /\ scan'[v] \subseteq scan[v]
            /\ UNCHANGED <<log, cursor, dead>>
        BY DEF TypeInv, TypeOK, ReclaimAbandoned, Claimable
      <3> QED
        BY <3>1, KeepsWhatWasDelivered
    <2> QED
      BY <2>1, <2>2
  <1> QED
    BY <1>1, <1>2 DEF TypeInv

LEMMA ClaimReservationTypeInv ==
    ASSUME TypeInv, NEW w \in Workers, ClaimReservation(w)
    PROVE  TypeInv'
  <1>1. PICK m \in todo[w] :
            /\ EventOf(m) # Malformed
            /\ todo' = [todo EXCEPT ![w] = @ \ {m}]
            /\ \E answer \in ClaimAnswers(EventOf(m)) :
                /\ keys' = answer.keys
                /\ \/ /\ current' = [current EXCEPT ![w] = m]
                      /\ pc' = [pc EXCEPT ![w] = "apply"]
                      /\ UNCHANGED acks
                   \/ /\ acks' = [acks EXCEPT ![w] = @ \cup {m.id}]
                      /\ UNCHANGED <<current, pc>>
    BY DEF ClaimReservation
  <1>2. m \in Message /\ m.id \in Ids /\ m.id <= cursor
    BY MessageFields DEF TypeInv, TypeOK, HeldWasDelivered
  <1>3. EventOf(m) \in Events
    <2>1. m.id \in 1..Len(log)
      BY <1>2 DEF TypeInv, TypeOK
    <2> QED
      BY <2>1, <1>1 DEF TypeInv, TypeOK, EventOf
  <1>4. TypeOK'
    <2>1. todo' \in [Workers -> SUBSET Message]
      BY <1>1 DEF TypeInv, TypeOK
    <2>2. keys' \subseteq Events
      BY <1>1, <1>3 DEF TypeInv, TypeOK, ClaimAnswers
    <2>3. /\ current' \in [Workers -> Message \cup {NoMessage}]
          /\ pc' \in [Workers -> PCs]
          /\ acks' \in [Workers -> SUBSET Ids]
      <3>1. CASE /\ current' = [current EXCEPT ![w] = m]
                 /\ pc' = [pc EXCEPT ![w] = "apply"]
                 /\ UNCHANGED acks
        BY <3>1, <1>2 DEF TypeInv, TypeOK, PCs
      <3>2. CASE /\ acks' = [acks EXCEPT ![w] = @ \cup {m.id}]
                 /\ UNCHANGED <<current, pc>>
        BY <3>2, <1>2 DEF TypeInv, TypeOK
      <3> QED
        BY <1>1, <3>1, <3>2
    <2> QED
      BY <2>1, <2>2, <2>3 DEF TypeInv, TypeOK, ClaimReservation, stream
  <1>5. ASSUME NEW v \in Workers PROVE InHand(v)' /\ HeldWasDelivered(v)'
    <2>1. UNCHANGED <<log, cursor, scan, dead>> /\ todo'[v] \subseteq todo[v]
      BY <1>1 DEF TypeInv, TypeOK, ClaimReservation, stream
    <2>2. InHand(v)'
      <3>1. \/ pc'[v] = pc[v] /\ current'[v] = current[v]
            \/ pc'[v] = "apply" /\ current'[v] = m
        BY <1>1 DEF TypeInv, TypeOK
      <3>2. InHand(v) /\ log[m.id] # Malformed
        BY <1>1 DEF TypeInv, EventOf
      <3> QED
        BY <1>2, <2>1, <3>1, <3>2 DEF InHand
    <2>3. HeldWasDelivered(v)'
      BY <2>1, KeepsWhatWasDelivered
    <2> QED
      BY <2>2, <2>3
  <1> QED
    BY <1>4, <1>5 DEF TypeInv

LEMMA StepTypeInv ==
    ASSUME TypeInv, NEW w \in Workers, Step(w)
    PROVE  TypeInv'
  BY ReadTypeInv, PendingDeliveryCountsTypeInv, ReclaimAbandonedTypeInv,
     DiscardMalformedTypeInv, ClaimReservationTypeInv, CommitTypeInv,
     DuplicateTypeInv, FailTypeInv, CommitLostTypeInv, ReleaseTypeInv,
     EndPersistTypeInv, SendToDeadLetterTypeInv, AckDeadLetterTypeInv, AckTypeInv
  DEF Step

LEMMA NextTypeInv == TypeInv /\ [Next]_vars => TypeInv'
  <1> SUFFICES ASSUME TypeInv, [Next]_vars PROVE TypeInv'
    OBVIOUS
  <1>1. ASSUME NEW p \in Events \cup {Malformed}, Publish(p) PROVE TypeInv'
    BY <1>1, PublishTypeInv
  <1>2. ASSUME NEW w \in Workers, Step(w) PROVE TypeInv'
    BY <1>2, StepTypeInv
  <1>3. ASSUME NEW w \in Workers, Crash(w) PROVE TypeInv'
    BY <1>3, NewProcessTypeInv DEF Crash
  <1>4. ASSUME NEW m \in Ids, GoIdle(m) PROVE TypeInv'
    BY <1>4, GoIdleTypeInv
  <1>5. ASSUME NEW e \in Events, ExpireReservation(e) PROVE TypeInv'
    BY <1>5, ExpireReservationTypeInv
  <1>6. CASE UNCHANGED vars
    <2>1. UNCHANGED <<log, cursor, pel, times, idle, dlq, keys, ledger, applied>>
      BY <1>6 DEF vars, stream, store
    <2>2. UNCHANGED <<pc, cycle, todo, scan, current, acks, dead>>
      BY <1>6 DEF vars, local
    <2> QED
      BY <2>1, <2>2 DEF TypeInv, TypeOK, InHand, HeldWasDelivered
  <1> QED
    BY <1>1, <1>2, <1>3, <1>4, <1>5, <1>6 DEF Next

LEMMA TypeInvAlways == Spec => []TypeInv
  BY InitTypeInv, NextTypeInv, PTL DEF Spec

\* The variables keep their types, and what is pending was delivered, whatever
\* the workers, the events and the faults (consumer.py, ingest_worker/main.py).
THEOREM TypeCorrect == Spec => []TypeOK
  <1>1. TypeInv => TypeOK
    BY DEF TypeInv
  <1> QED
    BY <1>1, TypeInvAlways, PTL

(***************************************************************************)
(* Exactly-once effect.                                                     *)
(***************************************************************************)

\* Only Commit and CommitLost write the ledger, and both write the effect with it, for an
\* event that the ledger did not have.
LEMMA StepAppliedAtMostOnce ==
    ASSUME TypeInv, AppliedAtMostOnce, NEW w \in Workers, Step(w)
    PROVE  AppliedAtMostOnce'
  <1>1. CASE Commit(w) \/ CommitLost(w)
    <2>1. PICK e \in Events : e = EventOf(current[w])
      BY <1>1, InHandIsValid DEF Commit, CommitLost
    <2>2. e \notin ledger /\ CommitEffect(e)
      BY <1>1, <2>1 DEF Commit, CommitLost, ClaimInLedger
    <2> QED
      BY <2>2 DEF TypeInv, TypeOK, AppliedAtMostOnce, CommitEffect
  <1>2. CASE ~Commit(w) /\ ~CommitLost(w)
    <2>1. UNCHANGED <<ledger, applied>>
      BY <1>2 DEF Step, Read, PendingDeliveryCounts, ReclaimAbandoned, DiscardMalformed,
         ClaimReservation, Duplicate, Fail, Release, EndPersist, SendToDeadLetter,
         AckDeadLetter, Ack, store
    <2> QED
      BY <2>1 DEF AppliedAtMostOnce
  <1> QED
    BY <1>1, <1>2

LEMMA NextAppliedAtMostOnce ==
    TypeInv /\ AppliedAtMostOnce /\ [Next]_vars => AppliedAtMostOnce'
  <1> SUFFICES ASSUME TypeInv, AppliedAtMostOnce, [Next]_vars
               PROVE  AppliedAtMostOnce'
    OBVIOUS
  <1>1. ASSUME UNCHANGED <<ledger, applied>> PROVE AppliedAtMostOnce'
    BY <1>1 DEF AppliedAtMostOnce
  <1>2. ASSUME NEW w \in Workers, Step(w) PROVE AppliedAtMostOnce'
    BY <1>2, StepAppliedAtMostOnce
  <1>3. ASSUME NEW w \in Workers, Crash(w) PROVE AppliedAtMostOnce'
    BY <1>1, <1>3 DEF Crash, NewProcess, store
  <1>4. ASSUME NEW p \in Events \cup {Malformed}, Publish(p) PROVE AppliedAtMostOnce'
    BY <1>1, <1>4 DEF Publish, store
  <1>5. ASSUME NEW m \in Ids, GoIdle(m) PROVE AppliedAtMostOnce'
    BY <1>1, <1>5 DEF GoIdle, store
  <1>6. ASSUME NEW e \in Events, ExpireReservation(e) PROVE AppliedAtMostOnce'
    BY <1>1, <1>6 DEF ExpireReservation
  <1>7. CASE UNCHANGED vars
    BY <1>1, <1>7 DEF vars, store
  <1> QED
    BY <1>2, <1>3, <1>4, <1>5, <1>6, <1>7 DEF Next

\* The transaction of an event commits at most once, and exactly when the
\* ledger has the event, under crashes, slow workers, expired or refused
\* reservations and lost answers (processor.py: _claim_in_ledger).
THEOREM ExactlyOnceEffect == Spec => []AppliedAtMostOnce
  <1>1. Init => AppliedAtMostOnce
    BY DEF Init, AppliedAtMostOnce
  <1> QED
    BY <1>1, NextAppliedAtMostOnce, TypeInvAlways, PTL DEF Spec

(***************************************************************************)
(* No event is given up early.                                              *)
(***************************************************************************)

\* A worker never believes in more deliveries than there were, and what it
\* gives up was delivered often enough, unless it is malformed.
CountsAreBehind(w) ==
    /\ \A m \in todo[w] \cup scan[w] : m.delivery_count <= times[m.id]
    /\ pc[w] \in {"apply", "release"} =>
        current[w].delivery_count <= times[current[w].id]
    /\ \A m \in dead[w] : log[m.id] # Malformed => times[m.id] >= MaxDelivery

\* Every entry counts from its first delivery, and only delivered entries are
\* in the dead letter stream.
DeliveryInv ==
    /\ \A w \in Workers : CountsAreBehind(w)
    /\ \A m \in Ids : m > cursor => times[m] = 0 /\ dlq[m] = 0
    /\ \A m \in Ids : m <= cursor => times[m] >= FIRST_DELIVERY
    /\ NoEarlyDeadLetter

\* Steps that only count up, and change nothing of what the workers hold but
\* what is named, keep the counts behind.
LEMMA CountsStayBehind ==
    ASSUME TypeInv, NEW w \in Workers, CountsAreBehind(w),
           \A m \in Ids : times'[m] >= times[m] /\ times'[m] \in Nat,
           \A m \in Ids : m <= cursor => log'[m] = log[m],
           \A m \in todo'[w] \cup scan'[w] :
                m \in todo[w] \cup scan[w] \/ m.delivery_count <= times'[m.id],
           \A m \in dead'[w] :
                m \in dead[w] \/ (log'[m.id] # Malformed => times'[m.id] >= MaxDelivery),
           pc'[w] \in {"apply", "release"} =>
                \/ current'[w].delivery_count <= times'[current'[w].id]
                \/ pc[w] \in {"apply", "release"} /\ current'[w] = current[w]
    PROVE  CountsAreBehind(w)'
  <1>1. \A m \in todo[w] \cup scan[w] \cup dead[w] : m \in Message /\ m.id <= cursor
    BY DEF TypeInv, TypeOK, HeldWasDelivered
  <1>2. times \in [Ids -> Nat]
    BY DEF TypeInv, TypeOK
  <1>3. \A m \in todo'[w] \cup scan'[w] : m.delivery_count <= times'[m.id]
    <2> SUFFICES ASSUME NEW m \in todo[w] \cup scan[w]
                 PROVE  m.delivery_count <= times'[m.id]
      OBVIOUS
    <2>1. m.id \in Ids /\ m.delivery_count \in Nat /\ m.delivery_count <= times[m.id]
      BY <1>1, MessageFields DEF CountsAreBehind
    <2> QED
      BY <2>1, <1>2
  <1>4. \A m \in dead'[w] : log'[m.id] # Malformed => times'[m.id] >= MaxDelivery
    <2> SUFFICES ASSUME NEW m \in dead[w], log'[m.id] # Malformed
                 PROVE  times'[m.id] >= MaxDelivery
      OBVIOUS
    <2>1. m.id \in Ids /\ log'[m.id] = log[m.id]
      BY <1>1, MessageFields
    <2> QED
      BY <2>1, <1>2 DEF CountsAreBehind
  <1>5. ASSUME pc'[w] \in {"apply", "release"}
        PROVE  current'[w].delivery_count <= times'[current'[w].id]
    <2>1. CASE pc[w] \in {"apply", "release"} /\ current'[w] = current[w]
      <3>1. current[w].id \in Ids /\ current[w].delivery_count \in Nat
        BY <2>1, MessageFields DEF TypeInv, InHand
      <3> QED
        BY <2>1, <3>1, <1>2 DEF CountsAreBehind
    <2> QED
      BY <1>5, <2>1
  <1> QED
    BY <1>3, <1>4, <1>5 DEF CountsAreBehind

\* Reading new entries: their count becomes FIRST_DELIVERY, no other changes.
LEMMA ReadCounts ==
    ASSUME TypeInv, DeliveryInv, NEW w \in Workers, Read(w), NEW v \in Workers
    PROVE  CountsAreBehind(v)'
  <1> DEFINE batch == {[id |-> m, delivery_count |-> FIRST_DELIVERY, reclaimed |-> FALSE] :
                            m \in NewIds}
  <1>1. NewIds \subseteq Ids /\ \A m \in NewIds : m > cursor
    BY NewIdsInLog DEF TypeInv, TypeOK
  <1>2. \A m \in Ids : times'[m] >= times[m] /\ times'[m] \in Nat
    <2> SUFFICES ASSUME NEW m \in Ids
                 PROVE  times'[m] >= times[m] /\ times'[m] \in Nat
      OBVIOUS
    <2>1. times'[m] = IF m \in NewIds THEN 1 ELSE times[m]
      BY DEF Read, FIRST_DELIVERY
    <2>2. times[m] \in Nat /\ (m > cursor => times[m] = 0)
      BY DEF TypeInv, TypeOK, DeliveryInv
    <2> QED
      BY <1>1, <2>1, <2>2
  <1>3. \A m \in batch : m.delivery_count <= times'[m.id]
    <2> SUFFICES ASSUME NEW m \in NewIds PROVE FIRST_DELIVERY <= times'[m]
      OBVIOUS
    <2> QED
      BY <1>1 DEF Read, FIRST_DELIVERY
  <1>4. todo'[v] \in {todo[v], batch} /\ UNCHANGED <<log, scan, dead, current>>
    BY DEF Read, TypeInv, TypeOK
  <1>5. pc'[v] \in {"apply", "release"} => pc'[v] = pc[v]
    BY DEF Read, TypeInv, TypeOK, AfterBatch
  <1> QED
    BY <1>2, <1>3, <1>4, <1>5, CountsStayBehind DEF DeliveryInv

\* XCLAIM adds one to the count that the worker saw before.
LEMMA ReclaimAbandonedCounts ==
    ASSUME TypeInv, DeliveryInv, NEW w \in Workers, ReclaimAbandoned(w),
           NEW v \in Workers
    PROVE  CountsAreBehind(v)'
  <1>1. \A m \in Ids : times'[m] >= times[m] /\ times'[m] \in Nat
    BY DEF TypeInv, TypeOK, ReclaimAbandoned
  <1>2. /\ todo'[v] \subseteq todo[v] \cup scan[v]
        /\ scan'[v] \subseteq scan[v]
        /\ UNCHANGED <<log, dead, current>>
    BY DEF TypeInv, TypeOK, ReclaimAbandoned, Claimable
  <1>3. pc'[v] \in {"apply", "release"} => pc'[v] = pc[v]
    BY DEF ReclaimAbandoned, TypeInv, TypeOK, AfterBatch
  <1> QED
    BY <1>1, <1>2, <1>3, CountsStayBehind DEF DeliveryInv

\* XPENDING answers the counts as they are.
LEMMA PendingDeliveryCountsCounts ==
    ASSUME TypeInv, DeliveryInv, NEW w \in Workers, PendingDeliveryCounts(w),
           NEW v \in Workers
    PROVE  CountsAreBehind(v)'
  <1> DEFINE answer == {[id |-> m, delivery_count |-> times[m], reclaimed |-> TRUE] :
                            m \in OldestIdle}
  <1>1. \A m \in Ids : times[m] \in Nat
    BY DEF TypeInv, TypeOK
  <1>2. \A m \in answer : m.delivery_count <= times[m.id]
    <2> SUFFICES ASSUME NEW m \in OldestIdle PROVE times[m] <= times[m]
      OBVIOUS
    <2> QED
      BY <1>1 DEF OldestIdle, TypeInv, TypeOK
  <1>3. /\ scan'[v] \in {scan[v], answer}
        /\ UNCHANGED <<log, times, todo, dead, current>>
    BY DEF PendingDeliveryCounts, TypeInv, TypeOK, stream
  <1>4. pc'[v] \in {"apply", "release"} => pc'[v] = pc[v]
    BY DEF PendingDeliveryCounts, TypeInv, TypeOK, AfterBatch
  <1> QED
    BY <1>1, <1>2, <1>3, <1>4, CountsStayBehind DEF DeliveryInv

\* A worker takes a message of its batch in hand, with its count.
LEMMA ClaimReservationCounts ==
    ASSUME TypeInv, DeliveryInv, NEW w \in Workers, ClaimReservation(w),
           NEW v \in Workers
    PROVE  CountsAreBehind(v)'
  <1>1. /\ UNCHANGED <<log, times, scan, dead>>
        /\ todo'[v] \subseteq todo[v]
        /\ \/ current'[v] \in todo[v]
           \/ current'[v] = current[v] /\ pc'[v] = pc[v]
    BY DEF ClaimReservation, TypeInv, TypeOK, stream
  <1>2. \A m \in Ids : times[m] \in Nat
    BY DEF TypeInv, TypeOK
  <1> QED
    BY <1>1, <1>2, CountsStayBehind DEF DeliveryInv, CountsAreBehind

\* A message is given up because it is malformed or its deliveries are exhausted.
LEMMA GivingUpCounts ==
    ASSUME TypeInv, DeliveryInv, NEW w \in Workers, DiscardMalformed(w) \/ Release(w),
           NEW v \in Workers
    PROVE  CountsAreBehind(v)'
  <1>1. \A m \in Ids : times[m] \in Nat
    BY DEF TypeInv, TypeOK
  <1>2. CASE DiscardMalformed(w)
    <2>1. /\ UNCHANGED <<log, times, scan, current, pc>>
          /\ todo'[v] \subseteq todo[v]
          /\ \A m \in dead'[v] : m \in dead[v] \/ log[m.id] = Malformed
      BY <1>2 DEF DiscardMalformed, TypeInv, TypeOK, stream, EventOf
    <2> QED
      BY <1>1, <2>1, CountsStayBehind DEF DeliveryInv
  <1>3. CASE Release(w)
    <2>1. current[w] \in Message /\ current[w].delivery_count <= times[current[w].id]
      BY <1>3 DEF Release, TypeInv, InHand, DeliveryInv, CountsAreBehind
    <2>2. DeliveriesExhausted(current[w]) => times[current[w].id] >= MaxDelivery
      BY <1>1, <2>1, MessageFields DEF DeliveriesExhausted
    <2>3. /\ UNCHANGED <<log, times, scan, todo>>
          /\ pc'[v] \in {"apply", "release"} => pc'[v] = pc[v] /\ current'[v] = current[v]
      BY <1>3 DEF Release, TypeInv, TypeOK, stream
    <2>4. \A m \in dead'[v] :
            \/ m \in dead[v]
            \/ m = current[w] /\ DeliveriesExhausted(current[w])
      <3>1. CASE DeliveriesExhausted(current[w])
        BY <1>3, <3>1 DEF Release, TypeInv, TypeOK
      <3>2. CASE ~DeliveriesExhausted(current[w])
        <4>1. dead' = [dead EXCEPT ![w] = dead[w]]
          BY <1>3, <3>2 DEF Release
        <4>2. dead'[v] = dead[v]
          BY <4>1 DEF TypeInv, TypeOK
        <4> QED
          BY <4>2
      <3> QED
        BY <3>1, <3>2
    <2> QED
      BY <1>1, <2>2, <2>3, <2>4, CountsStayBehind DEF DeliveryInv
  <1> QED
    BY <1>2, <1>3

\* The other steps of a worker change no count and take nothing new in hand.
LEMMA OtherStepCounts ==
    ASSUME TypeInv, DeliveryInv, NEW w \in Workers,
           \/ Commit(w) \/ Duplicate(w) \/ Fail(w) \/ CommitLost(w) \/ EndPersist(w)
           \/ SendToDeadLetter(w) \/ AckDeadLetter(w) \/ Ack(w) \/ Crash(w),
           NEW v \in Workers
    PROVE  CountsAreBehind(v)'
  <1>1. \A m \in Ids : times[m] \in Nat
    BY DEF TypeInv, TypeOK
  <1> DEFINE Quiet ==
        /\ UNCHANGED <<log, times>>
        /\ todo'[v] \subseteq todo[v] /\ scan'[v] \subseteq scan[v]
        /\ dead'[v] \subseteq dead[v]
        /\ pc'[v] \in {"apply", "release"} =>
                pc[v] \in {"apply", "release"} /\ current'[v] = current[v]
  <1>2. ASSUME Commit(w) \/ Duplicate(w) PROVE Quiet
    BY <1>2 DEF Commit, Duplicate, Acknowledge, TypeInv, TypeOK, stream
  <1>3. ASSUME Fail(w) \/ CommitLost(w) \/ EndPersist(w) PROVE Quiet
    BY <1>3 DEF Fail, CommitLost, EndPersist, TypeInv, TypeOK, stream
  <1>4. ASSUME SendToDeadLetter(w) PROVE Quiet
    BY <1>4 DEF SendToDeadLetter, TypeInv, TypeOK
  <1>5. ASSUME AckDeadLetter(w) \/ Ack(w) PROVE Quiet
    BY <1>5 DEF AckDeadLetter, Ack, TypeInv, TypeOK
  <1>6. ASSUME Crash(w) PROVE Quiet
    BY <1>6 DEF Crash, NewProcess, TypeInv, TypeOK, stream
  <1>7. Quiet
    BY <1>2, <1>3, <1>4, <1>5, <1>6
  <1> QED
    BY <1>1, <1>7, CountsStayBehind DEF DeliveryInv

LEMMA NextCounts ==
    ASSUME TypeInv, DeliveryInv, [Next]_vars, NEW v \in Workers
    PROVE  CountsAreBehind(v)'
  <1>1. \A m \in Ids : times[m] \in Nat
    BY DEF TypeInv, TypeOK
  <1>2. ASSUME NEW w \in Workers, Step(w) \/ Crash(w) PROVE CountsAreBehind(v)'
    BY <1>2, ReadCounts, PendingDeliveryCountsCounts, ReclaimAbandonedCounts,
       ClaimReservationCounts, GivingUpCounts, OtherStepCounts
    DEF Step
  <1>3. ASSUME UNCHANGED local, UNCHANGED times, \A m \in Ids : m <= cursor => log'[m] = log[m]
        PROVE  CountsAreBehind(v)'
    <2>1. UNCHANGED <<pc, todo, scan, current, dead>>
      BY <1>3 DEF local
    <2> QED
      BY <1>1, <1>3, <2>1, CountsStayBehind DEF DeliveryInv
  <1>4. ASSUME NEW p \in Events \cup {Malformed}, Publish(p) PROVE CountsAreBehind(v)'
    <2>1. \A m \in 1..Len(log) : log'[m] = log[m]
      BY <1>4, PublishKeepsEntries DEF TypeInv
    <2>2. \A m \in Ids : m <= cursor => log'[m] = log[m]
      BY <2>1 DEF TypeInv, TypeOK
    <2> QED
      BY <1>3, <1>4, <2>2 DEF Publish
  <1>5. ASSUME NEW m \in Ids, GoIdle(m) PROVE CountsAreBehind(v)'
    BY <1>3, <1>5 DEF GoIdle
  <1>6. ASSUME NEW e \in Events, ExpireReservation(e) PROVE CountsAreBehind(v)'
    BY <1>3, <1>6 DEF ExpireReservation, stream
  <1>7. CASE UNCHANGED vars
    BY <1>3, <1>7 DEF vars, stream
  <1> QED
    BY <1>2, <1>4, <1>5, <1>6, <1>7 DEF Next

\* Deliveries and dead letters, entry by entry.
DeliveredIffCounted ==
    /\ \A m \in Ids : m > cursor => times[m] = 0 /\ dlq[m] = 0
    /\ \A m \in Ids : m <= cursor => times[m] >= FIRST_DELIVERY

LEMMA NextDelivered ==
    ASSUME TypeInv, DeliveryInv, [Next]_vars
    PROVE  (DeliveredIffCounted /\ NoEarlyDeadLetter)'
  <1> USE DEF DeliveredIffCounted, NoEarlyDeadLetter, FIRST_DELIVERY
  <1>1. ASSUME UNCHANGED <<log, cursor, times, dlq>>
        PROVE  (DeliveredIffCounted /\ NoEarlyDeadLetter)'
    BY <1>1 DEF DeliveryInv
  <1>2. ASSUME NEW p \in Events \cup {Malformed}, Publish(p)
        PROVE  (DeliveredIffCounted /\ NoEarlyDeadLetter)'
    <2>1. /\ Len(log') = Len(log) + 1 /\ Len(log') <= MaxMessages
          /\ \A m \in 1..Len(log) : log'[m] = log[m]
      BY <1>2, PublishKeepsEntries DEF TypeInv
    <2>2. UNCHANGED <<cursor, times, dlq>>
      BY <1>2 DEF Publish
    <2>3. \A m \in 1..Len(log') : m \in 1..Len(log) \/ m > cursor
      BY <2>1 DEF TypeInv, TypeOK
    <2>4. 1..Len(log') \subseteq Ids
      BY <2>1 DEF TypeInv, TypeOK
    <2> QED
      BY <2>1, <2>2, <2>3, <2>4 DEF DeliveryInv
  <1>3. ASSUME NEW w \in Workers, Read(w)
        PROVE  (DeliveredIffCounted /\ NoEarlyDeadLetter)'
    <2>1. /\ cursor \in Nat /\ cursor' \in Nat /\ cursor' >= cursor
          /\ UNCHANGED <<log, dlq>>
      BY <1>3 DEF Read, TypeInv, TypeOK
    <2>2. \A m \in Ids : times'[m] = IF m \in NewIds THEN 1 ELSE times[m]
      BY <1>3 DEF Read
    <2>3. \A m \in Ids : m \in NewIds <=> m > cursor /\ m <= cursor'
      <3>1. cursor \in Nat /\ Len(log) \in Nat /\ cursor <= Len(log) /\ Len(log) <= MaxMessages
        BY DEF TypeInv, TypeOK
      <3>2. CASE cursor + BatchSize <= Len(log)
        BY <1>3, <3>1, <3>2 DEF Read, NewIds
      <3>3. CASE ~(cursor + BatchSize <= Len(log))
        BY <1>3, <3>1, <3>3 DEF Read, NewIds
      <3> QED
        BY <3>2, <3>3
    <2>4. 1..Len(log) \subseteq Ids /\ \A m \in Ids : times[m] \in Nat /\ dlq[m] \in Nat
      BY DEF TypeInv, TypeOK
    <2>5. DeliveredIffCounted'
      BY <2>1, <2>2, <2>3, <2>4 DEF DeliveryInv
    <2>6. NoEarlyDeadLetter'
      BY <2>1, <2>2, <2>3, <2>4 DEF DeliveryInv
    <2> QED
      BY <2>5, <2>6
  <1>4. ASSUME NEW w \in Workers, ReclaimAbandoned(w)
        PROVE  (DeliveredIffCounted /\ NoEarlyDeadLetter)'
    <2>1. UNCHANGED <<log, cursor, dlq>>
      BY <1>4 DEF ReclaimAbandoned
    <2>2. \A m \in Ids : times[m] \in Nat /\ times'[m] \in {times[m], times[m] + 1}
      BY <1>4 DEF ReclaimAbandoned, TypeInv, TypeOK
    <2>3. \A m \in Ids : m > cursor => times'[m] = times[m]
      <3>1. \A m \in IdsOf(Claimable(w)) : m \in pel
        BY DEF IdsOf, Claimable
      <3> QED
        BY <1>4, <3>1 DEF ReclaimAbandoned, TypeInv, TypeOK
    <2>4. 1..Len(log) \subseteq Ids
      BY DEF TypeInv, TypeOK
    <2> QED
      BY <2>1, <2>2, <2>3, <2>4 DEF DeliveryInv
  <1>5. ASSUME NEW w \in Workers, SendToDeadLetter(w)
        PROVE  (DeliveredIffCounted /\ NoEarlyDeadLetter)'
    <2>1. PICK m \in dead[w] : dlq' = [dlq EXCEPT ![m.id] = @ + 1]
      BY <1>5 DEF SendToDeadLetter
    <2>2. m.id \in Ids /\ m.id <= cursor
      BY MessageFields DEF TypeInv, TypeOK, HeldWasDelivered
    <2>3. log[m.id] # Malformed => times[m.id] >= MaxDelivery
      BY DEF DeliveryInv, CountsAreBehind
    <2>4. UNCHANGED <<log, cursor, times>>
      BY <1>5 DEF SendToDeadLetter
    <2>5. cursor \in Nat /\ \A k \in Ids \ {m.id} : dlq'[k] = dlq[k]
      BY <2>1 DEF TypeInv, TypeOK
    <2>6. 1..Len(log) \subseteq Ids
      BY DEF TypeInv, TypeOK
    <2>7. DeliveredIffCounted'
      BY <2>2, <2>4, <2>5, <2>6 DEF DeliveryInv, DeliveredIffCounted
    <2> QED
      BY <2>3, <2>4, <2>5, <2>6, <2>7 DEF DeliveryInv, NoEarlyDeadLetter
  <1>6. ASSUME NEW w \in Workers, Step(w), ~Read(w), ~ReclaimAbandoned(w),
               ~SendToDeadLetter(w)
        PROVE  UNCHANGED <<log, cursor, times, dlq>>
    BY <1>6 DEF Step, PendingDeliveryCounts, DiscardMalformed, ClaimReservation, Commit,
       Duplicate, Fail, CommitLost, Release, EndPersist, AckDeadLetter, Ack, stream
  <1>7. ASSUME NEW w \in Workers, Crash(w) PROVE UNCHANGED <<log, cursor, times, dlq>>
    BY <1>7 DEF Crash, NewProcess, stream
  <1>8. ASSUME NEW m \in Ids, GoIdle(m) PROVE UNCHANGED <<log, cursor, times, dlq>>
    BY <1>8 DEF GoIdle
  <1>9. ASSUME NEW e \in Events, ExpireReservation(e)
        PROVE  UNCHANGED <<log, cursor, times, dlq>>
    BY <1>9 DEF ExpireReservation, stream
  <1>10. CASE UNCHANGED vars
    BY <1>1, <1>10 DEF vars, stream
  <1> HIDE DEF DeliveredIffCounted, NoEarlyDeadLetter
  <1> QED
    BY <1>1, <1>2, <1>3, <1>4, <1>5, <1>6, <1>7, <1>8, <1>9, <1>10 DEF Next

LEMMA DeliveryInvAlways == Spec => []DeliveryInv
  <1>1. Init => DeliveryInv
    <2> SUFFICES ASSUME Init PROVE DeliveryInv
      OBVIOUS
    <2>1. \A w \in Workers : CountsAreBehind(w)
      BY DEF Init, CountsAreBehind
    <2>2. NoEarlyDeadLetter
      BY DEF Init, NoEarlyDeadLetter
    <2> QED
      BY <2>1, <2>2 DEF Init, DeliveryInv, FIRST_DELIVERY
  <1>2. TypeInv /\ DeliveryInv /\ [Next]_vars => DeliveryInv'
    BY NextCounts, NextDelivered DEF DeliveryInv, DeliveredIffCounted
  <1> QED
    BY <1>1, <1>2, TypeInvAlways, PTL DEF Spec

\* An event is dead-lettered only after consumer_max_delivery deliveries, no
\* matter which workers counted them, how old their answer of XPENDING was and
\* what failed in between (consumer.py: reclaim_abandoned; main.py: _persist).
THEOREM GivenUpOnlyWhenExhausted == Spec => []NoEarlyDeadLetter
  <1>1. DeliveryInv => NoEarlyDeadLetter
    BY DEF DeliveryInv
  <1> QED
    BY <1>1, DeliveryInvAlways, PTL

\* The entries worker v has in hand: what ExclusiveDelivery speaks of.
Hand(w) == IdsOf(todo[w] \cup dead[w]) \cup acks[w] \cup {current[w].id}

\* A message is in one of a worker's lists, once.
InOnePlace(w) ==
    /\ \A a, b \in todo[w] \cup dead[w] : a.id = b.id => a = b
    /\ \A a, b \in scan[w] : a.id = b.id => a = b
    /\ todo[w] \cap dead[w] = {}
    /\ acks[w] \cap IdsOf(todo[w] \cup dead[w]) = {}
    /\ current[w].id \notin IdsOf(todo[w] \cup dead[w]) \cup acks[w]

\* The lists that are empty at each point of the loop.
EmptyLists(w) ==
    /\ pc[w] \in {"read", "scan", "reclaim", "process", "dead"} => current[w] = NoMessage
    /\ pc[w] \in {"read", "scan", "reclaim"} => dead[w] = {} /\ acks[w] = {}
    /\ pc[w] \in {"read", "dead", "dead_ack"} => todo[w] = {}

\* What a worker has in hand was delivered, is not idle, and in nobody else's hands.
HandInv ==
    /\ \A w \in Workers : InOnePlace(w) /\ EmptyLists(w)
    /\ \A w \in Workers : \A m \in Ids \cap Hand(w) :
        /\ m <= cursor /\ m \notin idle
        /\ \A v \in Workers : m \in Hand(v) => v = w

\* It is pending, too, as long as Redis does not forget it.
HandsPending == \A w \in Workers : Ids \cap Hand(w) \subseteq pel

\* A message in the dead letter stream is there once, and it is no longer pending or a
\* worker is about to acknowledge it.
DeadLetterInv ==
    /\ \A m \in Ids : dlq[m] > 0 =>
        /\ dlq[m] = 1
        /\ m \in pel => \E w \in Workers : pc[w] = "dead_ack" /\ current[w].id = m
    /\ \A w \in Workers : pc[w] = "dead_ack" => dlq[current[w].id] = 1

\* Entry k is not settled silently: it can be delivered or is in the dead letter stream.
Kept(k) == CanStillBeDelivered(k) \/ dlq[k] > 0

\* It also stands for its event: nobody is about to acknowledge it.
Standing(k) == Kept(k) /\ \A w \in Workers : k \notin acks[w]

\* A reserved event is committed or somebody is committing it.
KeysHeld ==
    \A e \in keys :
        \/ FactCommitted(FactOf[e])
        \/ \E w \in Workers : pc[w] \in {"apply", "release"} /\ EventOf(current[w]) = e

\* The fact of entry m is committed, or some entry stands for its event.
Represented(m) ==
    \/ FactCommitted(FactOf[log[m]])
    \/ \E k \in 1..Len(log) : log[k] = log[m] /\ Standing(k)

\* Malformed entries are kept and not acknowledged; a valid one may be acknowledged when
\* its fact is committed or another entry stands for its event.  The entries of L, which
\* Redis forgot, and those of the same events are excepted.
LossInvBut(L) ==
    /\ \A m \in 1..Len(log) : log[m] = Malformed => Kept(m) \/ m \in L
    /\ \A w \in Workers : \A m \in acks[w] : m <= cursor /\ log[m] # Malformed
    /\ KeysHeld
    /\ \A m \in 1..Len(log) : log[m] # Malformed =>
            Represented(m) \/ \E k \in L : log[k] = log[m]

LossInv == LossInvBut({})

\* What a worker has in hand is pending, and what it dead-letters has its copy, but for L.
HandsPendingBut(L) == \A w \in Workers : Ids \cap Hand(w) \subseteq pel \cup L

DeadLetterWrittenBut(L) ==
    \A w \in Workers : pc[w] = "dead_ack" => current[w].id \in L \/ dlq[current[w].id] > 0

\* The log, the ledger and the cursor of a worker's step.
LEMMA StepKeepsLog ==
    ASSUME TypeInv, NEW w \in Workers, Step(w)
    PROVE  log' = log /\ cursor <= cursor' /\ cursor' \in Nat /\ ledger \subseteq ledger'
  <1>1. CASE Commit(w) \/ CommitLost(w)
    BY <1>1 DEF Commit, CommitLost, CommitEffect, stream, TypeInv, TypeOK
  <1>2. CASE Read(w)
    BY <1>2, ReadMovesCursor DEF Read, store, TypeInv
  <1>3. CASE ~Commit(w) /\ ~CommitLost(w) /\ ~Read(w)
    <2>1. UNCHANGED <<log, cursor, ledger>>
      BY <1>3 DEF Step, PendingDeliveryCounts, ReclaimAbandoned, DiscardMalformed,
         ClaimReservation, Duplicate, Fail, Release, EndPersist, SendToDeadLetter,
         AckDeadLetter, Ack, stream, store
    <2> QED
      BY <2>1 DEF TypeInv, TypeOK
  <1> QED
    BY <1>1, <1>2, <1>3

(***************************************************************************)
(* Hands.                                                                   *)
(***************************************************************************)

\* Worker v does nothing.
Rests(v) ==
    /\ pc'[v] = pc[v] /\ todo'[v] = todo[v] /\ scan'[v] = scan[v]
    /\ current'[v] = current[v] /\ acks'[v] = acks[v] /\ dead'[v] = dead[v]

LEMMA RestKeepsHand ==
    ASSUME NEW v, Rests(v)
    PROVE  /\ Hand(v)' = Hand(v)
           /\ InOnePlace(v)' <=> InOnePlace(v)
           /\ EmptyLists(v)' <=> EmptyLists(v)
  BY DEF Rests, Hand, InOnePlace, EmptyLists

\* A worker writes its own variables only.
LEMMA OthersRest ==
    ASSUME TypeOK, NEW w \in Workers, Step(w) \/ NewProcess(w), NEW v \in Workers, v # w
    PROVE  Rests(v)
  <1>1. CASE Read(w) \/ PendingDeliveryCounts(w) \/ ReclaimAbandoned(w) \/ DiscardMalformed(w)
    BY <1>1 DEF TypeOK, Rests, Read, PendingDeliveryCounts, ReclaimAbandoned, DiscardMalformed
  <1>2. CASE ClaimReservation(w)
    BY <1>2 DEF TypeOK, Rests, ClaimReservation
  <1>3. CASE Commit(w) \/ Duplicate(w) \/ Fail(w) \/ CommitLost(w) \/ Release(w) \/ EndPersist(w)
    BY <1>3 DEF TypeOK, Rests, Commit, Duplicate, Fail, CommitLost, Release, EndPersist, Acknowledge
  <1>4. CASE SendToDeadLetter(w) \/ AckDeadLetter(w) \/ Ack(w)
    BY <1>4 DEF TypeOK, Rests, SendToDeadLetter, AckDeadLetter, Ack
  <1>5. CASE NewProcess(w)
    BY <1>5 DEF TypeOK, Rests, NewProcess
  <1> QED
    BY <1>1, <1>2, <1>3, <1>4, <1>5 DEF Step

\* A worker that takes only what nobody had keeps the hands apart.
LEMMA HandsStayApart ==
    ASSUME TypeInv, HandInv, NEW w \in Workers, Step(w) \/ NewProcess(w),
           InOnePlace(w)', EmptyLists(w)', idle' \subseteq idle,
           \A m \in Ids \cap Hand(w)' :
                \/ m \in Hand(w)
                \/ m <= cursor' /\ m \notin idle' /\ \A v \in Workers : m \notin Hand(v)
    PROVE  HandInv'
  <1>1. \A v \in Workers \ {w} : Rests(v)
    BY OthersRest DEF TypeInv
  <1>2. \A v \in Workers \ {w} :
            /\ Hand(v)' = Hand(v)
            /\ InOnePlace(v)' <=> InOnePlace(v)
            /\ EmptyLists(v)' <=> EmptyLists(v)
    BY <1>1, RestKeepsHand
  <1>3. \A v \in Workers : InOnePlace(v)' /\ EmptyLists(v)'
    BY <1>2 DEF HandInv
  <1>4. \A m \in Ids : m <= cursor => m <= cursor'
    <2>1. cursor \in Nat /\ cursor' \in Nat /\ cursor <= cursor'
      <3>1. cursor \in Nat /\ cursor <= cursor
        BY DEF TypeInv, TypeOK
      <3>2. NewProcess(w) => cursor' = cursor
        BY DEF NewProcess, stream
      <3> QED
        BY <3>1, <3>2, StepKeepsLog
    <2> QED
      BY <2>1
  <1>5. ASSUME NEW v \in Workers, NEW m \in Ids \cap Hand(v)'
        PROVE  /\ m <= cursor' /\ m \notin idle'
               /\ \A u \in Workers : m \in Hand(u)' => u = v
    BY <1>2, <1>4, <1>5 DEF HandInv
  <1> QED
    BY <1>3, <1>5 DEF HandInv

\* A worker settles only what it has, and forgets it; what it takes is pending.
PelFollows(w) ==
    /\ \A m \in pel : m \in pel' \/ (m \in Hand(w) /\ m \notin Hand(w)')
    /\ \A m \in Ids \cap Hand(w)' : m \in Hand(w) \/ m \in pel'

\* So what is in hand without being pending was so before.
LEMMA HandsStayPending ==
    ASSUME TypeInv, HandInv, NEW w \in Workers, Step(w) \/ NewProcess(w), PelFollows(w),
           NEW v \in Workers, NEW m \in Ids, m \in Hand(v)', m \notin pel'
    PROVE  m \in Hand(v) /\ m \notin pel
  <1>1. CASE v = w
    BY <1>1 DEF PelFollows
  <1>2. CASE v # w
    <2>1. Hand(v)' = Hand(v)
      BY <1>2, OthersRest, RestKeepsHand DEF TypeInv
    <2>2. m \notin Hand(w)
      BY <1>2, <2>1 DEF HandInv
    <2> QED
      BY <2>1, <2>2 DEF PelFollows
  <1> QED
    BY <1>1, <1>2

\* XREADGROUP delivers what nobody had.
LEMMA ReadKeepsHands ==
    ASSUME TypeInv, HandInv, NEW w \in Workers, Read(w)
    PROVE  HandInv' /\ PelFollows(w)
  <1> DEFINE batch == {[id |-> m, delivery_count |-> FIRST_DELIVERY, reclaimed |-> FALSE] :
                            m \in NewIds}
  <1>1. /\ pc[w] = "read" /\ todo'[w] = batch
        /\ UNCHANGED <<scan, current, acks, dead, idle>>
        /\ pel' = pel \cup NewIds
        /\ pc'[w] \in {"scan", "read", "process"}
        /\ pc'[w] = "read" => NewIds = {}
    BY DEF Read, TypeInv, TypeOK, AfterBatch
  <1>2. current[w] = NoMessage /\ dead[w] = {} /\ acks[w] = {}
    BY <1>1 DEF HandInv, EmptyLists
  <1>3. NewIds \subseteq Ids /\ \A m \in NewIds : m > cursor
    BY NewIdsInLog DEF TypeInv
  <1>4. /\ IdsOf(batch) = NewIds
        /\ \A a, b \in batch : a.id = b.id => a = b
    <2>1. ASSUME NEW m \in NewIds PROVE \E a \in batch : a.id = m
      <3> WITNESS [id |-> m, delivery_count |-> FIRST_DELIVERY, reclaimed |-> FALSE] \in batch
      <3> QED
        OBVIOUS
    <2>2. ASSUME NEW a \in batch
          PROVE  /\ a.id \in NewIds
                 /\ a = [id |-> a.id, delivery_count |-> FIRST_DELIVERY, reclaimed |-> FALSE]
      OBVIOUS
    <2> QED
      BY <2>1, <2>2 DEF IdsOf
  <1> HIDE DEF batch
  <1>5. InOnePlace(w)'
    BY <1>1, <1>2, <1>3, <1>4 DEF InOnePlace, NoMessage, HandInv, IdsOf
  <1>6. EmptyLists(w)'
    <2>1. NewIds = {} => batch = {}
      BY DEF batch
    <2> QED
      BY <1>1, <1>2, <2>1 DEF EmptyLists
  <1>7. Hand(w)' \subseteq NewIds \cup {0}
    BY <1>1, <1>2, <1>4 DEF Hand, NoMessage, IdsOf
  <1>8. \A m \in NewIds :
            m <= cursor' /\ m \notin idle /\ \A v \in Workers : m \notin Hand(v)
    <2>1. \A m \in NewIds : ~(m <= cursor) /\ m <= cursor'
      <3>1. cursor \in Nat
        BY DEF TypeInv, TypeOK
      <3>2. cursor' \in Nat /\ NewIds \subseteq 1..cursor'
        BY ReadMovesCursor DEF TypeInv
      <3> QED
        BY <1>3, <3>1, <3>2
    <2>2. \A m \in idle : m <= cursor
      BY DEF TypeInv, TypeOK
    <2> QED
      BY <1>3, <2>1, <2>2 DEF HandInv
  <1>9. Step(w)
    BY DEF Step
  <1>10. \A m \in Ids \cap Hand(w)' : m \in NewIds
    BY <1>7
  <1>11. HandInv'
    BY <1>1, <1>5, <1>6, <1>8, <1>9, <1>10, HandsStayApart
  <1> QED
    BY <1>1, <1>10, <1>11 DEF PelFollows

\* XPENDING only looks.
LEMMA PendingDeliveryCountsKeepsHands ==
    ASSUME TypeInv, HandInv, NEW w \in Workers, PendingDeliveryCounts(w)
    PROVE  HandInv' /\ PelFollows(w)
  <1> DEFINE answer == {[id |-> m, delivery_count |-> times[m], reclaimed |-> TRUE] :
                            m \in OldestIdle}
  <1>1. /\ pc[w] = "scan" /\ scan'[w] = answer
        /\ UNCHANGED <<todo, current, acks, dead, idle, pel>>
        /\ pc'[w] \in {"reclaim", "read", "process"}
        /\ pc'[w] = "read" => todo[w] = {}
    BY DEF PendingDeliveryCounts, TypeInv, TypeOK, AfterBatch, stream
  <1>2. \A a, b \in answer : a.id = b.id => a = b
    <2>1. ASSUME NEW a \in answer
          PROVE  a = [id |-> a.id, delivery_count |-> times[a.id], reclaimed |-> TRUE]
      OBVIOUS
    <2> QED
      BY <2>1
  <1> HIDE DEF answer
  <1>3. InOnePlace(w)'
    BY <1>1, <1>2 DEF InOnePlace, HandInv
  <1>4. EmptyLists(w)'
    BY <1>1 DEF EmptyLists, HandInv
  <1>5. Hand(w)' = Hand(w)
    BY <1>1 DEF Hand
  <1>6. Step(w)
    BY DEF Step
  <1> QED
    BY <1>1, <1>3, <1>4, <1>5, <1>6, HandsStayApart DEF PelFollows

\* XCLAIM takes what is still idle, so that nobody has it in hand.
LEMMA ReclaimAbandonedKeepsHands ==
    ASSUME TypeInv, HandInv, NEW w \in Workers, ReclaimAbandoned(w)
    PROVE  HandInv' /\ PelFollows(w)
  <1>1. /\ pc[w] = "reclaim" /\ todo'[w] = todo[w] \cup Claimable(w)
        /\ scan'[w] = {}
        /\ UNCHANGED <<current, acks, dead, pel>>
        /\ idle' = idle \ IdsOf(Claimable(w))
        /\ pc'[w] \in {"read", "process"}
        /\ pc'[w] = "read" => todo'[w] = {}
    BY DEF ReclaimAbandoned, TypeInv, TypeOK, AfterBatch
  <1>2. current[w] = NoMessage /\ dead[w] = {} /\ acks[w] = {}
    BY <1>1 DEF HandInv, EmptyLists
  <1>3. \A m \in Claimable(w) : m \in scan[w] /\ m.id \in pel /\ m.id \in idle /\ m.id \in Ids
    BY MessageFields DEF Claimable, TypeInv, TypeOK
  <1>4. \A m \in Claimable(w) : \A v \in Workers : m.id \notin Hand(v)
    BY <1>3 DEF HandInv
  <1>5. \A m \in todo[w] : m.id \in Hand(w)
    BY DEF Hand, IdsOf
  <1>6. InOnePlace(w)'
    <2>1. \A a, b \in todo'[w] : a.id = b.id => a = b
      BY <1>1, <1>3, <1>4, <1>5 DEF HandInv, InOnePlace
    <2>2. \A m \in todo'[w] : m.id # 0
      BY <1>1, <1>3, MessageFields DEF TypeInv, TypeOK
    <2> QED
      BY <1>1, <1>2, <2>1, <2>2 DEF InOnePlace, NoMessage, IdsOf
  <1>7. EmptyLists(w)'
    BY <1>1, <1>2 DEF EmptyLists
  <1>8. \A m \in Hand(w)' : m \in Hand(w) \/ m \in IdsOf(Claimable(w))
    BY <1>1 DEF Hand, IdsOf
  <1>9. \A m \in IdsOf(Claimable(w)) :
            /\ m \in pel' /\ m <= cursor' /\ m \notin idle'
            /\ \A v \in Workers : m \notin Hand(v)
    <2>1. cursor' = cursor /\ \A m \in pel : m <= cursor
      BY DEF ReclaimAbandoned, TypeInv, TypeOK
    <2> QED
      BY <1>1, <1>3, <1>4, <2>1 DEF IdsOf
  <1>10. Step(w) /\ idle' \subseteq idle /\ pel' = pel
    BY <1>1 DEF Step
  <1> QED
    BY <1>6, <1>7, <1>8, <1>9, <1>10, HandsStayApart DEF PelFollows

\* A message goes from the batch to the dead letters, to the acknowledgements, or in hand.
LEMMA TakeKeepsHands ==
    ASSUME TypeInv, HandInv, NEW w \in Workers, DiscardMalformed(w) \/ ClaimReservation(w)
    PROVE  HandInv' /\ PelFollows(w)
  <1>1. PICK m \in todo[w] :
            /\ pc[w] = "process" /\ todo'[w] = todo[w] \ {m} /\ scan'[w] = scan[w]
            /\ UNCHANGED <<idle, pel>>
            /\ \/ /\ dead'[w] = dead[w] \cup {m} /\ pc'[w] = "process"
                  /\ acks'[w] = acks[w] /\ current'[w] = current[w]
               \/ /\ current'[w] = m /\ pc'[w] = "apply"
                  /\ acks'[w] = acks[w] /\ dead'[w] = dead[w]
               \/ /\ acks'[w] = acks[w] \cup {m.id} /\ pc'[w] = "process"
                  /\ dead'[w] = dead[w] /\ current'[w] = current[w]
    <2>1. CASE DiscardMalformed(w)
      BY <2>1 DEF DiscardMalformed, TypeInv, TypeOK, stream
    <2>2. CASE ClaimReservation(w)
      BY <2>2 DEF ClaimReservation, TypeInv, TypeOK, stream
    <2> QED
      BY <2>1, <2>2
  <1>2. current[w].id = 0
    BY <1>1 DEF HandInv, EmptyLists, NoMessage
  <1>3. InOnePlace(w) /\ EmptyLists(w)
    BY DEF HandInv
  <1>4. m.id # 0
    BY MessageFields DEF TypeInv, TypeOK
  <1>5. InOnePlace(w)'
    BY <1>1, <1>2, <1>3, <1>4 DEF InOnePlace, IdsOf
  <1>6. EmptyLists(w)'
    BY <1>1, <1>3 DEF EmptyLists
  <1>7. Hand(w)' \subseteq Hand(w)
    BY <1>1 DEF Hand, IdsOf
  <1>8. Step(w)
    BY DEF Step
  <1> QED
    BY <1>1, <1>5, <1>6, <1>7, <1>8, HandsStayApart DEF PelFollows

\* The transaction of the message in hand ends.
LEMMA ApplyKeepsHands ==
    ASSUME TypeInv, HandInv, NEW w \in Workers,
           Commit(w) \/ Duplicate(w) \/ Fail(w) \/ CommitLost(w) \/ Release(w) \/ EndPersist(w)
    PROVE  HandInv' /\ PelFollows(w)
  <1>1. /\ todo'[w] = todo[w] /\ scan'[w] = scan[w] /\ UNCHANGED <<idle, pel>>
        /\ \/ /\ pc[w] = "apply" /\ pc'[w] = "process" /\ current'[w] = NoMessage
              /\ acks'[w] = acks[w] \cup {current[w].id} /\ dead'[w] = dead[w]
           \/ /\ pc[w] = "apply" /\ pc'[w] = "release"
              /\ current'[w] = current[w] /\ acks'[w] = acks[w] /\ dead'[w] = dead[w]
           \/ /\ pc[w] = "release" /\ pc'[w] = "process" /\ current'[w] = NoMessage
              /\ acks'[w] = acks[w]
              /\ dead'[w] = dead[w] \/ dead'[w] = dead[w] \cup {current[w]}
           \/ /\ pc[w] = "process" /\ pc'[w] = "dead" /\ todo[w] = {}
              /\ current'[w] = current[w] /\ acks'[w] = acks[w] /\ dead'[w] = dead[w]
    <2>1. CASE Commit(w) \/ Duplicate(w)
      BY <2>1 DEF Commit, Duplicate, Acknowledge, TypeInv, TypeOK, stream
    <2>2. CASE Fail(w) \/ CommitLost(w) \/ EndPersist(w)
      BY <2>2 DEF Fail, CommitLost, EndPersist, TypeInv, TypeOK, stream
    <2>3. CASE Release(w)
      BY <2>3 DEF Release, TypeInv, TypeOK, stream
    <2> QED
      BY <2>1, <2>2, <2>3
  <1>2. InOnePlace(w) /\ EmptyLists(w)
    BY DEF HandInv
  <1>3. \A m \in todo[w] \cup dead[w] : m.id # 0
    BY MessageFields DEF TypeInv, TypeOK
  <1>4. 0 \notin acks[w] /\ (pc[w] \in {"apply", "release"} => current[w].id # 0)
    BY MessageFields DEF TypeInv, TypeOK, InHand
  <1>5. InOnePlace(w)'
    BY <1>1, <1>2, <1>3, <1>4 DEF InOnePlace, IdsOf, NoMessage
  <1>6. EmptyLists(w)'
    BY <1>1, <1>2 DEF EmptyLists
  <1>7. \A m \in Ids : m \in Hand(w)' => m \in Hand(w)
    BY <1>1 DEF Hand, IdsOf, NoMessage
  <1>8. Step(w)
    BY DEF Step
  <1> QED
    BY <1>1, <1>5, <1>6, <1>7, <1>8, HandsStayApart DEF PelFollows

\* A message is acknowledged by the only worker that has it, which forgets it.
LEMMA SettleKeepsHands ==
    ASSUME TypeInv, HandInv, NEW w \in Workers,
           SendToDeadLetter(w) \/ AckDeadLetter(w) \/ Ack(w)
    PROVE  HandInv' /\ PelFollows(w)
  <1>1. InOnePlace(w) /\ EmptyLists(w)
    BY DEF HandInv
  <1>2. \A m \in todo[w] \cup dead[w] : m.id # 0
    BY MessageFields DEF TypeInv, TypeOK
  <1>3. 0 \notin acks[w] /\ Step(w)
    BY DEF TypeInv, TypeOK, Step
  <1>4. CASE SendToDeadLetter(w)
    <2>1. PICK m \in dead[w] :
            /\ pc[w] = "dead" /\ pc'[w] = "dead_ack" /\ current'[w] = m
            /\ dead'[w] = dead[w] \ {m}
            /\ todo'[w] = todo[w] /\ scan'[w] = scan[w] /\ acks'[w] = acks[w]
            /\ UNCHANGED <<idle, pel>>
      BY <1>4 DEF SendToDeadLetter, TypeInv, TypeOK
    <2>2. InOnePlace(w)'
      BY <2>1, <1>1, <1>2 DEF InOnePlace, IdsOf
    <2>3. EmptyLists(w)'
      BY <2>1, <1>1 DEF EmptyLists
    <2>4. Hand(w)' \subseteq Hand(w)
      BY <2>1 DEF Hand, IdsOf
    <2> QED
      BY <2>1, <2>2, <2>3, <2>4, <1>3, HandsStayApart DEF PelFollows
  <1>5. CASE AckDeadLetter(w)
    <2>1. /\ pc[w] = "dead_ack" /\ pc'[w] = "dead" /\ current'[w] = NoMessage
          /\ dead'[w] = dead[w]
          /\ todo'[w] = todo[w] /\ scan'[w] = scan[w] /\ acks'[w] = acks[w]
          /\ pel' = pel \ {current[w].id} /\ idle' \subseteq idle
      BY <1>5 DEF AckDeadLetter, XAck, TypeInv, TypeOK
    <2>2. InOnePlace(w)'
      BY <2>1, <1>1, <1>2, <1>3 DEF InOnePlace, IdsOf, NoMessage
    <2>3. EmptyLists(w)'
      BY <2>1, <1>1 DEF EmptyLists
    <2>4. \A m \in Ids : m \in Hand(w)' => m \in Hand(w)
      BY <2>1 DEF Hand, NoMessage
    <2>5. current[w].id \in Ids /\ current[w].id \in Hand(w)
      BY <2>1, MessageFields DEF TypeInv, InHand, Hand
    <2>6. current[w].id \notin Hand(w)'
      BY <2>1, <2>5, <1>1 DEF Hand, InOnePlace, NoMessage
    <2> QED
      BY <2>1, <2>2, <2>3, <2>4, <2>5, <2>6, <1>3, HandsStayApart DEF PelFollows
  <1>6. CASE Ack(w)
    <2>1. /\ pc[w] = "dead" /\ pc'[w] = "read" /\ dead[w] = {}
          /\ acks'[w] = {} /\ dead'[w] = dead[w] /\ current'[w] = current[w]
          /\ todo'[w] = todo[w] /\ scan'[w] = scan[w]
          /\ pel' = pel \ acks[w] /\ idle' \subseteq idle
      BY <1>6 DEF Ack, XAck, TypeInv, TypeOK
    <2>2. InOnePlace(w)'
      BY <2>1, <1>1, <1>2, <1>3 DEF InOnePlace
    <2>3. EmptyLists(w)'
      BY <2>1, <1>1 DEF EmptyLists
    <2>4. Hand(w)' = {0}
      BY <2>1, <1>1 DEF Hand, EmptyLists, NoMessage, IdsOf
    <2>5. acks[w] \subseteq Hand(w)
      BY DEF Hand
    <2>6. 0 \notin acks[w] /\ 0 \notin Ids
      BY <1>3
    <2> QED
      BY <2>1, <2>2, <2>3, <2>4, <2>5, <2>6, <1>3, HandsStayApart DEF PelFollows
  <1> QED
    BY <1>4, <1>5, <1>6

LEMMA NewProcessKeepsHands ==
    ASSUME TypeInv, HandInv, NEW w \in Workers, NewProcess(w)
    PROVE  HandInv' /\ PelFollows(w)
  <1>1. /\ pc'[w] = "read" /\ current'[w] = NoMessage
        /\ todo'[w] = {} /\ scan'[w] = {} /\ acks'[w] = {} /\ dead'[w] = {}
        /\ UNCHANGED <<idle, pel>>
    BY DEF NewProcess, TypeInv, TypeOK, stream
  <1>2. InOnePlace(w)' /\ EmptyLists(w)' /\ Hand(w)' = {0}
    BY <1>1 DEF InOnePlace, EmptyLists, Hand, IdsOf, NoMessage
  <1> QED
    BY <1>1, <1>2, HandsStayApart DEF PelFollows

LEMMA StepKeepsHands ==
    ASSUME TypeInv, HandInv, NEW w \in Workers, Step(w)
    PROVE  HandInv' /\ PelFollows(w)
  BY ReadKeepsHands, PendingDeliveryCountsKeepsHands, ReclaimAbandonedKeepsHands,
     TakeKeepsHands, ApplyKeepsHands, SettleKeepsHands DEF Step

\* Steps that leave the workers alone: only a message in nobody's hands goes idle.
LEMMA OutsideKeepsHands ==
    ASSUME TypeInv, HandInv, UNCHANGED local, cursor' \in Nat, cursor <= cursor',
           \A m \in idle' : m \in idle \/ \A w \in Workers : ~Holds(w, m)
    PROVE  HandInv' /\ \A w \in Workers : Hand(w)' = Hand(w)
  <1>1. UNCHANGED <<pc, todo, scan, current, acks, dead>>
    BY DEF local
  <1>2. \A w \in Workers :
            /\ Hand(w)' = Hand(w)
            /\ InOnePlace(w)' <=> InOnePlace(w)
            /\ EmptyLists(w)' <=> EmptyLists(w)
    BY <1>1, RestKeepsHand DEF Rests
  <1>3. \A w \in Workers : \A m \in Hand(w) : Holds(w, m)
    BY DEF Hand, Holds, IdsOf
  <1>4. \A m \in Ids : m <= cursor => m <= cursor'
    BY DEF TypeInv, TypeOK
  <1> QED
    BY <1>2, <1>3, <1>4 DEF HandInv

LEMMA NextHandInv ==
    ASSUME "slow" \notin Faults
    PROVE  TypeInv /\ HandInv /\ [Next]_vars =>
                HandInv' /\ (HandsPending => HandsPending')
  <1> SUFFICES ASSUME TypeInv, HandInv, [Next]_vars
               PROVE  HandInv' /\ (HandsPending => HandsPending')
    OBVIOUS
  <1>1. ASSUME NEW w \in Workers, Step(w) \/ Crash(w)
        PROVE  HandInv' /\ (HandsPending => HandsPending')
    <2>1. Step(w) \/ NewProcess(w)
      BY <1>1 DEF Crash
    <2>2. HandInv' /\ PelFollows(w)
      BY <2>1, StepKeepsHands, NewProcessKeepsHands
    <2>3. ASSUME HandsPending PROVE HandsPending'
      BY <2>1, <2>2, <2>3, HandsStayPending DEF HandsPending
    <2> QED
      BY <2>2, <2>3
  <1>2. cursor \in Nat /\ cursor <= cursor
    BY DEF TypeInv, TypeOK
  <1>3. ASSUME UNCHANGED <<local, cursor, pel>>,
               \A m \in idle' : m \in idle \/ \A w \in Workers : ~Holds(w, m)
        PROVE  HandInv' /\ (HandsPending => HandsPending')
    <2>1. HandInv' /\ \A w \in Workers : Hand(w)' = Hand(w)
      BY <1>2, <1>3, OutsideKeepsHands
    <2> QED
      BY <1>3, <2>1 DEF HandsPending
  <1>4. ASSUME NEW p \in Events \cup {Malformed}, Publish(p)
        PROVE  HandInv' /\ (HandsPending => HandsPending')
    BY <1>3, <1>4 DEF Publish
  <1>5. ASSUME NEW m \in Ids, GoIdle(m)
        PROVE  HandInv' /\ (HandsPending => HandsPending')
    BY <1>3, <1>5 DEF GoIdle
  <1>6. ASSUME NEW e \in Events, ExpireReservation(e)
        PROVE  HandInv' /\ (HandsPending => HandsPending')
    BY <1>3, <1>6 DEF ExpireReservation, stream
  <1>7. CASE UNCHANGED vars
    BY <1>3, <1>7 DEF vars, stream
  <1> QED
    BY <1>1, <1>4, <1>5, <1>6, <1>7 DEF Next

LEMMA HandInvAlways ==
    ASSUME "slow" \notin Faults
    PROVE  Spec => [](HandInv /\ HandsPending)
  <1>1. Init => HandInv /\ HandsPending
    BY DEF Init, HandInv, HandsPending, InOnePlace, EmptyLists, Hand, IdsOf, NoMessage
  <1>2. TypeInv /\ HandInv /\ HandsPending /\ [Next]_vars => HandInv' /\ HandsPending'
    BY NextHandInv
  <1> QED
    BY <1>1, <1>2, TypeInvAlways, PTL DEF Spec

\* A message is in the hands of one worker, as long as no live worker outlives the idle
\* limit (consumer.py: reclaim_abandoned), whatever crashes, expires or fails.
THEOREM DeliveryIsExclusive ==
    ASSUME "slow" \notin Faults
    PROVE  Spec => []ExclusiveDelivery
  <1>1. HandInv => ExclusiveDelivery
    BY DEF HandInv, ExclusiveDelivery, Hand
  <1> QED
    BY <1>1, HandInvAlways, PTL

(***************************************************************************)
(* Dead letters.                                                            *)
(***************************************************************************)

\* A step that writes no dead letter, acknowledges none and makes pending only what has
\* none keeps them single.
LEMMA DeadLettersStay ==
    ASSUME DeadLetterInv, dlq' = dlq, NEW w \in Workers,
           \A v \in Workers \ {w} : Rests(v),
           pc[w] # "dead_ack", pc'[w] # "dead_ack",
           \A m \in Ids : m \in pel' => m \in pel \/ dlq[m] = 0
    PROVE  DeadLetterInv'
  BY DEF DeadLetterInv, Rests

\* A dead letter is written for a message that has none: its writer has it in hand.
LEMMA SendKeepsDeadLetters ==
    ASSUME TypeInv, HandInv, HandsPending, DeadLetterInv, NEW w \in Workers,
           SendToDeadLetter(w)
    PROVE  DeadLetterInv'
  <1>1. PICK m \in dead[w] :
            /\ pc[w] = "dead" /\ pc'[w] = "dead_ack" /\ current'[w] = m
            /\ dlq' = [dlq EXCEPT ![m.id] = @ + 1] /\ pel' = pel
    BY DEF SendToDeadLetter, TypeInv, TypeOK
  <1>2. \A v \in Workers \ {w} : Rests(v)
    BY OthersRest DEF TypeInv, Step
  <1>3. m.id \in Ids /\ m.id \in Hand(w)
    BY MessageFields DEF TypeInv, TypeOK, Hand, IdsOf
  <1>4. \A v \in Workers \ {w} : current[v].id # m.id
    BY <1>3 DEF HandInv, Hand
  <1>5. dlq[m.id] = 0
    <2>1. dlq[m.id] \in Nat
      BY <1>3 DEF TypeInv, TypeOK
    <2>2. m.id \in pel
      BY <1>3 DEF HandsPending
    <2> QED
      BY <1>1, <1>3, <1>4, <2>1, <2>2 DEF DeadLetterInv
  <1>6. /\ dlq'[m.id] = 1
        /\ \A k \in Ids \ {m.id} : dlq'[k] = dlq[k]
    BY <1>1, <1>3, <1>5 DEF TypeInv, TypeOK
  <1>7. \A k \in Ids : dlq'[k] > 0 =>
            /\ dlq'[k] = 1
            /\ k \in pel' => \E v \in Workers : pc'[v] = "dead_ack" /\ current'[v].id = k
    <2>1. ASSUME NEW k \in Ids \ {m.id}, dlq'[k] > 0, k \in pel'
          PROVE  \E v \in Workers : pc'[v] = "dead_ack" /\ current'[v].id = k
      <3>1. PICK v \in Workers : pc[v] = "dead_ack" /\ current[v].id = k
        BY <2>1, <1>1, <1>6 DEF DeadLetterInv
      <3> QED
        BY <3>1, <1>1, <1>2 DEF Rests
    <2> QED
      BY <1>1, <1>6, <2>1 DEF DeadLetterInv
  <1>8. \A v \in Workers : pc'[v] = "dead_ack" => dlq'[current'[v].id] = 1
    <2> SUFFICES ASSUME NEW v \in Workers \ {w}, pc[v] = "dead_ack"
                 PROVE  dlq'[current[v].id] = 1
      BY <1>1, <1>2, <1>6 DEF Rests
    <2>1. current[v].id \in Ids
      BY MessageFields DEF TypeInv, InHand
    <2> QED
      BY <2>1, <1>4, <1>6 DEF DeadLetterInv
  <1> QED
    BY <1>7, <1>8 DEF DeadLetterInv

\* The message of a dead letter leaves the pending list.
LEMMA AckKeepsDeadLetters ==
    ASSUME TypeInv, DeadLetterInv, NEW w \in Workers, AckDeadLetter(w)
    PROVE  DeadLetterInv'
  <1>1. /\ pc[w] = "dead_ack" /\ pc'[w] = "dead"
        /\ dlq' = dlq /\ pel' = pel \ {current[w].id}
    BY DEF AckDeadLetter, XAck, TypeInv, TypeOK
  <1>2. \A v \in Workers \ {w} : Rests(v)
    BY OthersRest DEF TypeInv, Step
  <1> QED
    BY <1>1, <1>2 DEF DeadLetterInv, Rests

\* What becomes pending is new.
LEMMA OtherStepsKeepDeadLetters ==
    ASSUME TypeInv, DeliveryInv, DeadLetterInv, NEW w \in Workers, Step(w),
           ~SendToDeadLetter(w), ~AckDeadLetter(w)
    PROVE  DeadLetterInv'
  <1>1. \A v \in Workers \ {w} : Rests(v)
    BY OthersRest DEF TypeInv
  <1>2. CASE Read(w)
    <2>1. NewIds \subseteq Ids /\ \A m \in NewIds : m > cursor
      BY NewIdsInLog DEF TypeInv
    <2>2. /\ pc[w] = "read" /\ pc'[w] \in {"scan", "read", "process"}
          /\ pel' = pel \cup NewIds /\ dlq' = dlq
      BY <1>2 DEF Read, TypeInv, TypeOK, AfterBatch
    <2> QED
      BY <1>1, <2>1, <2>2, DeadLettersStay DEF DeliveryInv
  <1>3. CASE ~Read(w)
    <2>1. /\ pc[w] # "dead_ack" /\ pc'[w] # "dead_ack"
          /\ dlq' = dlq /\ pel' \subseteq pel
      <3>1. CASE PendingDeliveryCounts(w) \/ ReclaimAbandoned(w) \/ DiscardMalformed(w)
        BY <3>1 DEF PendingDeliveryCounts, ReclaimAbandoned, DiscardMalformed, AfterBatch,
           TypeInv, TypeOK, stream
      <3>2. CASE ClaimReservation(w)
        BY <3>2 DEF ClaimReservation, TypeInv, TypeOK, stream
      <3>3. CASE Commit(w) \/ Duplicate(w) \/ Fail(w) \/ CommitLost(w) \/ Release(w)
        BY <3>3 DEF Commit, Duplicate, Fail, CommitLost, Release, Acknowledge, TypeInv,
           TypeOK, stream
      <3>4. CASE EndPersist(w) \/ Ack(w)
        BY <3>4 DEF EndPersist, Ack, XAck, TypeInv, TypeOK, stream
      <3> QED
        BY <1>3, <3>1, <3>2, <3>3, <3>4 DEF Step
    <2> QED
      BY <1>1, <2>1, DeadLettersStay
  <1> QED
    BY <1>2, <1>3

LEMMA NextDeadLetterInv ==
    ASSUME "crash" \notin Faults
    PROVE  TypeInv /\ DeliveryInv /\ HandInv /\ HandsPending /\ DeadLetterInv /\ [Next]_vars =>
                DeadLetterInv'
  <1> SUFFICES ASSUME TypeInv, DeliveryInv, HandInv, HandsPending, DeadLetterInv, [Next]_vars
               PROVE  DeadLetterInv'
    OBVIOUS
  <1>1. ASSUME NEW w \in Workers, Step(w) \/ Crash(w) PROVE DeadLetterInv'
    BY <1>1, SendKeepsDeadLetters, AckKeepsDeadLetters, OtherStepsKeepDeadLetters DEF Crash
  <1>2. ASSUME UNCHANGED <<local, pel, dlq>> PROVE DeadLetterInv'
    BY <1>2 DEF local, DeadLetterInv
  <1>3. ASSUME NEW p \in Events \cup {Malformed}, Publish(p) PROVE DeadLetterInv'
    BY <1>2, <1>3 DEF Publish
  <1>4. ASSUME NEW m \in Ids, GoIdle(m) PROVE DeadLetterInv'
    BY <1>2, <1>4 DEF GoIdle
  <1>5. ASSUME NEW e \in Events, ExpireReservation(e) PROVE DeadLetterInv'
    BY <1>2, <1>5 DEF ExpireReservation, stream
  <1>6. CASE UNCHANGED vars
    BY <1>2, <1>6 DEF vars, stream
  <1> QED
    BY <1>1, <1>3, <1>4, <1>5, <1>6 DEF Next

LEMMA DeadLetterInvAlways ==
    ASSUME "slow" \notin Faults, "crash" \notin Faults
    PROVE  Spec => []DeadLetterInv
  <1>1. Init => DeadLetterInv
    BY DEF Init, DeadLetterInv
  <1>2. TypeInv /\ DeliveryInv /\ HandInv /\ HandsPending /\ DeadLetterInv /\ [Next]_vars =>
            DeadLetterInv'
    BY NextDeadLetterInv
  <1> QED
    BY <1>1, <1>2, TypeInvAlways, DeliveryInvAlways, HandInvAlways, PTL DEF Spec

\* The dead letter stream gets one copy of a message although XADD and XACK are separate
\* commands, as long as no worker dies between them or outlives the idle limit
\* (consumer.py: send_to_dead_letter).
THEOREM DeadLettersAreSingle ==
    ASSUME "slow" \notin Faults, "crash" \notin Faults
    PROVE  Spec => []DeadLetteredOnce
  <1>1. TypeInv /\ DeadLetterInv => DeadLetteredOnce
    <2>1. TypeInv => \A m \in Ids : dlq[m] \in Nat
      BY DEF TypeInv, TypeOK
    <2> QED
      BY <2>1 DEF DeadLetterInv, DeadLetteredOnce
  <1> QED
    BY <1>1, TypeInvAlways, DeadLetterInvAlways, PTL

(***************************************************************************)
(* Nothing is lost.                                                         *)
(***************************************************************************)

\* A fact stays committed.
LEMMA FactsStay ==
    ASSUME ledger \subseteq ledger', NEW f, FactCommitted(f)
    PROVE  FactCommitted(f)'
  BY DEF FactCommitted

\* Only the XACK of a batch, and that of a dead letter, settle an entry.
LEMMA KeptStays ==
    ASSUME TypeInv, NEW w \in Workers, Step(w), NEW k \in Ids, Kept(k),
           pc[w] = "dead_ack" /\ current[w].id = k => dlq[k] > 0
    PROVE  Kept(k)' \/ (Ack(w) /\ k \in acks[w])
  <1>1. CASE Read(w)
    <2>1. /\ cursor' = IF cursor + BatchSize <= Len(log) THEN cursor + BatchSize ELSE Len(log)
          /\ pel' = pel \cup NewIds /\ dlq' = dlq
      BY <1>1 DEF Read
    <2>2. k > cursor => k > cursor' \/ k \in NewIds
      BY <2>1 DEF NewIds, TypeInv, TypeOK
    <2> QED
      BY <2>1, <2>2 DEF Kept, CanStillBeDelivered
  <1>2. CASE SendToDeadLetter(w)
    <2>1. PICK m \in dead[w] : dlq' = [dlq EXCEPT ![m.id] = @ + 1]
      BY <1>2 DEF SendToDeadLetter
    <2>2. dlq \in [Ids -> Nat]
      BY DEF TypeInv, TypeOK
    <2>3. dlq'[k] >= dlq[k] /\ dlq'[k] \in Nat /\ dlq[k] \in Nat
      BY <2>1, <2>2
    <2>4. UNCHANGED <<cursor, pel>>
      BY <1>2 DEF SendToDeadLetter
    <2> QED
      BY <2>3, <2>4 DEF Kept, CanStillBeDelivered
  <1>3. CASE AckDeadLetter(w)
    <2>1. UNCHANGED <<cursor, dlq>> /\ pel' = pel \ {current[w].id} /\ pc[w] = "dead_ack"
      BY <1>3 DEF AckDeadLetter, XAck
    <2> QED
      BY <2>1 DEF Kept, CanStillBeDelivered
  <1>4. CASE Ack(w)
    BY <1>4 DEF Ack, XAck, Kept, CanStillBeDelivered
  <1>5. CASE /\ ~Read(w) /\ ~SendToDeadLetter(w) /\ ~AckDeadLetter(w) /\ ~Ack(w)
    <2>1. UNCHANGED <<cursor, pel, dlq>>
      BY <1>5 DEF Step, PendingDeliveryCounts, ReclaimAbandoned, DiscardMalformed,
         ClaimReservation, Commit, Duplicate, Fail, CommitLost, Release, EndPersist, stream
    <2> QED
      BY <2>1 DEF Kept, CanStillBeDelivered
  <1> QED
    BY <1>1, <1>2, <1>3, <1>4, <1>5

\* The event in hand is valid, and its entry stands for it if it is pending.
LEMMA InHandWasDelivered ==
    ASSUME TypeInv, NEW w \in Workers, pc[w] \in {"apply", "release"}
    PROVE  /\ current[w].id \in Ids /\ current[w].id \in 1..Len(log)
           /\ current[w].id <= cursor /\ current[w].id \in Hand(w)
           /\ EventOf(current[w]) \in Events /\ EventOf(current[w]) # Malformed
  <1>1. current[w].id \in Ids /\ current[w].id <= cursor
    BY MessageFields DEF TypeInv, InHand
  <1>2. current[w].id \in 1..Len(log)
    BY <1>1 DEF TypeInv, TypeOK
  <1> QED
    BY <1>1, <1>2, InHandIsValid DEF TypeInv, InHand, EventOf, Hand

LEMMA InHandStands ==
    ASSUME TypeInv, HandInv, NEW w \in Workers, pc[w] \in {"apply", "release"},
           current[w].id \in pel
    PROVE  Standing(current[w].id)
  <1>1. current[w].id \in Ids /\ current[w].id \in Hand(w)
    BY InHandWasDelivered
  <1>2. ASSUME NEW v \in Workers PROVE current[w].id \notin acks[v]
    <2>1. current[w].id \in acks[v] => v = w
      BY <1>1 DEF HandInv, Hand
    <2> QED
      BY <2>1 DEF HandInv, InOnePlace
  <1> QED
    BY <1>2 DEF Standing, Kept, CanStillBeDelivered

\* A refused reservation exists; a new one was granted.
LEMMA AnswersOfClaim ==
    ASSUME NEW e, NEW answer \in ClaimAnswers(e)
    PROVE  /\ answer.keys = keys \/ answer.keys = keys \cup {e}
           /\ answer.granted \/ e \in keys
  <1>1. \E g \in BOOLEAN, K \in {keys, keys \cup {e}} :
            answer = [granted |-> g, keys |-> K] /\ (e \notin keys => g = TRUE)
    <2>1. \/ answer = [granted |-> e \notin keys, keys |-> keys \cup {e}]
          \/ answer = [granted |-> TRUE, keys |-> keys]
          \/ answer = [granted |-> TRUE, keys |-> keys \cup {e}]
      BY Zenon DEF ClaimAnswers
    <2>2. (e \notin keys) \in BOOLEAN
      OBVIOUS
    <2> QED
      BY <2>1, <2>2, Zenon
  <1> QED
    BY <1>1

\* What becomes acknowledgeable: a committed event, or a second entry of one that another
\* worker has in hand.
LEMMA NewAcks ==
    ASSUME TypeInv, HandInv, KeysHeld, NEW w \in Workers, Step(w),
           NEW k \in acks'[w], k \notin acks[w]
    PROVE  /\ k \in Ids /\ k <= cursor /\ log[k] \in Events /\ log[k] # Malformed
           /\ \/ Represented(k)'
              \/ \E v \in Workers :
                    /\ pc[v] \in {"apply", "release"} /\ EventOf(current[v]) = log[k]
                    /\ current[v].id \notin pel
  <1>0. log' = log /\ ledger \subseteq ledger'
    BY StepKeepsLog
  <1>1. CASE Commit(w) \/ Duplicate(w)
    <2>1. /\ pc[w] = "apply" /\ acks'[w] = acks[w] \cup {current[w].id}
          /\ \/ EventOf(current[w]) \in ledger'
             \/ FactCommitted(FactOf[EventOf(current[w])])
      BY <1>1 DEF Commit, Duplicate, CommitEffect, ClaimInLedger, Acknowledge, TypeInv,
         TypeOK, store
    <2>2. k = current[w].id /\ log[k] = EventOf(current[w])
      BY <2>1 DEF EventOf
    <2>3. Represented(k)'
      BY <1>0, <2>1, <2>2 DEF Represented, FactCommitted
    <2> QED
      BY <2>1, <2>2, <2>3, InHandWasDelivered
  <1>2. CASE ClaimReservation(w)
    <2>0. PICK m \in todo[w] :
            /\ pc[w] = "process" /\ EventOf(m) # Malformed
            /\ \E answer \in ClaimAnswers(EventOf(m)) :
                /\ answer.granted => acks'[w] = acks[w]
                /\ ~answer.granted => acks'[w] = acks[w] \cup {m.id}
      BY <1>2 DEF ClaimReservation, TypeInv, TypeOK
    <2>1. PICK answer \in ClaimAnswers(EventOf(m)) :
            /\ answer.granted => acks'[w] = acks[w]
            /\ ~answer.granted => acks'[w] = acks[w] \cup {m.id}
      BY <2>0
    <2>2. k = m.id /\ acks'[w] = acks[w] \cup {m.id} /\ EventOf(m) \in keys
      BY <2>1, AnswersOfClaim
    <2>3. log[k] = EventOf(m)
      BY <2>2 DEF EventOf
    <2>4. k \in Ids /\ k <= cursor /\ k \in Hand(w)
      BY <2>2, MessageFields DEF TypeInv, TypeOK, HeldWasDelivered, Hand, IdsOf
    <2>5. log[k] \in Events
      BY <2>2, <2>3 DEF TypeInv, TypeOK
    <2>6. UNCHANGED <<pel, cursor, dlq>>
      BY <1>2 DEF ClaimReservation, stream
    <2>7. \/ Represented(k)'
          \/ \E v \in Workers :
                /\ pc[v] \in {"apply", "release"} /\ EventOf(current[v]) = log[k]
                /\ current[v].id \notin pel
      <3>1. CASE FactCommitted(FactOf[log[k]])
        BY <3>1, <1>0 DEF Represented, FactCommitted
      <3>2. CASE ~FactCommitted(FactOf[log[k]])
        <4>1. PICK v \in Workers :
                pc[v] \in {"apply", "release"} /\ EventOf(current[v]) = log[k]
          BY <2>2, <2>3, <3>2 DEF KeysHeld
        <4>2. v # w
          BY <2>0, <4>1
        <4> SUFFICES ASSUME current[v].id \in pel PROVE Represented(k)'
          BY <4>1
        <4>3. PICK j : j = current[v].id
          OBVIOUS
        <4>4. j \in 1..Len(log) /\ j \in Ids /\ j \in Hand(v) /\ log[j] = log[k] /\ Standing(j)
          BY <4>1, <4>3, InHandWasDelivered, InHandStands DEF EventOf
        <4>5. j # k
          BY <2>4, <4>2, <4>4 DEF HandInv
        <4>6. \A u \in Workers : j \notin acks'[u]
          <5> SUFFICES ASSUME NEW u \in Workers PROVE j \notin acks'[u]
            OBVIOUS
          <5>1. u # w => acks'[u] = acks[u]
            BY OthersRest DEF TypeInv, Rests
          <5> QED
            BY <5>1, <2>2, <4>4, <4>5 DEF Standing
        <4>7. Standing(j)'
          BY <2>6, <4>4, <4>6 DEF Standing, Kept, CanStillBeDelivered
        <4> QED
          BY <1>0, <4>4, <4>7 DEF Represented
      <3> QED
        BY <3>1, <3>2
    <2> QED
      BY <2>0, <2>3, <2>4, <2>5, <2>7
  <1>3. CASE ~Commit(w) /\ ~Duplicate(w) /\ ~ClaimReservation(w)
    <2>1. acks'[w] \subseteq acks[w]
      BY <1>3 DEF Step, Read, PendingDeliveryCounts, ReclaimAbandoned, DiscardMalformed, Fail,
         CommitLost, Release, EndPersist, SendToDeadLetter, AckDeadLetter, Ack, TypeInv, TypeOK
    <2> QED
      BY <2>1
  <1> QED
    BY <1>1, <1>2, <1>3

\* A reservation is kept by whoever commits its event, until the ledger has it or it is
\* released.
LEMMA StepKeepsKeysHeld ==
    ASSUME "release_error" \notin Faults,
           TypeInv, KeysHeld, NEW w \in Workers, Step(w)
    PROVE  KeysHeld'
  <1>1. \A v \in Workers \ {w} : Rests(v)
    BY OthersRest DEF TypeInv
  <1>2. log' = log /\ ledger \subseteq ledger'
    BY StepKeepsLog
  <1> DEFINE Holder(v, e) == pc[v] \in {"apply", "release"} /\ EventOf(current[v]) = e
  <1>3. ASSUME NEW v \in Workers \ {w}, NEW e, Holder(v, e) PROVE Holder(v, e)'
    BY <1>1, <1>2, <1>3 DEF Rests, EventOf
  <1>4. SUFFICES ASSUME NEW e \in keys',
                        e \notin keys \/ (pc[w] \in {"apply", "release"} /\ EventOf(current[w]) = e)
                 PROVE  FactCommitted(FactOf[e])' \/ \E v \in Workers : Holder(v, e)'
    BY <1>2, <1>3, FactsStay DEF KeysHeld
  <1>5. CASE ClaimReservation(w)
    <2>0. PICK m \in todo[w] :
            /\ pc[w] = "process"
            /\ \E answer \in ClaimAnswers(EventOf(m)) :
                /\ keys' = answer.keys
                /\ answer.granted => current'[w] = m /\ pc'[w] = "apply"
      BY <1>5 DEF ClaimReservation, TypeInv, TypeOK
    <2>1. PICK answer \in ClaimAnswers(EventOf(m)) :
            /\ keys' = answer.keys
            /\ answer.granted => current'[w] = m /\ pc'[w] = "apply"
      BY <2>0
    <2>2. e \notin keys
      BY <1>4, <2>0
    <2>3. e = EventOf(m) /\ current'[w] = m /\ pc'[w] = "apply"
      BY <1>4, <2>1, <2>2, AnswersOfClaim
    <2>4. Holder(w, e)'
      BY <2>3, <1>2 DEF EventOf
    <2> QED
      BY <2>4
  <1>6. CASE Commit(w) \/ Duplicate(w)
    <2>1. keys' = keys
      BY <1>6 DEF Commit, Duplicate, store
    <2>2. EventOf(current[w]) \in ledger' \/ FactCommitted(FactOf[EventOf(current[w])])
      BY <1>6 DEF Commit, Duplicate, CommitEffect, ClaimInLedger, store
    <2>3. e = EventOf(current[w])
      BY <1>4, <2>1
    <2> QED
      BY <1>2, <2>2, <2>3, FactsStay DEF FactCommitted
  <1>7. CASE Fail(w) \/ CommitLost(w)
    <2>1. keys' = keys /\ pc'[w] = "release" /\ current'[w] = current[w]
      BY <1>7 DEF Fail, CommitLost, store, TypeInv, TypeOK
    <2>2. Holder(w, e)'
      BY <1>2, <1>4, <2>1 DEF EventOf
    <2> QED
      BY <2>2
  <1>8. CASE Release(w)
    <2>1. keys' = keys \ {EventOf(current[w])}
      BY <1>8 DEF Release, KeysAfterRelease
    <2> QED
      BY <1>4, <2>1
  <1>9. CASE Read(w) \/ PendingDeliveryCounts(w) \/ ReclaimAbandoned(w) \/ DiscardMalformed(w)
             \/ EndPersist(w) \/ SendToDeadLetter(w) \/ AckDeadLetter(w) \/ Ack(w)
    <2>1. keys' = keys /\ pc[w] \notin {"apply", "release"}
      BY <1>9 DEF Read, PendingDeliveryCounts, ReclaimAbandoned, DiscardMalformed, EndPersist,
         SendToDeadLetter, AckDeadLetter, Ack, store
    <2> QED
      BY <1>4, <2>1
  <1> QED
    BY <1>5, <1>6, <1>7, <1>8, <1>9 DEF Step

LEMMA StepKeepsLossInv ==
    ASSUME "release_error" \notin Faults,
           TypeInv, HandInv, NEW L, HandsPendingBut(L), DeadLetterWrittenBut(L), LossInvBut(L),
           NEW w \in Workers, Step(w)
    PROVE  LossInvBut(L)'
  <1>1. log' = log /\ cursor <= cursor' /\ cursor' \in Nat /\ ledger \subseteq ledger'
    BY StepKeepsLog
  <1>2. 1..Len(log) \subseteq Ids /\ cursor \in Nat /\ \A v \in Workers : acks[v] \subseteq Ids
    BY DEF TypeInv, TypeOK
  <1>3. \A v \in Workers \ {w} : acks'[v] = acks[v]
    BY OthersRest DEF TypeInv, Rests
  <1>0. KeysHeld
    BY DEF LossInvBut
  <1>4. \A v \in Workers : \A m \in acks'[v] : m <= cursor' /\ log'[m] # Malformed
    <2> SUFFICES ASSUME NEW v \in Workers, NEW m \in acks'[v]
                 PROVE  m \in Ids /\ m <= cursor /\ log[m] # Malformed
      BY <1>1, <1>2
    <2>1. CASE m \in acks[v]
      BY <2>1, <1>2 DEF LossInvBut
    <2>2. CASE m \notin acks[v]
      BY <2>2, <1>0, <1>3, NewAcks
    <2> QED
      BY <2>1, <2>2
  <1>5. ASSUME NEW m \in 1..Len(log), m \notin L, Kept(m), m \notin acks[w] PROVE Kept(m)'
    <2>1. pc[w] = "dead_ack" /\ current[w].id = m => dlq[m] > 0
      BY <1>5 DEF DeadLetterWrittenBut
    <2> QED
      BY <1>2, <1>5, <2>1, KeptStays
  <1>6. \A m \in 1..Len(log) : log[m] = Malformed => Kept(m)' \/ m \in L
    <2> SUFFICES ASSUME NEW m \in 1..Len(log), log[m] = Malformed, m \notin L PROVE Kept(m)'
      OBVIOUS
    <2>1. Kept(m) /\ m \notin acks[w]
      BY DEF LossInvBut
    <2> QED
      BY <2>1, <1>5
  <1>7. ASSUME NEW m \in 1..Len(log), log[m] # Malformed, ~\E k \in L : log[k] = log[m]
        PROVE  Represented(m)'
    <2>1. CASE FactCommitted(FactOf[log[m]])
      BY <2>1, <1>1 DEF Represented, FactCommitted
    <2>2. ASSUME NEW k \in 1..Len(log), log[k] = log[m], Standing(k)
          PROVE  Represented(m)'
      <3>1. Kept(k) /\ k \notin L /\ \A v \in Workers : k \notin acks[v]
        BY <1>7, <2>2 DEF Standing
      <3>2. Kept(k)'
        BY <3>1, <1>5
      <3>3. CASE k \in acks'[w]
        <4>1. ASSUME NEW v \in Workers,
                     pc[v] \in {"apply", "release"}, EventOf(current[v]) = log[k]
              PROVE  current[v].id \in pel
          <5>1. current[v].id \in Ids \cap Hand(v)
            BY <4>1, InHandWasDelivered
          <5>2. current[v].id \notin L
            BY <4>1, <2>2, <1>7 DEF EventOf
          <5> QED
            BY <5>1, <5>2 DEF HandsPendingBut
        <4>2. Represented(k)'
          BY <1>0, <3>1, <3>3, <4>1, NewAcks
        <4> QED
          BY <4>2, <1>1, <2>2 DEF Represented
      <3>4. CASE k \notin acks'[w]
        <4>1. Standing(k)'
          BY <3>1, <3>2, <3>4, <1>3 DEF Standing
        <4> QED
          BY <4>1, <1>1, <2>2 DEF Represented
      <3> QED
        BY <3>3, <3>4
    <2>3. Represented(m)
      BY <1>7 DEF LossInvBut
    <2> QED
      BY <2>1, <2>2, <2>3 DEF Represented
  <1>8. KeysHeld'
    BY <1>0, StepKeepsKeysHeld
  <1> QED
    BY <1>1, <1>4, <1>6, <1>7, <1>8 DEF LossInvBut

\* A new entry can be delivered.
LEMMA PublishKeepsLossInv ==
    ASSUME TypeInv, NEW L \in SUBSET (1..Len(log)), LossInvBut(L),
           NEW p \in Events \cup {Malformed}, Publish(p)
    PROVE  LossInvBut(L)'
  <1>1. /\ log' \in Seq(Events \cup {Malformed})
        /\ Len(log') = Len(log) + 1
        /\ Len(log') <= MaxMessages
        /\ \A m \in 1..Len(log) : log'[m] = log[m]
    BY PublishKeepsEntries DEF TypeInv
  <1>2. UNCHANGED <<cursor, pel, dlq, keys, ledger, pc, current, acks>>
    BY DEF Publish, store, local
  <1>3. /\ cursor \in Nat /\ cursor <= Len(log) /\ Len(log) \in Nat
        /\ \A v \in Workers : acks[v] \subseteq Ids
    BY DEF TypeInv, TypeOK
  <1>4. \A k : (Kept(k)' <=> Kept(k)) /\ (Standing(k)' <=> Standing(k))
    BY <1>2 DEF Standing, Kept, CanStillBeDelivered
  <1>5. \A f : FactCommitted(f)' <=> FactCommitted(f)
    BY <1>2 DEF FactCommitted
  <1>6. \A v \in Workers : \A m \in acks[v] : m \in 1..Len(log)
    BY <1>3 DEF LossInvBut
  <1>7. Standing(Len(log) + 1)
    BY <1>3, <1>6 DEF Standing, Kept, CanStillBeDelivered
  <1>8. KeysHeld'
    <2>1. \A v \in Workers : pc[v] \in {"apply", "release"} =>
                log'[current[v].id] = log[current[v].id]
      BY <1>1, InHandWasDelivered
    <2> QED
      BY <1>2, <1>5, <2>1 DEF LossInvBut, KeysHeld, EventOf
  <1>9. \A m \in 1..Len(log') : m \in 1..Len(log) \/ m = Len(log) + 1
    BY <1>1, <1>3
  <1>10. 1..Len(log) \subseteq 1..Len(log') /\ Len(log) + 1 \in 1..Len(log')
    BY <1>1, <1>3
  <1>11. \A m \in 1..Len(log') : log'[m] = Malformed => Kept(m)' \/ m \in L
    BY <1>1, <1>4, <1>7, <1>9 DEF LossInvBut, Standing
  <1>12. \A v \in Workers : \A m \in acks'[v] : m <= cursor' /\ log'[m] # Malformed
    BY <1>1, <1>2, <1>6 DEF LossInvBut
  <1>13. ASSUME NEW m \in 1..Len(log'), log'[m] # Malformed,
                ~\E k \in L : log'[k] = log'[m]
         PROVE  Represented(m)'
    <2>1. CASE m = Len(log) + 1
      BY <2>1, <1>4, <1>7, <1>10 DEF Represented
    <2>2. CASE m \in 1..Len(log)
      <3>1. \A k \in L : log[k] # log[m]
        BY <2>2, <1>1, <1>13
      <3>2. Represented(m)
        BY <2>2, <3>1, <1>1, <1>13 DEF LossInvBut
      <3> QED
        BY <3>2, <2>2, <1>1, <1>4, <1>5, <1>10 DEF Represented
    <2> QED
      BY <2>1, <2>2, <1>9
  <1> QED
    BY <1>8, <1>11, <1>12, <1>13 DEF LossInvBut

\* The clock and the expiry of a reservation settle nothing.
LEMMA OutsideKeepsLossInv ==
    ASSUME NEW L, LossInvBut(L),
           UNCHANGED <<local, log, cursor, pel, dlq, ledger>>, keys' \subseteq keys
    PROVE  LossInvBut(L)'
  <1>1. UNCHANGED <<pc, current, acks>>
    BY DEF local
  <1>2. \A k : (Kept(k)' <=> Kept(k)) /\ (Standing(k)' <=> Standing(k))
    BY <1>1 DEF Standing, Kept, CanStillBeDelivered
  <1>3. \A f : FactCommitted(f)' <=> FactCommitted(f)
    BY DEF FactCommitted
  <1>4. KeysHeld'
    BY <1>1, <1>3 DEF LossInvBut, KeysHeld, EventOf
  <1> QED
    BY <1>1, <1>2, <1>3, <1>4 DEF LossInvBut, Represented

LEMMA NextLossInv ==
    ASSUME "crash" \notin Faults, "release_error" \notin Faults
    PROVE  TypeInv /\ HandInv /\ HandsPending /\ DeadLetterInv /\ LossInv /\ [Next]_vars => LossInv'
  <1> SUFFICES ASSUME TypeInv, HandInv, HandsPending, DeadLetterInv, LossInv, [Next]_vars
               PROVE  LossInv'
    OBVIOUS
  <1>0. PICK L : L = {}
    OBVIOUS
  <1>1. LossInvBut(L) /\ HandsPendingBut(L) /\ DeadLetterWrittenBut(L) /\ L \in SUBSET (1..Len(log))
    BY <1>0 DEF LossInv, HandsPending, HandsPendingBut, DeadLetterInv, DeadLetterWrittenBut
  <1>2. SUFFICES LossInvBut(L)'
    BY <1>0 DEF LossInv
  <1>3. ASSUME NEW w \in Workers, Step(w) \/ Crash(w) PROVE LossInvBut(L)'
    BY <1>1, <1>3, StepKeepsLossInv DEF Crash
  <1>4. ASSUME NEW p \in Events \cup {Malformed}, Publish(p) PROVE LossInvBut(L)'
    BY <1>1, <1>4, PublishKeepsLossInv
  <1>5. ASSUME NEW m \in Ids, GoIdle(m) PROVE LossInvBut(L)'
    BY <1>1, <1>5, OutsideKeepsLossInv DEF GoIdle, store
  <1>6. ASSUME NEW e \in Events, ExpireReservation(e) PROVE LossInvBut(L)'
    BY <1>1, <1>6, OutsideKeepsLossInv DEF ExpireReservation, stream
  <1>7. CASE UNCHANGED vars
    BY <1>1, <1>7, OutsideKeepsLossInv DEF vars, stream, store
  <1> QED
    BY <1>3, <1>4, <1>5, <1>6, <1>7 DEF Next

LEMMA LossInvAlways ==
    ASSUME "slow" \notin Faults, "crash" \notin Faults, "release_error" \notin Faults
    PROVE  Spec => []LossInv
  <1>1. Init => LossInv
    BY DEF Init, LossInv, LossInvBut, KeysHeld
  <1>2. TypeInv /\ HandInv /\ HandsPending /\ DeadLetterInv /\ LossInv /\ [Next]_vars => LossInv'
    BY NextLossInv
  <1> QED
    BY <1>1, <1>2, TypeInvAlways, HandInvAlways, DeadLetterInvAlways, PTL DEF Spec

\* An event that was acknowledged was committed, is in the dead letter stream, or has
\* another entry that is still to be handled, as long as no worker dies or outlives the
\* idle limit and reservations can be released (main.py: "ACK somente depois do commit").
THEOREM NothingIsLost ==
    ASSUME "slow" \notin Faults, "crash" \notin Faults, "release_error" \notin Faults
    PROVE  Spec => []NoSilentLoss
  <1>1. LossInv => NoSilentLoss
    BY DEF LossInv, LossInvBut, Represented, NoSilentLoss, Accounted, Standing, Kept
  <1> QED
    BY <1>1, LossInvAlways, PTL

(***************************************************************************)
(* Refinement.                                                              *)
(***************************************************************************)

IngestInv ==
    /\ TypeInv /\ DeliveryInv /\ AppliedAtMostOnce
    /\ HandInv /\ HandsPending /\ DeadLetterInv /\ LossInv

\* The fate of an entry.
LEMMA FateOf ==
    ASSUME TypeInv, NEW m \in Ids
    PROVE  /\ Fate[m] = "open" <=> dlq[m] = 0 /\ CanStillBeDelivered(m)
           /\ Fate[m] = "done" <=> dlq[m] = 0 /\ ~CanStillBeDelivered(m)
  <1>1. dlq[m] \in Nat
    BY DEF TypeInv, TypeOK
  <1> QED
    BY <1>1 DEF Fate

LEMMA FateStays ==
    ASSUME \A m \in Ids :
                /\ dlq'[m] > 0 <=> dlq[m] > 0
                /\ ~(dlq[m] > 0) => (CanStillBeDelivered(m)' <=> CanStillBeDelivered(m))
    PROVE  Fate' = Fate
  BY DEF Fate

\* A message in hand that has no dead letter is open.
LEMMA HeldIsOpen ==
    ASSUME IngestInv, NEW w \in Workers, NEW m \in Ids \cap Hand(w),
           pc[w] = "dead_ack" => current[w].id # m,
           m <= cursor
    PROVE  m \in Sink!Open /\ dlq[m] = 0
  <1>1. m \in pel /\ \A v \in Workers : m \in Hand(v) => v = w
    BY DEF IngestInv, HandInv, HandsPending
  <1>2. dlq[m] = 0
    <2>1. dlq[m] \in Nat
      BY DEF IngestInv, TypeInv, TypeOK
    <2>2. ~(dlq[m] > 0)
      BY <1>1 DEF IngestInv, DeadLetterInv, Hand
    <2> QED
      BY <2>1, <2>2
  <1>3. m \in 1..Len(log)
    BY DEF IngestInv, TypeInv, TypeOK
  <1> QED
    BY <1>1, <1>2, <1>3, FateOf DEF Sink!Open, CanStillBeDelivered, IngestInv

LEMMA PublishOffers ==
    ASSUME NEW p \in Events \cup {Malformed}, Publish(p)
    PROVE  Sink!Offer(p)
  <1>1. Fate' = Fate
    BY FateStays DEF Publish, CanStillBeDelivered
  <1> QED
    BY <1>1 DEF Publish, store, Sink!Offer

\* The entries read are new, so that they are open and have no deliveries.
LEMMA ReadDelivers ==
    ASSUME IngestInv, NEW w \in Workers, Read(w)
    PROVE  \E S \in SUBSET Sink!Open : Sink!Deliver(S)
  <1>1. /\ NewIds \subseteq 1..Len(log) /\ NewIds \subseteq Ids
        /\ \A m \in NewIds : m > cursor
    <2>1. /\ NewIds \subseteq (cursor + 1)..Len(log) /\ NewIds \subseteq Ids
          /\ \A m \in NewIds : m > cursor
      BY NewIdsInLog DEF IngestInv, TypeInv
    <2>2. cursor \in Nat
      BY DEF IngestInv, TypeInv, TypeOK
    <2> QED
      BY <2>1, <2>2
  <1>2. \A m \in NewIds : dlq[m] = 0 /\ times[m] = 0
    BY <1>1 DEF IngestInv, DeliveryInv
  <1>3. NewIds \in SUBSET Sink!Open
    BY <1>1, <1>2, FateOf DEF IngestInv, CanStillBeDelivered, Sink!Open
  <1>4. times' = [m \in Sink!Ids |-> times[m] + (IF m \in NewIds THEN 1 ELSE 0)]
    <2>1. \A m \in Ids : times[m] \in Nat
      BY DEF IngestInv, TypeInv, TypeOK
    <2> QED
      BY <1>1, <1>2, <2>1 DEF Read, FIRST_DELIVERY, Sink!Ids
  <1>5. \A m \in Ids : CanStillBeDelivered(m)' <=> CanStillBeDelivered(m)
    <2>1. /\ cursor' = IF cursor + BatchSize <= Len(log) THEN cursor + BatchSize ELSE Len(log)
          /\ pel' = pel \cup NewIds
      BY DEF Read
    <2>2. \A m \in Ids : m > cursor <=> m > cursor' \/ m \in NewIds
      BY <2>1 DEF NewIds, IngestInv, TypeInv, TypeOK
    <2> QED
      BY <2>1, <2>2 DEF CanStillBeDelivered
  <1>6. Fate' = Fate
    BY <1>5, FateStays DEF Read
  <1> QED
    BY <1>3, <1>4, <1>6 DEF Read, store, Sink!Deliver

\* The entries reclaimed are pending and in nobody's hands.
LEMMA ReclaimDelivers ==
    ASSUME IngestInv, NEW w \in Workers, ReclaimAbandoned(w)
    PROVE  \E S \in SUBSET Sink!Open : Sink!Deliver(S)
  <1> DEFINE S == IdsOf(Claimable(w))
  <1>1. \A m \in S : m \in pel /\ m \in idle /\ m \in Ids /\ m \in 1..Len(log)
    <2> SUFFICES ASSUME NEW c \in Claimable(w)
                 PROVE  c.id \in pel /\ c.id \in idle /\ c.id \in Ids /\ c.id \in 1..Len(log)
      BY DEF IdsOf
    <2>1. c.id \in pel /\ c.id \in idle
      BY DEF Claimable
    <2>2. pel \subseteq 1..Len(log) /\ pel \subseteq Ids
      BY DEF IngestInv, TypeInv, TypeOK
    <2> QED
      BY <2>1, <2>2
  <1>2. \A m \in S : dlq[m] = 0
    <2> SUFFICES ASSUME NEW m \in S PROVE dlq[m] = 0
      OBVIOUS
    <2>1. \A v \in Workers : current[v].id # m
      BY <1>1 DEF IngestInv, HandInv, Hand
    <2>2. dlq[m] \in Nat
      BY <1>1 DEF IngestInv, TypeInv, TypeOK
    <2> QED
      BY <1>1, <2>1, <2>2 DEF IngestInv, DeadLetterInv
  <1>3. S \in SUBSET Sink!Open
    BY <1>1, <1>2, FateOf DEF IngestInv, CanStillBeDelivered, Sink!Open
  <1>4. times' = [m \in Sink!Ids |-> times[m] + (IF m \in S THEN 1 ELSE 0)]
    <2>1. \A m \in Ids : times[m] \in Nat
      BY DEF IngestInv, TypeInv, TypeOK
    <2> QED
      BY <2>1 DEF ReclaimAbandoned, Sink!Ids
  <1>5. Fate' = Fate
    BY FateStays DEF ReclaimAbandoned, CanStillBeDelivered
  <1> QED
    BY <1>3, <1>4, <1>5 DEF ReclaimAbandoned, store, Sink!Deliver

\* An event is committed for the first time, while its entry is in hand.
LEMMA CommitTakesEffect ==
    ASSUME IngestInv, NEW w \in Workers, Commit(w) \/ CommitLost(w)
    PROVE  \E e \in Events : Sink!Effect(e)
  <1>1. /\ pc[w] = "apply" /\ EventOf(current[w]) \notin ledger
        /\ applied' = [applied EXCEPT ![EventOf(current[w])] = @ + 1]
        /\ UNCHANGED stream
    BY DEF Commit, CommitLost, CommitEffect, ClaimInLedger
  <1>2. PICK e \in Events : e = EventOf(current[w])
    BY <1>1, InHandIsValid DEF IngestInv
  <1>3. applied[e] = 0
    BY <1>1, <1>2 DEF IngestInv, AppliedAtMostOnce
  <1>4. applied' = [applied EXCEPT ![e] = 1]
    BY <1>1, <1>2, <1>3
  <1>5. current[w].id \in Sink!Open /\ log[current[w].id] = e
    BY <1>1, <1>2, InHandWasDelivered, HeldIsOpen DEF IngestInv, EventOf
  <1>6. Fate' = Fate
    BY <1>1, FateStays DEF stream, CanStillBeDelivered
  <1> QED
    BY <1>1, <1>3, <1>4, <1>5, <1>6 DEF stream, Sink!Effect

\* A dead letter closes an open entry that is malformed or was delivered often enough.
LEMMA DeadLetterGivesUp ==
    ASSUME IngestInv, NEW w \in Workers, SendToDeadLetter(w)
    PROVE  \E m \in Ids : Sink!GiveUp(m)
  <1>1. PICK d \in dead[w] : dlq' = [dlq EXCEPT ![d.id] = @ + 1]
    BY DEF SendToDeadLetter
  <1>2. pc[w] = "dead" /\ UNCHANGED <<log, cursor, pel, times, applied>>
    BY DEF SendToDeadLetter, store
  <1>3. PICK m \in Ids : m = d.id
    BY MessageFields DEF IngestInv, TypeInv, TypeOK
  <1>4. m \in Hand(w) /\ m <= cursor
    BY <1>3 DEF Hand, IdsOf, IngestInv, TypeInv, HeldWasDelivered
  <1>5. m \in Sink!Open /\ dlq[m] = 0
    BY <1>2, <1>4, HeldIsOpen
  <1>6. log[m] = Malformed \/ times[m] >= MaxDelivery
    BY <1>3 DEF IngestInv, DeliveryInv, CountsAreBehind
  <1>7. Fate' = [Fate EXCEPT ![m] = "dead"]
    <2>1. dlq'[m] > 0 /\ \A k \in Ids \ {m} : dlq'[k] = dlq[k]
      BY <1>1, <1>3, <1>5 DEF IngestInv, TypeInv, TypeOK
    <2>2. \A k \in Ids : CanStillBeDelivered(k)' <=> CanStillBeDelivered(k)
      BY <1>2 DEF CanStillBeDelivered
    <2> QED
      BY <2>1, <2>2 DEF Fate
  <1> QED
    BY <1>2, <1>5, <1>6, <1>7 DEF Sink!GiveUp

\* What a batch acknowledges is committed or stood for by another entry.
LEMMA AckCloses ==
    ASSUME IngestInv, NEW w \in Workers, Ack(w)
    PROVE  \E S \in SUBSET Sink!Open : Sink!Close(S)
  <1>1. /\ pc[w] = "dead" /\ pel' = pel \ acks[w]
        /\ UNCHANGED <<log, cursor, times, dlq, applied>>
    BY DEF Ack, XAck, store
  <1>2. \A m \in acks[w] : m \in Ids \cap Hand(w) /\ m <= cursor /\ log[m] # Malformed
    BY DEF IngestInv, TypeInv, TypeOK, LossInv, LossInvBut, Hand
  <1>3. \A m \in acks[w] : m \in Sink!Open /\ dlq[m] = 0
    BY <1>1, <1>2, HeldIsOpen
  <1>4. ASSUME NEW m \in acks[w] PROVE Sink!Redundant(m, acks[w])
    <2>1. m \in 1..Len(log)
      BY <1>3 DEF Sink!Open
    <2>2. Represented(m)
      BY <1>2, <2>1 DEF IngestInv, LossInv, LossInvBut
    <2>3. CASE FactCommitted(FactOf[log[m]])
      <3>1. PICK e \in ledger : FactOf[e] = FactOf[log[m]]
        BY <2>3 DEF FactCommitted
      <3>2. e \in Events /\ applied[e] > 0
        BY <3>1 DEF IngestInv, AppliedAtMostOnce, TypeInv, TypeOK
      <3> QED
        BY <3>1, <3>2 DEF Sink!Redundant
    <2>4. ASSUME NEW k \in 1..Len(log), log[k] = log[m], Standing(k)
          PROVE  Sink!Redundant(m, acks[w])
      <3>1. k \notin acks[w] /\ k \in Ids
        BY <2>4 DEF Standing, IngestInv, TypeInv, TypeOK
      <3>2. Fate[k] # "done"
        BY <2>4, <3>1, FateOf DEF Standing, Kept, IngestInv
      <3> QED
        BY <2>4, <3>1, <3>2 DEF Sink!Redundant
    <2> QED
      BY <2>2, <2>3, <2>4 DEF Represented
  <1>5. Fate' = [m \in Sink!Ids |-> IF m \in acks[w] THEN "done" ELSE Fate[m]]
    <2>1. ASSUME NEW m \in Ids
          PROVE  Fate'[m] = IF m \in acks[w] THEN "done" ELSE Fate[m]
      <3>1. m \in acks[w] => ~(m > cursor)
        BY <1>2 DEF IngestInv, TypeInv, TypeOK
      <3> QED
        BY <1>1, <1>3, <3>1 DEF Fate, CanStillBeDelivered
    <2> QED
      BY <2>1 DEF Fate, Sink!Ids
  <1> QED
    BY <1>1, <1>2, <1>3, <1>4, <1>5 DEF Sink!Close

LEMMA StepIsSinkStep ==
    ASSUME "crash" \notin Faults
    PROVE  IngestInv /\ [Next]_vars => [Sink!Next]_(Sink!vars)
  <1> SUFFICES ASSUME IngestInv, [Next]_vars PROVE Sink!Next \/ UNCHANGED Sink!vars
    OBVIOUS
  <1>1. ASSUME NEW p \in Events \cup {Malformed}, Publish(p)
        PROVE  Sink!Next
    BY <1>1, PublishOffers DEF Sink!Next
  <1>2. ASSUME UNCHANGED <<log, times, applied>>, UNCHANGED <<cursor, pel, dlq>>
        PROVE  UNCHANGED Sink!vars
    <2>1. Fate' = Fate
      BY <1>2, FateStays DEF CanStillBeDelivered
    <2> QED
      BY <1>2, <2>1 DEF Sink!vars
  <1>3. ASSUME NEW w \in Workers, Step(w)
        PROVE  Sink!Next \/ UNCHANGED Sink!vars
    <2>1. CASE Read(w)
      BY <2>1, ReadDelivers DEF Sink!Next
    <2>2. CASE ReclaimAbandoned(w)
      BY <2>2, ReclaimDelivers DEF Sink!Next
    <2>3. CASE Commit(w) \/ CommitLost(w)
      BY <2>3, CommitTakesEffect DEF Sink!Next
    <2>4. CASE SendToDeadLetter(w)
      BY <2>4, DeadLetterGivesUp DEF Sink!Next, Sink!Ids
    <2>5. CASE Ack(w)
      BY <2>5, AckCloses DEF Sink!Next
    <2>6. CASE AckDeadLetter(w)
      <3>1. /\ UNCHANGED <<log, cursor, times, dlq, applied>>
            /\ pel' = pel \ {current[w].id} /\ dlq[current[w].id] = 1
        BY <2>6 DEF AckDeadLetter, XAck, store, IngestInv, DeadLetterInv
      <3>2. Fate' = Fate
        BY <3>1, FateStays DEF CanStillBeDelivered
      <3> QED
        BY <3>1, <3>2 DEF Sink!vars
    <2>7. CASE PendingDeliveryCounts(w) \/ DiscardMalformed(w) \/ ClaimReservation(w)
               \/ Duplicate(w) \/ Fail(w) \/ Release(w) \/ EndPersist(w)
      BY <2>7, <1>2 DEF PendingDeliveryCounts, DiscardMalformed, ClaimReservation, Duplicate,
         Fail, Release, EndPersist, stream, store
    <2> QED
      BY <1>3, <2>1, <2>2, <2>3, <2>4, <2>5, <2>6, <2>7 DEF Step
  <1>4. ASSUME NEW m \in Ids, GoIdle(m) PROVE UNCHANGED Sink!vars
    BY <1>2, <1>4 DEF GoIdle, store
  <1>5. ASSUME NEW e \in Events, ExpireReservation(e) PROVE UNCHANGED Sink!vars
    BY <1>2, <1>5 DEF ExpireReservation, stream
  <1>6. CASE UNCHANGED vars
    BY <1>2, <1>6 DEF vars, stream, store
  <1> QED
    BY <1>1, <1>3, <1>4, <1>5, <1>6 DEF Next, Crash

LEMMA InitIsSinkInit == Init => Sink!Init
  <1> SUFFICES ASSUME Init PROVE Sink!Init
    OBVIOUS
  <1>1. Fate = [m \in Sink!Ids |-> "open"]
    BY DEF Init, Fate, CanStillBeDelivered, Sink!Ids
  <1> QED
    BY <1>1 DEF Init, Sink!Init, Sink!Ids

\* The consumer group, the reservations, the ledger and the acknowledgements implement
\* EventSink: an event takes effect once, while an entry of it is open; an entry is closed
\* only if its fact is committed or another one stands for it, and a valid one is given up
\* only after consumer_max_delivery deliveries, as long as no worker dies or outlives the
\* idle limit and reservations can be released (ingest_worker/main.py: _handle).
THEOREM IngestImplementsSink ==
    ASSUME "slow" \notin Faults, "crash" \notin Faults, "release_error" \notin Faults
    PROVE  Spec => ImplementsSink
  <1>1. Init => Sink!Init
    BY InitIsSinkInit
  <1>2. IngestInv /\ [Next]_vars => [Sink!Next]_(Sink!vars)
    BY StepIsSinkStep
  <1>3. Spec => []IngestInv
    BY TypeInvAlways, DeliveryInvAlways, ExactlyOnceEffect, HandInvAlways, DeadLetterInvAlways,
       LossInvAlways, PTL DEF IngestInv
  <1> QED
    BY <1>1, <1>2, <1>3, PTL DEF Spec, ImplementsSink, Sink!Spec
================================================================================
