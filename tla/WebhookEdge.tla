----------------------------- MODULE WebhookEdge -----------------------------
(***************************************************************************)
(* The webhook edge: the processes of the API, each with its own buffer and *)
(* its own backpressure state (src/webhook_api), that publish to the Redis  *)
(* Stream (src/shared/messaging/publisher.py).  A process is one event      *)
(* loop: a step runs from one await to the next.                            *)
(***************************************************************************)
EXTENDS Integers, Sequences, FiniteSets

CONSTANTS
    Processes,      \* uvicorn workers
    BufferSize,     \* buffer_queue_size
    MaxBatch,       \* buffer_max_batch
    MaxLag,         \* backpressure_max_lag
    RequestSizes,   \* how many events a webhook request may carry
    Faults,         \* subset of PossibleFaults
    MaxEvents,      \* bound: events the partners send
    MaxProbes       \* bound: probes in flight in one process

\* "redis_empty": Redis restarts without what it held.
PossibleFaults == {"publish_error", "xlen_error", "stop", "redis_empty"}

ASSUME ConstantsAssumption ==
    /\ BufferSize \in Nat \ {0}
    /\ MaxBatch \in Nat \ {0}
    /\ MaxLag \in Nat
    /\ RequestSizes \subseteq Nat
    /\ Faults \subseteq PossibleFaults
    /\ MaxEvents \in Nat
    /\ MaxProbes \in Nat

Events == 1..MaxEvents

VARIABLES
    issued,         \* events sent by the partners so far
    accepted,       \* history: accepted[p], in the order p accepted them
    refused,        \* history: refused[p], the events p answered 429 for
    stream,         \* events:ingest
    acked,          \* how many entries the consumers acknowledged
    dropped,        \* history: accepted events that a failed publication threw away or
                    \* that were in Redis when it restarted empty
    limitReached,   \* history: the stream has been as long as MaxLag
    queue,          \* the asyncio queue of each process
    batch,          \* the batch _flush took from it
    flusher,        \* where the flushing task, and then stop(), is
    running,        \* _running
    atStop,         \* history: length of the queue when stop() was called
    probeDue,       \* backpressure_probe_ms passed since _last_probe_at
    probes,         \* requests that wait for XLEN
    overloaded      \* the cached BackpressureState

answers == <<accepted, refused>>
buffer == <<answers, queue>>
flush  == <<batch, flusher, running, atStop>>
guard  == <<probeDue, probes, overloaded>>
redis  == <<stream, acked, dropped, limitReached>>
vars   == <<issued, buffer, flush, guard, redis>>

Unread == -1

\* A request that awaits the probe: its events, and XLEN once Redis answered.
Probe == [events : Seq(Events), lag : Nat \cup {Unread}]

FlusherStates == {"sleep", "publish", "ended", "last_publish", "exited"}

Init ==
    /\ issued = 0
    /\ accepted = [p \in Processes |-> << >>]
    /\ refused = [p \in Processes |-> {}]
    /\ stream = << >>
    /\ acked = 0
    /\ dropped = {}
    /\ limitReached = (MaxLag = 0)
    /\ queue = [p \in Processes |-> << >>]
    /\ batch = [p \in Processes |-> << >>]
    /\ flusher = [p \in Processes |-> "sleep"]
    /\ running = [p \in Processes |-> TRUE]
    /\ atStop = [p \in Processes |-> 0]
    /\ probeDue = [p \in Processes |-> TRUE]
    /\ probes = [p \in Processes |-> {}]
    /\ overloaded = [p \in Processes |-> FALSE]

(***************************************************************************)
(* Requests.                                                                *)
(***************************************************************************)

Smaller(a, b) == IF a <= b THEN a ELSE b

EventsOf(s) == {s[i] : i \in 1..Len(s)}

\* Mutant: one slot too many.
FreeOneTooMany(p) == BufferSize - Len(queue[p]) + 1

Free(p) == BufferSize - Len(queue[p])

\* ingest_events after evaluate(): refuse everything, or submit event by event
\* until the queue is full and answer 429 with what was accepted so far.
Submit(p, events, refuse) ==
    LET n    == IF refuse THEN 0 ELSE Smaller(Len(events), Free(p))
        part == SubSeq(events, 1, n)
    IN  /\ queue' = [queue EXCEPT ![p] = @ \o part]
        /\ accepted' = [accepted EXCEPT ![p] = @ \o part]
        /\ refused' = [refused EXCEPT ![p] = @ \cup (EventsOf(events) \ EventsOf(part))]

NextEvents(n) == [i \in 1..n |-> issued + i]

\* A webhook whose process measured the lag a moment ago.
IngestEvents(p) ==
    /\ running[p]
    /\ ~probeDue[p]
    /\ \E n \in RequestSizes :
        /\ issued + n <= MaxEvents
        /\ issued' = issued + n
        /\ Submit(p, NextEvents(n), overloaded[p])
    /\ UNCHANGED <<flush, guard, redis>>

\* _probe: _last_probe_at moves before the await, so that requests that arrive
\* meanwhile go by the old state.
BeginProbe(p, events) ==
    /\ probeDue' = [probeDue EXCEPT ![p] = FALSE]
    /\ probes' = [probes EXCEPT ![p] = @ \cup {[events |-> events, lag |-> Unread]}]

\* A webhook, or GET /health, that finds the probe due.
ProbeByWebhook(p) ==
    /\ running[p]
    /\ probeDue[p]
    /\ Cardinality(probes[p]) < MaxProbes
    /\ \E n \in RequestSizes :
        /\ issued + n <= MaxEvents
        /\ issued' = issued + n
        /\ BeginProbe(p, NextEvents(n))
    /\ UNCHANGED <<buffer, flush, redis, overloaded>>

ProbeByHealth(p) ==
    /\ running[p]
    /\ probeDue[p]
    /\ Cardinality(probes[p]) < MaxProbes
    /\ BeginProbe(p, << >>)
    /\ UNCHANGED <<issued, buffer, flush, redis, overloaded>>

\* Probe q of process p goes on with this lag.
LagIs(p, q, lag) ==
    /\ q.lag = Unread
    /\ probes' = [probes EXCEPT ![p] = (@ \ {q}) \cup {[q EXCEPT !.lag = lag]}]
    /\ UNCHANGED <<issued, buffer, flush, redis, probeDue, overloaded>>

\* pending_lag: XLEN.
MeasureLag(p) == \E q \in probes[p] : LagIs(p, q, Len(stream))

\* Mutant: what cannot be measured counts as the limit.
LagOnErrorIsTheLimit == MaxLag

\* ... and 0 when Redis does not answer.
LagOnError == 0

MeasureFails(p) ==
    /\ "xlen_error" \in Faults
    /\ \E q \in probes[p] : LagIs(p, q, LagOnError)

\* Mutant: the limit itself is not overload.
IsOverloadAboveLimit(lag) == lag > MaxLag

IsOverload(lag) == lag >= MaxLag

\* Mutant: a process that was overloaded stays so.
EndProbeKeepsOverload(p, lag) ==
    \E q \in probes[p] :
        /\ q.lag = lag
        /\ probes' = [probes EXCEPT ![p] = @ \ {q}]
        /\ overloaded' = [overloaded EXCEPT ![p] = @ \/ IsOverload(lag)]
        /\ Submit(p, q.events, overloaded[p] \/ IsOverload(lag))
        /\ UNCHANGED <<issued, flush, redis, probeDue>>

\* A probe returns with this lag and its request goes on with the new state.
EndProbe(p, lag) ==
    \E q \in probes[p] :
        /\ q.lag = lag
        /\ probes' = [probes EXCEPT ![p] = @ \ {q}]
        /\ overloaded' = [overloaded EXCEPT ![p] = IsOverload(lag)]
        /\ Submit(p, q.events, IsOverload(lag))
        /\ UNCHANGED <<issued, flush, redis, probeDue>>

PossibleLags == 0..MaxEvents

(***************************************************************************)
(* The flushing task.                                                       *)
(***************************************************************************)

\* _take_batch
TakeBatch(p) ==
    LET n == Smaller(MaxBatch, Len(queue[p]))
    IN  /\ batch' = [batch EXCEPT ![p] = SubSeq(queue[p], 1, n)]
        /\ queue' = [queue EXCEPT ![p] = SubSeq(@, n + 1, Len(@))]

\* Mutant: the flushing task ends after its first round.
AfterRoundAlwaysEnds(r) == "ended"

\* What follows the round of the loop that ran while _running was r.
AfterRound(r) == IF r THEN "sleep" ELSE "ended"

\* buffer_flush_ms passed.
FlushRound(p) ==
    /\ flusher[p] = "sleep"
    /\ TakeBatch(p)
    /\ flusher' = [flusher EXCEPT ![p] =
            IF queue[p] = << >> THEN AfterRound(running[p]) ELSE "publish"]
    /\ UNCHANGED <<issued, answers, running, atStop, guard, redis>>

\* Mutant: the batch is kept after it was sent.
AfterPublishKeepsBatch(p) ==
    /\ batch' = batch
    /\ flusher' = [flusher EXCEPT ![p] =
            IF @ = "publish" THEN AfterRound(running[p]) ELSE "exited"]

\* The end of publish_many, and what the flusher does after it.
AfterPublish(p) ==
    /\ batch' = [batch EXCEPT ![p] = << >>]
    /\ flusher' = [flusher EXCEPT ![p] =
            IF @ = "publish" THEN AfterRound(running[p]) ELSE "exited"]

\* XADD, which begins the stream when there is none.
Xadd(s) ==
    /\ stream' = stream \o s
    /\ limitReached' = (limitReached \/ Len(stream \o s) >= MaxLag)

PublishMany(p) ==
    /\ flusher[p] \in {"publish", "last_publish"}
    /\ Xadd(batch[p])
    /\ AfterPublish(p)
    /\ UNCHANGED <<issued, buffer, running, atStop, guard, acked, dropped>>

\* The elements of s that are in S, in their order.
Only(s, S) ==
    LET upTo[i \in 0..Len(s)] ==
            IF i = 0 THEN << >>
            ELSE IF s[i] \in S THEN Append(upTo[i - 1], s[i]) ELSE upTo[i - 1]
    IN  upTo[Len(s)]

\* The pipeline is no transaction: when it raises, some of its XADDs may have
\* been executed.  The exception is logged and the batch is gone.
PublishFails(p) ==
    /\ "publish_error" \in Faults
    /\ flusher[p] \in {"publish", "last_publish"}
    /\ \E done \in SUBSET EventsOf(batch[p]) :
        /\ Xadd(Only(batch[p], done))
        /\ dropped' = dropped \cup (EventsOf(batch[p]) \ done)
    /\ AfterPublish(p)
    /\ UNCHANGED <<issued, buffer, running, atStop, guard, acked>>

(***************************************************************************)
(* Shutdown: stop() lets the flusher finish its round, then flushes once.    *)
(***************************************************************************)

\* uvicorn has answered the requests it had before it runs the lifespan's end.
Stop(p) ==
    /\ "stop" \in Faults
    /\ running[p]
    /\ probes[p] = {}
    /\ running' = [running EXCEPT ![p] = FALSE]
    /\ atStop' = [atStop EXCEPT ![p] = Len(queue[p])]
    /\ UNCHANGED <<issued, buffer, batch, flusher, guard, redis>>

\* DRAIN_TIMEOUT_SECONDS: the flusher is cancelled in the middle of a
\* publication that may have been executed or not.
DrainTimeout(p) ==
    /\ "publish_error" \in Faults
    /\ ~running[p]
    /\ flusher[p] = "publish"
    /\ \E done \in {{}, EventsOf(batch[p])} :
        /\ Xadd(Only(batch[p], done))
        /\ dropped' = dropped \cup (EventsOf(batch[p]) \ done)
    /\ batch' = [batch EXCEPT ![p] = << >>]
    /\ flusher' = [flusher EXCEPT ![p] = "ended"]
    /\ UNCHANGED <<issued, buffer, running, atStop, guard, acked>>

\* Mutant: stop() does not flush what the flusher left.
LastFlushSkipped(p) ==
    /\ ~running[p]
    /\ flusher[p] = "ended"
    /\ flusher' = [flusher EXCEPT ![p] = "exited"]
    /\ UNCHANGED <<issued, buffer, batch, running, atStop, guard, redis>>

\* The flush at the end of stop().
LastFlush(p) ==
    /\ ~running[p]
    /\ flusher[p] = "ended"
    /\ TakeBatch(p)
    /\ flusher' = [flusher EXCEPT ![p] =
            IF queue[p] = << >> THEN "exited" ELSE "last_publish"]
    /\ UNCHANGED <<issued, answers, running, atStop, guard, redis>>

(***************************************************************************)
(* Time and the consumers.                                                  *)
(***************************************************************************)

ProbeInterval(p) ==
    /\ ~probeDue[p]
    /\ probeDue' = [probeDue EXCEPT ![p] = TRUE]
    /\ UNCHANGED <<issued, buffer, flush, probes, overloaded, redis>>

\* XACK removes an entry from the pending list, never from the stream.
Consume ==
    /\ acked < Len(stream)
    /\ acked' = acked + 1
    /\ UNCHANGED <<issued, buffer, flush, guard, stream, dropped, limitReached>>

\* Redis runs with --appendonly no (docker-compose.yml): in a new container, or after
\* it died before its first snapshot, the stream is gone.
RedisComesBackEmpty ==
    /\ "redis_empty" \in Faults
    /\ stream # << >>
    /\ stream' = << >>
    /\ acked' = 0
    /\ dropped' = dropped \cup EventsOf(stream)
    /\ UNCHANGED <<issued, buffer, flush, guard, limitReached>>

Flusher(p) == FlushRound(p) \/ PublishMany(p) \/ LastFlush(p)

Next ==
    \/ \E p \in Processes :
        \/ IngestEvents(p)
        \/ ProbeByWebhook(p)
        \/ ProbeByHealth(p)
        \/ MeasureLag(p)
        \/ MeasureFails(p)
        \/ \E lag \in PossibleLags : EndProbe(p, lag)
        \/ Flusher(p)
        \/ PublishFails(p)
        \/ Stop(p)
        \/ DrainTimeout(p)
        \/ ProbeInterval(p)
    \/ Consume
    \/ RedisComesBackEmpty

Spec == Init /\ [][Next]_vars

\* The event loop runs its tasks, every answered probe included, Redis does not fail
\* to answer for ever, the container's health check comes round again and the
\* consumers work.
Fairness ==
    /\ \A p \in Processes :
        /\ WF_vars(Flusher(p) \/ PublishFails(p) \/ DrainTimeout(p))
        /\ SF_vars(MeasureLag(p))
        /\ \A lag \in PossibleLags : WF_vars(EndProbe(p, lag))
        /\ WF_vars(ProbeInterval(p))
        /\ WF_vars(ProbeByHealth(p))
    /\ WF_vars(Consume)

FairSpec == Spec /\ Fairness

(***************************************************************************)
(* Properties                                                               *)
(***************************************************************************)

\* The variables have their types; the buffers respect their limits.
TypeOK ==
    /\ issued \in 0..MaxEvents
    /\ accepted \in [Processes -> Seq(Events)]
    /\ refused \in [Processes -> SUBSET Events]
    /\ stream \in Seq(Events)
    /\ acked \in 0..Len(stream)
    /\ dropped \subseteq Events
    /\ limitReached \in BOOLEAN
    /\ queue \in [Processes -> Seq(Events)]
    /\ batch \in [Processes -> Seq(Events)]
    /\ \A p \in Processes : Len(queue[p]) <= BufferSize /\ Len(batch[p]) <= MaxBatch
    /\ flusher \in [Processes -> FlusherStates]
    /\ running \in [Processes -> BOOLEAN]
    /\ atStop \in [Processes -> Nat]
    /\ probeDue \in [Processes -> BOOLEAN]
    /\ probes \in [Processes -> SUBSET Probe]
    /\ overloaded \in [Processes -> BOOLEAN]

Survivors(p) == Only(accepted[p], Events \ dropped)
PublishedBy(p) == Only(stream, EventsOf(accepted[p]))

\* What a process answered 202 for is, in the order it was accepted and once,
\* first in the stream, then in the batch, then in the queue; nothing is missing
\* but what a failed publication threw away (buffer.py: _flush) or Redis forgot.
AcceptedAccounted ==
    \A p \in Processes : Survivors(p) = PublishedBy(p) \o batch[p] \o queue[p]

\* Shutdown saves at least one batch: a process that had no more than
\* buffer_max_batch events in its queue when it was stopped leaves none behind
\* (buffer.py: stop).
StopDrainsOneBatch ==
    \A p \in Processes :
        flusher[p] = "exited" /\ atStop[p] <= MaxBatch => queue[p] = << >>

\* A 429 has one of two causes: the queue is full once it holds what fits of the
\* request (routes.py: BufferFullError), or the process takes the stream for too long
\* (routes.py: evaluate), and then the stream has been as long as the limit: Redis
\* that does not answer is no cause (publisher.py: pending_lag answers 0 then).
RefusalIsJustified ==
    [][\A p \in Processes : refused'[p] # refused[p] =>
            \/ Len(queue'[p]) = BufferSize
            \/ overloaded'[p] /\ limitReached]_vars

\* The cached state follows the stream, although measurements fail and those that overlap
\* end in any order, an answer of before last: while the stream is as long as the limit
\* no running process goes on without learning it, and when Redis comes back empty a
\* process that refused events does not refuse for ever by the length of a stream that
\* is gone (backpressure.py: evaluate).
OverloadFollowsTheStream ==
    \A p \in Processes :
        /\ Len(stream) >= MaxLag ~> (overloaded[p] \/ ~running[p] \/ Len(stream) < MaxLag)
        /\ overloaded[p] /\ Len(stream) < MaxLag
                ~> (~overloaded[p] \/ ~running[p] \/ Len(stream) >= MaxLag)

\* What was accepted does not stay in a buffer: it reaches the stream, fails to
\* be published, or its process has exited.
EventuallyFlushed ==
    \A p \in Processes :
        queue[p] # << >> ~> (queue[p] = << >> \/ flusher[p] = "exited")

\* Backpressure follows the consumers: a process that refuses events accepts
\* them again after the consumers caught up (webhook_api/main.py: "o backpressure
\* devolve 429 quando os consumidores ficam para tras").
OverloadEnds ==
    \A p \in Processes : overloaded[p] ~> (~overloaded[p] \/ ~running[p])
=============================================================================
