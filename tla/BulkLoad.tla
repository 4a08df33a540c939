------------------------------ MODULE BulkLoad ------------------------------
(***************************************************************************)
(* One run of the DAG load_order_history_bulk (airflow/dags): the staging   *)
(* table is emptied, the chunks are planned, a mapped task per chunk writes *)
(* a CSV file and loads it into the staging table, and three more tasks     *)
(* fill the fact table, validate it and clean the volume up.                *)
(*                                                                          *)
(* Every statement commits by itself (AUTOCOMMIT), and so does every batch  *)
(* of a load; a task that raises is run again from its beginning.  Airflow  *)
(* is modelled by what the DAG uses of it: retries, trigger rules,          *)
(* max_active_runs = 1 and max_active_tis_per_dag.                          *)
(***************************************************************************)
EXTENDS Integers, Sequences, FiniteSets, FiniteSetsExt

CONSTANTS
    RowCounts,      \* values of the parameter row_count
    ChunkSizes,     \* values of the parameter chunk_size
    MaxRows,        \* bound: the largest row_count
    LoadBatch,      \* rows that BULK INSERT or executemany commits at a time
    MaxParallel,    \* MAX_PARALLEL_LOADS
    Retries,        \* retries of a task
    MaxErrors       \* bound: errors of the database or the volume in the run

ASSUME ConstantsAssumption ==
    /\ MaxRows \in Nat \ {0}
    /\ RowCounts \subseteq 1..MaxRows
    /\ ChunkSizes \subseteq Nat \ {0}
    /\ LoadBatch \in Nat \ {0}
    /\ MaxParallel \in Nat \ {0}
    /\ Retries \in Nat
    /\ MaxErrors \in Nat

\* A row of the load: its chunk_index and its offset in the chunk.
Indexes == 0..(MaxRows - 1)
Rows == Indexes \X Indexes

\* The task instances of the DAG: a task and its map_index, which is -1 for the
\* five that are not mapped and the chunk_index for generate_and_load.
PrepareStaging == <<"prepare_staging", -1>>
PlanTask == <<"plan", -1>>
LoadFact == <<"load_fact", -1>>
ValidateLoad == <<"validate_load", -1>>
CleanupTask == <<"cleanup", -1>>
Singles == {PrepareStaging, PlanTask, LoadFact, ValidateLoad, CleanupTask}
GenerateAndLoad(c) == <<"generate_and_load", c>>
Tasks == Singles \cup {GenerateAndLoad(c) : c \in Indexes}

Labels == {"truncate", "makedirs", "plan", "write", "chmod", "open", "load", "remove",
           "insert", "count", "validate", "list", "clean"}
Finished == {"success", "failed", "upstream_failed"}

VARIABLES
    rowCount, chunkSize,    \* the parameters of the run
    state,      \* state[t]: state of the task instance, or the label it is at
    tries,      \* tries[t]: attempts started
    errors,     \* errors so far (bounded by MaxErrors)
    chunks,     \* row_count of each planned chunk
    progress,   \* progress[c]: rows that this attempt of chunk c has committed
    files,      \* chunks whose CSV, whole or not, is on the shared volume
    listed,     \* files that cleanup has found and not yet removed
    staging,    \* staging[r]: copies of row r in stg_order_history
    fact,       \* fact[r]: copies of row r in fact_order_history
    counted     \* what load_fact returned

params == <<rowCount, chunkSize>>
volume == <<files, listed>>
data   == <<chunks, progress, volume, staging, fact, counted>>
vars   == <<params, state, tries, errors, data>>

Empty == [r \in Rows |-> 0]

\* What an earlier run may have left in a table.
Leftover == [r \in Rows |-> IF r = <<0, 0>> THEN 1 ELSE 0]

Init ==
    /\ rowCount \in RowCounts
    /\ chunkSize \in ChunkSizes
    /\ state = [t \in Tasks |-> "none"]
    /\ tries = [t \in Tasks |-> 0]
    /\ errors = 0
    /\ chunks = << >>
    /\ progress = [c \in Indexes |-> 0]
    /\ files = {}
    /\ listed = {}
    /\ staging \in {Empty, Leftover}
    /\ fact \in {Empty, Leftover}
    /\ counted = 0

(***************************************************************************)
(* The plan and the rows.                                                   *)
(***************************************************************************)

\* plan_chunks: the loop on "remaining".
PlanChunks(rows, size) ==
    LET plan[remaining \in 0..rows] ==
            IF remaining = 0
            THEN << >>
            ELSE LET first == Min({size, remaining})
                 IN  <<first>> \o plan[remaining - first]
    IN  plan[rows]

Planned == {c \in Indexes : c < Len(chunks)}
SizeOf(c) == chunks[c + 1]
RowsOf(c) == {r \in Rows : r[1] = c /\ r[2] < SizeOf(c)}
PlannedRows == UNION {RowsOf(c) : c \in Planned}

\* Mutant: every chunk starts at its index.
SequenceFromIndex(r) == r[1] + r[2]

\* generate_rows: the number in the row's order_uid.
SequenceOf(r) == r[1] * SizeOf(r[1]) + r[2]

(***************************************************************************)
(* The life of a task instance.                                             *)
(***************************************************************************)

Goto(t, label) == state' = [state EXCEPT ![t] = label]

\* A first attempt or a retry, at its first label.
Begin(t, label) ==
    /\ state[t] \in {"none", "up_for_retry"}
    /\ tries' = [tries EXCEPT ![t] = @ + 1]
    /\ Goto(t, label)

\* Mutant: one retry more than configured.
AfterFailureOneMore(t) == IF tries[t] <= Retries + 1 THEN "up_for_retry" ELSE "failed"

\* default_args: retries.
AfterFailure(t) == IF tries[t] <= Retries THEN "up_for_retry" ELSE "failed"

\* A statement or a file operation raises where the task is.  What was
\* committed stays, and so does the file.
Raise(t) ==
    /\ state[t] \in Labels
    /\ errors < MaxErrors
    /\ errors' = errors + 1
    /\ Goto(t, AfterFailure(t))
    /\ UNCHANGED <<params, tries, data>>

(***************************************************************************)
(* prepare_staging and plan.                                                *)
(***************************************************************************)

BeginPrepare ==
    /\ Begin(PrepareStaging, "truncate")
    /\ UNCHANGED <<params, errors, data>>

\* Mutant: the staging table keeps what it holds.
StagingNotTruncated == staging

\* TRUNCATE TABLE stg_order_history.
StagingTruncated == Empty

TruncateStaging ==
    /\ state[PrepareStaging] = "truncate"
    /\ staging' = StagingTruncated
    /\ Goto(PrepareStaging, "makedirs")
    /\ UNCHANGED <<params, tries, errors, chunks, progress, volume, fact, counted>>

MakeDirs ==
    /\ state[PrepareStaging] = "makedirs"
    /\ Goto(PrepareStaging, "success")
    /\ UNCHANGED <<params, tries, errors, data>>

BeginPlan ==
    /\ state[PrepareStaging] = "success"
    /\ Begin(PlanTask, "plan")
    /\ UNCHANGED <<params, errors, data>>

Plan ==
    /\ state[PlanTask] = "plan"
    /\ chunks' = PlanChunks(rowCount, chunkSize)
    /\ Goto(PlanTask, "success")
    /\ UNCHANGED <<params, tries, errors, progress, volume, staging, fact, counted>>

(***************************************************************************)
(* generate_and_load, mapped over the chunks.                               *)
(***************************************************************************)

Active == {c \in Planned : state[GenerateAndLoad(c)] \in Labels}

BeginChunk(c) ==
    /\ c \in Planned
    /\ Cardinality(Active) < MaxParallel
    /\ Begin(GenerateAndLoad(c), "write")
    /\ progress' = [progress EXCEPT ![c] = 0]
    /\ UNCHANGED <<params, errors, chunks, volume, staging, fact, counted>>

\* open: from here on there is a file, which cleanup may find.
CreateCsv(c) ==
    /\ state[GenerateAndLoad(c)] = "write"
    /\ files' = files \cup {c}
    /\ Goto(GenerateAndLoad(c), "chmod")
    /\ UNCHANGED <<params, tries, errors, chunks, progress, listed, staging, fact, counted>>

\* The rows are written and the file becomes readable for SQL Server.
CompleteCsv(c) ==
    /\ state[GenerateAndLoad(c)] = "chmod"
    /\ c \in files
    /\ Goto(GenerateAndLoad(c), "open")
    /\ UNCHANGED <<params, tries, errors, data>>

\* Once it is open, the file stays readable.
OpenFile(c) ==
    /\ state[GenerateAndLoad(c)] = "open"
    /\ c \in files
    /\ Goto(GenerateAndLoad(c), "load")
    /\ UNCHANGED <<params, tries, errors, data>>

\* The next batch of rows of chunk c.
NextRows(c) == {r \in RowsOf(c) : r[2] \in progress[c]..(progress[c] + LoadBatch - 1)}

LoadRows(c) ==
    /\ state[GenerateAndLoad(c)] = "load"
    /\ progress[c] < SizeOf(c)
    /\ staging' = [r \in Rows |-> staging[r] + (IF r \in NextRows(c) THEN 1 ELSE 0)]
    /\ progress' = [progress EXCEPT ![c] = Min({SizeOf(c), @ + LoadBatch})]
    /\ UNCHANGED <<params, state, tries, errors, chunks, volume, fact, counted>>

EndLoad(c) ==
    /\ state[GenerateAndLoad(c)] = "load"
    /\ progress[c] = SizeOf(c)
    /\ Goto(GenerateAndLoad(c), "remove")
    /\ UNCHANGED <<params, tries, errors, data>>

\* Mutant: the task leaves its file to cleanup.
RemoveFileLeftToCleanup(c) ==
    /\ state[GenerateAndLoad(c)] = "remove"
    /\ Goto(GenerateAndLoad(c), "success")
    /\ UNCHANGED <<params, tries, errors, data>>

RemoveFile(c) ==
    /\ state[GenerateAndLoad(c)] = "remove"
    /\ c \in files
    /\ files' = files \ {c}
    /\ Goto(GenerateAndLoad(c), "success")
    /\ UNCHANGED <<params, tries, errors, chunks, progress, listed, staging, fact, counted>>

\* The file is gone: cleanup was there before.
FileMissing(c) ==
    /\ state[GenerateAndLoad(c)] \in {"chmod", "open", "remove"}
    /\ c \notin files
    /\ Goto(GenerateAndLoad(c), AfterFailure(GenerateAndLoad(c)))
    /\ UNCHANGED <<params, tries, errors, data>>

(***************************************************************************)
(* load_fact, validate_load and cleanup.                                    *)
(***************************************************************************)

AllLoaded == state[PlanTask] = "success" /\ \A c \in Planned : state[GenerateAndLoad(c)] = "success"

BeginFact ==
    /\ AllLoaded
    /\ Begin(LoadFact, "truncate")
    /\ UNCHANGED <<params, errors, data>>

\* Mutant: load_fact adds to what the table holds.
FactNotTruncated == fact

\* TRUNCATE TABLE fact_order_history.
FactTruncated == Empty

TruncateFact ==
    /\ state[LoadFact] = "truncate"
    /\ fact' = FactTruncated
    /\ Goto(LoadFact, "insert")
    /\ UNCHANGED <<params, tries, errors, chunks, progress, volume, staging, counted>>

\* INSERT ... SELECT, one statement.
InsertFact ==
    /\ state[LoadFact] = "insert"
    /\ fact' = [r \in Rows |-> fact[r] + staging[r]]
    /\ Goto(LoadFact, "count")
    /\ UNCHANGED <<params, tries, errors, chunks, progress, volume, staging, counted>>

\* What a table holds, copies of a row told apart.
Copies(table) == UNION {{r} \X (1..table[r]) : r \in Rows}

\* SELECT COUNT_BIG(1).
CountFact ==
    /\ state[LoadFact] = "count"
    /\ counted' = Cardinality(Copies(fact))
    /\ Goto(LoadFact, "success")
    /\ UNCHANGED <<params, tries, errors, chunks, progress, volume, staging, fact>>

BeginValidate ==
    /\ state[LoadFact] = "success"
    /\ Begin(ValidateLoad, "validate")
    /\ UNCHANGED <<params, errors, data>>

\* Mutant: too many rows are no reason to refuse.
CountIsAtLeast == counted >= rowCount

CountIsRight == counted = rowCount

\* A ValueError, which is retried like any other error, when the count is wrong.
Validate ==
    /\ state[ValidateLoad] = "validate"
    /\ Goto(ValidateLoad, IF CountIsRight THEN "success" ELSE AfterFailure(ValidateLoad))
    /\ UNCHANGED <<params, tries, errors, data>>

\* trigger_rule "all_done".
BeginCleanup ==
    /\ state[ValidateLoad] \in Finished
    /\ Begin(CleanupTask, "list")
    /\ UNCHANGED <<params, errors, data>>

\* os.listdir: the file of every chunk.
ListFiles ==
    /\ state[CleanupTask] = "list"
    /\ listed' = files
    /\ Goto(CleanupTask, "clean")
    /\ UNCHANGED <<params, tries, errors, chunks, progress, files, staging, fact, counted>>

RemoveListed ==
    /\ state[CleanupTask] = "clean"
    /\ \E c \in listed \cap files :
        /\ files' = files \ {c}
        /\ listed' = listed \ {c}
    /\ UNCHANGED <<params, state, tries, errors, chunks, progress, staging, fact, counted>>

\* A chunk that is still at work has removed its file in between.
ListedIsMissing ==
    /\ state[CleanupTask] = "clean"
    /\ listed \ files # {}
    /\ Goto(CleanupTask, AfterFailure(CleanupTask))
    /\ UNCHANGED <<params, tries, errors, data>>

EndCleanup ==
    /\ state[CleanupTask] = "clean"
    /\ listed = {}
    /\ Goto(CleanupTask, "success")
    /\ UNCHANGED <<params, tries, errors, data>>

Cleanup == BeginCleanup \/ ListFiles \/ RemoveListed \/ ListedIsMissing \/ EndCleanup

\* The tasks whose failure a task does not survive (trigger rule all_success).
Upstream(t) ==
    CASE t = PlanTask -> {PrepareStaging}
      [] t = LoadFact -> {PlanTask} \cup {GenerateAndLoad(c) : c \in Planned}
      [] t = ValidateLoad -> {LoadFact}
      [] OTHER               -> {}

\* Mutant: a task waits for all the tasks it depends on before it gives up.
UpstreamHasFailedForAll(t) ==
    /\ Upstream(t) # {}
    /\ \A u \in Upstream(t) : state[u] \in {"failed", "upstream_failed"}

\* One is enough: the others may still be running.
UpstreamHasFailed(t) == \E u \in Upstream(t) : state[u] \in {"failed", "upstream_failed"}

GiveUp(t) ==
    /\ state[t] = "none"
    /\ UpstreamHasFailed(t)
    /\ Goto(t, "upstream_failed")
    /\ UNCHANGED <<params, tries, errors, data>>

Chunk(c) ==
    \/ BeginChunk(c) \/ CreateCsv(c) \/ CompleteCsv(c) \/ OpenFile(c) \/ LoadRows(c) \/ EndLoad(c)
    \/ RemoveFile(c) \/ FileMissing(c)

Single ==
    \/ BeginPrepare \/ TruncateStaging \/ MakeDirs
    \/ BeginPlan \/ Plan
    \/ BeginFact \/ TruncateFact \/ InsertFact \/ CountFact
    \/ BeginValidate \/ Validate
    \/ Cleanup

\* What the scheduler and the tasks do.
Work ==
    \/ \E c \in Indexes : Chunk(c)
    \/ Single
    \/ \E t \in Singles : GiveUp(t)

Next == Work \/ \E t \in Tasks : Raise(t)

Spec == Init /\ [][Next]_vars

(***************************************************************************)
(* Properties.                                                              *)
(***************************************************************************)

\* No task is attempted more often than once and its retries, and a chunk
\* commits no more rows than it has (load_order_history_dag.py, retries).
TypeOK ==
    /\ rowCount \in RowCounts
    /\ chunkSize \in ChunkSizes
    /\ state \in [Tasks -> Labels \cup Finished \cup {"none", "up_for_retry"}]
    /\ tries \in [Tasks -> 0..(Retries + 1)]
    /\ errors \in 0..MaxErrors
    /\ chunks \in Seq(1..MaxRows)
    /\ progress \in [Indexes -> 0..MaxRows]
    /\ files \subseteq Indexes
    /\ listed \subseteq Indexes
    /\ staging \in [Rows -> Nat]
    /\ fact \in [Rows -> Nat]
    /\ counted \in Nat

\* When chunk_size divides row_count, no two rows of the load get the same
\* order_uid (generate_rows).  Otherwise the last chunk, which is smaller,
\* starts inside another one: its first sequence is chunk_index * row_count.
UidsUniqueForWholeChunks ==
    rowCount % chunkSize = 0 =>
        \A r, s \in PlannedRows : SequenceOf(r) = SequenceOf(s) => r = s

\* A load that validate_load accepts holds every planned row exactly once and
\* nothing else, whatever was left by earlier runs, retried or loaded twice:
\* counting suffices, since a chunk that has succeeded has loaded each row.
ValidatedLoadIsExact ==
    state[ValidateLoad] = "success" =>
        \A r \in Rows : fact[r] = IF r \in PlannedRows THEN 1 ELSE 0

\* validate_load refuses a load only when a chunk was attempted more than
\* once: neither the leftovers of earlier runs nor the retries of
\* prepare_staging and load_fact, which truncate first, disturb the count.
RefusedOnlyAfterRetriedChunk ==
    (state[LoadFact] = "success" /\ counted # rowCount) =>
        \E c \in Planned : tries[GenerateAndLoad(c)] > 1

\* When all tasks are finished, only a chunk that has failed may have left its CSV on
\* the volume: cleanup, which may run before a chunk that is still at work writes its
\* file again, is not needed by the others (load_order_history_dag.py: cleanup).
OrphanOnlyOfFailedChunk ==
    (/\ state[CleanupTask] = "success"
     /\ \A c \in Planned : state[GenerateAndLoad(c)] \in Finished) =>
        \A c \in files \cap Planned : state[GenerateAndLoad(c)] = "failed"

\* The run ends: cleanup is reached whatever fails, and no chunk is left
\* unfinished, not even one whose file cleanup has removed under it.
EventuallyEnded ==
    <>(/\ state[CleanupTask] \in Finished
       /\ \A c \in Planned : state[GenerateAndLoad(c)] \in Finished)
=============================================================================
