---------------------------- MODULE BulkBenchmark ----------------------------
(***************************************************************************)
(* The benchmark of the load strategies (airflow/dags/ecommerce/benchmark.py) *)
(* beside a run of the DAG: it empties and fills the same staging table, and *)
(* nothing keeps the two apart.  Its connection commits every statement.    *)
(* Its sample is chunk 900, which is taken to be beyond the plan: with more  *)
(* than 900 chunks it would write over the CSV of one of them.               *)
(***************************************************************************)
EXTENDS BulkLoad

CONSTANTS
    SampleFast,     \* SAMPLE_FAST
    SampleRow       \* SAMPLE_ROW

\* Chunk 900, beyond every planned chunk; its CSV is named like theirs.
SampleChunk == MaxRows - 1

ASSUME SampleAssumption ==
    /\ {SampleFast, SampleRow} \subseteq 1..MaxRows
    /\ \A rows \in RowCounts, size \in ChunkSizes : rows <= SampleChunk * size

VARIABLES
    measure,    \* which measurement it is at; the fourth is the last _reset
    at,         \* where in it
    measured,   \* rows this measurement has committed
    disturbed   \* history: it wrote the staging table while the DAG was using it

benchmark == <<measure, at, measured, disturbed>>
dag == <<params, state, tries, errors, chunks, progress, listed, fact, counted>>

BenchmarkInit ==
    /\ Init
    /\ measure = 1
    /\ at = "write"
    /\ measured = 0
    /\ disturbed = FALSE

\* BULK INSERT, fast_executemany and row by row.
SampleSize == <<SampleFast, SampleFast, SampleRow>>
BatchOf == <<LoadBatch, LoadBatch, 1>>

\* From the TRUNCATE of prepare_staging to the end of load_fact, which reads the
\* table again when its last statement fails.
DagUsesStaging ==
    /\ state[PrepareStaging] \in {"makedirs", "success"}
    /\ state[LoadFact] # "success"

WriteStaging(rows) ==
    /\ staging' = rows
    /\ disturbed' = (disturbed \/ DagUsesStaging)

WriteSample ==
    /\ at = "write"
    /\ files' = files \cup {SampleChunk}
    /\ at' = "reset"
    /\ UNCHANGED <<dag, staging, measure, measured, disturbed>>

\* _reset: before each measurement and after the last.
Reset ==
    /\ at = "reset"
    /\ WriteStaging(Empty)
    /\ measured' = 0
    /\ at' = IF measure <= Len(SampleSize) THEN "load" ELSE "remove"
    /\ UNCHANGED <<dag, files, measure>>

\* load_csv and _row_by_row, batch by batch: the file is opened before the first.
LoadSample ==
    LET upTo == Min({SampleSize[measure], measured + BatchOf[measure]})
        rows == {<<SampleChunk, i>> : i \in measured..(upTo - 1)}
    IN  /\ at = "load"
        /\ measured = 0 => SampleChunk \in files
        /\ WriteStaging([r \in Rows |-> staging[r] + (IF r \in rows THEN 1 ELSE 0)])
        /\ measured' = upTo
        /\ at' = IF upTo = SampleSize[measure] THEN "reset" ELSE "load"
        /\ measure' = IF upTo = SampleSize[measure] THEN measure + 1 ELSE measure
        /\ UNCHANGED <<dag, files>>

RemoveSample ==
    /\ at = "remove"
    /\ files' = files \ {SampleChunk}
    /\ at' = "ended"
    /\ UNCHANGED <<dag, staging, measure, measured, disturbed>>

\* Any statement may raise; the process ends and nothing it wrote is undone, not even
\* what there is of the sample.
BenchmarkFails ==
    /\ at # "ended"
    /\ at' = "ended"
    /\ measure' = Len(SampleSize) + 1
    /\ measured' = 0
    /\ \/ files' = files
       \/ at = "write" /\ files' = files \cup {SampleChunk}
    /\ UNCHANGED <<dag, staging, disturbed>>

Benchmark ==
    WriteSample \/ Reset \/ LoadSample \/ RemoveSample \/ BenchmarkFails

BenchmarkNext == Benchmark \/ (Next /\ UNCHANGED benchmark)

\* The scheduler starts what may start and what is running goes on: as long as the DAG
\* can take a step it takes one, if need be without an error.  The benchmark is started by
\* hand and need not.
DagFairness == WF_<<vars, benchmark>>(Work /\ UNCHANGED benchmark)

BenchmarkSpec ==
    BenchmarkInit /\ [][BenchmarkNext]_<<vars, benchmark>> /\ DagFairness

(***************************************************************************)
(* Properties                                                               *)
(***************************************************************************)

\* As long as the benchmark keeps away from the staging table between its TRUNCATE
\* and the end of load_fact, a load that validate_load accepts is exact: what
\* the benchmark did before, and where it failed, does not matter (README: the
\* staging table is "um heap exclusivo da carga").
ExactUnlessDisturbed == ~disturbed => ValidatedLoadIsExact

\* ... and only a retried chunk makes it refuse one.
RefusedForAReasonUnlessDisturbed == ~disturbed => RefusedOnlyAfterRetriedChunk
=============================================================================
