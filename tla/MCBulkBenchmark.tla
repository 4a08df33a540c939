--------------------------- MODULE MCBulkBenchmark ---------------------------
(* The historical load and the benchmark for TLC: four rows in two full chunks, *)
(* or in a chunk of three, which takes two batches, and one that is not full.   *)
EXTENDS BulkBenchmark
=============================================================================
