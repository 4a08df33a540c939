SPECIFICATION BenchmarkSpec
CONSTANTS
    RowCounts = {4}
    ChunkSizes = {2, 3}
    MaxRows = 4
    LoadBatch = 2
    MaxParallel = 2
    Retries = 1
    MaxErrors = 2
    SampleFast = 1
    SampleRow = 1
INVARIANTS
    TypeOK
    UidsUniqueForWholeChunks
    ExactUnlessDisturbed
    RefusedForAReasonUnlessDisturbed
    OrphanOnlyOfFailedChunk
PROPERTIES
    EventuallyEnded
CHECK_DEADLOCK FALSE
