SPECIFICATION FairSpec
CONSTANTS
    p1 = p1
    p2 = p2
    Processes = {p1, p2}
    BufferSize = 2
    MaxBatch = 2
    MaxLag = 2
    RequestSizes = {1, 2}
    Faults = {}
    MaxEvents = 3
    MaxProbes = 1
PROPERTIES
    OverloadEnds
