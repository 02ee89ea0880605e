SPECIFICATION Spec
CONSTANTS
    CondStore = TRUE
    ExpungeBumps <- BumpEither
    ChunkSize = 1
    MaxUID = 2
    MaxModSeq = 3
    MaxValidity = 1
    MaxFaults = 1
INVARIANTS FlagsCovered
