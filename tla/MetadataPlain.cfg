SPECIFICATION FairSpec
CONSTANTS
    CondStore = FALSE
    ExpungeBumps <- BumpEither
    ChunkSize = 2
    MaxUID = 2
    MaxModSeq = 3
    MaxValidity = 2
    MaxFaults = 1
PROPERTIES Converges
