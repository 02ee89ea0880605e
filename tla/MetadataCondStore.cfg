SPECIFICATION Spec
CONSTANTS
    CondStore = TRUE
    ExpungeBumps <- BumpEither
    ChunkSize = 1
    MaxUID = 2
    MaxModSeq = 4
    MaxValidity = 2
    MaxFaults = 2
INVARIANT NoMissedMessage
PROPERTIES ImplementsFeed FlagsSurvive EpochsStaySeparate NeverDropsLive
