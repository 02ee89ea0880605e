SPECIFICATION Spec
CONSTANTS
    None = None
    NoFlags = NoFlags
    m1 = m1
    seen = seen
    plain = plain
    s1 = s1
    s2 = s2
    r1 = r1
    r2 = r2
    Messages <- OneMessage
    FlagSets <- TwoFlagSets
    Unpushed <- NoMessages
    Sessions <- OneSession
    Replayers <- OneReplayer
    BatchLimit = 1
    MaxAttempts = 2
    CondStore = TRUE
    MaxStores = 3
    MaxFaults = 0
INVARIANTS LastChangeWins
CHECK_DEADLOCK FALSE
