SPECIFICATION FairSpec
CONSTANTS
    None = None
    NoFlags = NoFlags
    m1 = m1
    seen = seen
    plain = plain
    s1 = s1
    s2 = s2
    r1 = r1
    r2 = r2
    Messages <- OneMessage
    FlagSets <- TwoFlagSets
    Unpushed <- NoMessages
    Sessions <- OneSession
    Replayers <- TwoReplayers
    BatchLimit = 2
    MaxAttempts = 2
    CondStore = TRUE
    MaxStores = 2
    MaxFaults = 2
INVARIANTS SoleChangeWins
PROPERTIES Drains Agree
CHECK_DEADLOCK FALSE
