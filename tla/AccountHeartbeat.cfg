SPECIFICATION Spec
CONSTANTS
    NoRunner = NoRunner
    p1 = p1
    p2 = p2
    r1 = r1
    r2 = r2
    inbox = inbox
    parent = parent
    Processes <- OneProcess
    Runners <- OneRunner
    ProcessOf <- OnlyOne
    Mailboxes <- TwoMailboxes
    Unselectable <- OnlyParent
    MaxMisses = 3
    MaxRequests = 2
    MaxFaults = 0
INVARIANTS HeartbeatOnLock
CHECK_DEADLOCK FALSE
