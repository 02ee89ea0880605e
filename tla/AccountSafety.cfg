SPECIFICATION Spec
CONSTANTS
    NoRunner = NoRunner
    p1 = p1
    p2 = p2
    r1 = r1
    r2 = r2
    inbox = inbox
    parent = parent
    Processes <- TwoProcesses
    Runners <- TwoRunners
    ProcessOf <- OneEach
    Mailboxes <- TwoMailboxes
    Unselectable <- OnlyParent
    MaxMisses = 1
    MaxRequests = 2
    MaxFaults = 2
SYMMETRY PairSymmetry
INVARIANTS OneRun QuietAfterRejection
PROPERTIES DropsOnlyDeleted GreenMeansWork
CHECK_DEADLOCK FALSE
