SPECIFICATION Spec
CONSTANTS
    w1 = w1
    w2 = w2
    Workers <- TwoWorkers
    MaxUID = 2
    Large <- First
    Solo <- NoUIDs
    BatchMax = 1
    MaxAttempts = 2
    RetryMax = 2
    Vanishing <- Second
    MaxReaps = 1
    MaxFaults = 1
SYMMETRY WorkerSymmetry
INVARIANTS OneHolder NothingMissed
PROPERTIES SettledIsFinal ImplementsQueue WithinFeed
