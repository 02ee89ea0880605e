SPECIFICATION Spec
CONSTANTS
    w1 = w1
    w2 = w2
    Workers <- TwoWorkers
    MaxUID = 2
    Large <- NoUIDs
    Solo <- NoUIDs
    BatchMax = 1
    MaxAttempts = 2
    RetryMax = 2
    Vanishing <- NoUIDs
    MaxReaps = 1
    MaxFaults = 2
INVARIANTS NeverDeserted
