SPECIFICATION Spec
CONSTANTS
    None = None
    c1 = c1
    c2 = c2
    w1 = w1
    w2 = w2
    Contents <- TwoContents
    Untitled <- OneContent
    Workers <- TwoWorkers
    MaxUID = 2
    MaxEpoch = 2
    MaxRows = 4
    MaxFaults = 0
SYMMETRY WorkerSymmetry
INVARIANT Relinked
