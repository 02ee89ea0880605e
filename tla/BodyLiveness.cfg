SPECIFICATION FairSpec
CONSTANTS
    w1 = w1
    w2 = w2
    Workers <- OneWorker
    MaxUID = 2
    Large <- First
    Solo <- NoUIDs
    BatchMax = 2
    MaxAttempts = 2
    RetryMax = 1
    Vanishing <- NoUIDs
    MaxReaps = 1
    MaxFaults = 2
PROPERTIES ParkedBesideLarge PassEnds Settles
