\* A channel that closes once and is never reopened.
CONSTANTS
    w1 = w1
    w2 = w2
    Event = {1}
    Worker = {w1}
    BatchSize = 2
    MaxRetries = 2
    MaxStops = 0
    MaxFaults = 0
    Breaks = {"close"}
SPECIFICATION FairSpec
PROPERTY AtLeastOnce
CHECK_DEADLOCK FALSE
