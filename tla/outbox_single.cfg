\* One server process: graceful restarts, a crash or a failed UPDATE, and a
\* channel that may close.
CONSTANTS
    w1 = w1
    w2 = w2
    Event = {1, 2, 3}
    Worker = {w1}
    BatchSize = 2
    MaxRetries = 2
    MaxStops = 1
    MaxFaults = 1
    Breaks = {"close"}
SPECIFICATION FairSpec
INVARIANTS
    RetryBudget
    DeliveredOnce
PROPERTIES
    PublishedIsFinal
    Settles
    StopReturns
CHECK_DEADLOCK FALSE
