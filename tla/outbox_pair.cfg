\* Two server processes share the outbox; everything may break.
CONSTANTS
    w1 = w1
    w2 = w2
    Event = {1, 2}
    Worker = {w1, w2}
    BatchSize = 2
    MaxRetries = 2
    MaxStops = 1
    MaxFaults = 2
    Breaks = {"close", "unroutable"}
SPECIFICATION Spec
SYMMETRY Alike
INVARIANTS
    TypeOK
    PublishedWasSent
    FailedAfterRetries
    RetriesAreErrors
PROPERTY SettledStays
CHECK_DEADLOCK FALSE
