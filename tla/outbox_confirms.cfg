\* A connection that closes under published messages.
CONSTANTS
    w1 = w1
    w2 = w2
    Event = {1}
    Worker = {w1}
    BatchSize = 2
    MaxRetries = 2
    MaxStops = 0
    MaxFaults = 0
    Breaks = {"close"}
SPECIFICATION Spec
INVARIANT NoSilentLoss
CHECK_DEADLOCK FALSE
