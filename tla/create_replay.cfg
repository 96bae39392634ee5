\* A request repeated after a crash between COMMIT and the cache write.
CONSTANTS
    r1 = r1
    r2 = r2
    r3 = r3
    k1 = k1
    k2 = k2
    good = good
    unbalanced = unbalanced
    orphan = orphan
    overflow = overflow
    None = None
    Request = {r1, r2}
    Key = {k1}
    Body = {good}
    Balanced = {good}
    Known = {good}
    Bookable = {good}
    LockRetries = 1
    Faults = {"crash"}
SPECIFICATION Spec
INVARIANT ReplayReturnsOriginal
CHECK_DEADLOCK FALSE
