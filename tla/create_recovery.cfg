\* Requests cut short by crashes and cancellations; Redis and PostgreSQL up.
CONSTANTS
    r1 = r1
    r2 = r2
    r3 = r3
    k1 = k1
    k2 = k2
    good = good
    unbalanced = unbalanced
    orphan = orphan
    overflow = overflow
    None = None
    Request = {r1, r2}
    Key = {k1, k2}
    Body = {good, unbalanced, orphan, overflow}
    Balanced = {good, orphan, overflow}
    Known = {good, overflow}
    Bookable = {good}
    LockRetries = 2
    Faults = {"crash", "cancel"}
SPECIFICATION FairSpec
INVARIANTS
    MutualExclusion
    ErrorsHaveACause
    NoLockLeftBehind
PROPERTIES
    Terminates
    LocksAreFreed
    ImplementsPromise
CHECK_DEADLOCK FALSE
