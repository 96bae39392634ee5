\* Three requests on two keys, every fault of the environment.
CONSTANTS
    r1 = r1
    r2 = r2
    r3 = r3
    k1 = k1
    k2 = k2
    good = good
    unbalanced = unbalanced
    orphan = orphan
    overflow = overflow
    None = None
    Request = {r1, r2, r3}
    Key = {k1, k2}
    Body = {good, unbalanced}
    Balanced = {good}
    Known = {good}
    Bookable = {good}
    LockRetries = 1
    Faults = {"crash", "cancel", "redis", "evict", "db", "reply", "lease"}
SPECIFICATION Spec
SYMMETRY Interchangeable
INVARIANTS
    TypeOK
    OneTransactionPerKey
    BooksAreWhole
    AnswersAgree
    CacheFaithful
CHECK_DEADLOCK FALSE
