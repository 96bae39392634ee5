SPECIFICATION Spec
CONSTANTS
    r1 = r1
    r2 = r2
    t1 = t1
    t2 = t2
    x = x
    None = None
    Request = {r1, r2}
    Transaction = {x}
    Tenant = {t1, t2}
    Owner <- MCOwner
    Faults = {"db", "storage"}
    Budget = 3
    Timeout = 3
INVARIANTS
    TypeOK
    ListedDocumentsExist
    AnswersHold
    ShutdownIsGraceful
PROPERTY SignalEnds
CHECK_DEADLOCK FALSE
