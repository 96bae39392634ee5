SPECIFICATION Spec
CONSTANTS
    t1 = t1
    t2 = t2
    n1 = n1
    n2 = n2
    Tenant <- MCTenant
    Name <- MCName
    Request <- MCRequest
    MaxInt = 3
    MaxPostings = 4
    MaxAccounts = 3
    MaxTransactions = 2
SYMMETRY Alike
INVARIANTS
    TypeOK
    EveryTransactionBalances
    OwnBooksBalance
PROPERTY TenantIsolation
