SPECIFICATION Spec
CONSTANTS
    a = a
    b = b
    c = c
    d = d
    Row <- Rows
    Listing <- AllListings
    PageSize = 2
    Lead = 1
    MaxClock = 2
SYMMETRY Alike
INVARIANTS
    TransactionsSkipOnlyTies
    PostingsShiftOnly
PROPERTY
    AccountsShownOnce
CHECK_DEADLOCK FALSE
