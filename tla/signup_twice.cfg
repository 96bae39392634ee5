SPECIFICATION Spec
CONSTANTS
    r1 = r1
    r2 = r2
    r3 = r3
    mail = mail
    p = p
    q = q
    k = k
    default = default
    None = None
    Request <- Requests
    Email = {mail}
    Password = {p, q}
    ApiKey = {k}
    RoleOf <- MCRoleOf
    DefaultTenant = default
    TTL = 2
    Faults = {}
    Limit = 2
    Window = 2
    Skew = {0}
    Drift = 0
    Draw = {1}
    MaxClock = 1
INVARIANT EmailsAreUnique
CHECK_DEADLOCK FALSE
