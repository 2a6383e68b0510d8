SPECIFICATION Spec
CONSTANTS
    r1 = r1  r2 = r2
    Requests = {r1, r2}
    Workloads <- MCWorkloads
    Accounts <- MCAccounts
    Gone = Gone
    Claims <- MCOwner
    Configured <- MCClerk
    Expiry = 4
    Rotation <- MCRotation
    MaxAges = {0, 2}
    MaxAge = 2
    RefetchAfter = 1
    FetchTimeout = 1
    Window = 2
    Limit = 1
    Horizon = 4
    Nobody = Nobody
INVARIANT
    RefusalsAreReplies
CHECK_DEADLOCK FALSE
