SPECIFICATION FairRoutes
CONSTANTS
    d = d  dAgain = dAgain  e = e
    k1 = k1  k2 = k2  b = b
    Writes = {d, dAgain, e}
    Keys = {k1, k2}
    KeyOf <- MCKeyOf
    NoWrite = NoWrite
    Batches = {b}
    Tracked = {b}
    BatchOf <- MCBatchOf
    Disposals = {d, dAgain, e}
    Exempt = {e}
    Quantity <- MCQuantity
    Stock <- MCStock
    CeilingPercent = 30
INVARIANTS
    KeyMovesStockOnce
    ReplyMatchesStock
PROPERTIES
    RepliesArrive
    RunsIdempotent
CHECK_DEADLOCK FALSE
