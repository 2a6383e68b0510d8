SPECIFICATION Spec
CONSTANTS
    d1 = d1  d2 = d2  g1 = g1  i1 = i1  u1 = u1  z1 = z1
    b1 = b1  b2 = b2
    Writes = {d1, d2, g1, i1, u1, z1}
    Batches = {b1, b2}
    Tracked = {b1}
    BatchOf <- MCBatchOf
    Disposals = {d1, d2, g1, u1, z1}
    Exempt = {g1}
    Quantity <- MCQuantity
    Stock <- MCStock
    CeilingPercent = 30
    NoWrite = NoWrite
INVARIANTS
    BalanceIsMovements
    ReadsAreCurrent
PROPERTIES
    CeilingHolds
CHECK_DEADLOCK FALSE
