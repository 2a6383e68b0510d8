--------------------------- MODULE MCInventoryWrites ---------------------------
\* On row b1: two staff disposals within the ceiling of the initial stock but
\* not of what the other leaves, one of a manager that leaves less than either
\* asks for, and a receipt.  Beside them a call for a row that does not exist
\* and one without a quantity.
EXTENDS InventoryWrites, TLC

CONSTANTS d1, d2, g1, i1, u1, z1, b1, b2

MCBatchOf == [w \in Writes |-> IF w = u1 THEN b2 ELSE b1]

MCQuantity ==
    (d1 :> 3) @@ (d2 :> 3) @@ (g1 :> 8) @@ (i1 :> 4) @@ (u1 :> 1) @@ (z1 :> 0)

MCStock == (b1 :> 10) @@ (b2 :> 0)
=============================================================================
