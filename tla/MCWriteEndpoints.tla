--------------------------- MODULE MCWriteEndpoints ---------------------------
\* A disposal, the retry of it, and a disposal of another key on the same row;
\* the row has enough for the disposal and its retry, so that only the key keeps
\* the second from taking effect, but not for both disposals.
EXTENDS WriteEndpoints, TLC

CONSTANTS d, dAgain, e, k1, k2, b

MCKeyOf == (d :> k1) @@ (dAgain :> k1) @@ (e :> k2)

MCBatchOf == [r \in Writes |-> b]

MCQuantity == (d :> 2) @@ (dAgain :> 2) @@ (e :> 9)

MCStock == [x \in Batches |-> 10]
=============================================================================
