---------------------------- MODULE MCIdempotency ----------------------------
\* Three calls that all compete for one key; keys share nothing.
EXTENDS Idempotency

CONSTANTS r1, r2, r3, k

MCKeyOf == [r \in Requests |-> k]
=============================================================================
