------------------------------ MODULE MCSessions ------------------------------
\* Two turns of one user and one of another user, all in the same session, and
\* a clock that can pass the inactivity limit twice.
EXTENDS Sessions, TLC

CONSTANTS t1, t2, t3, ana, rui, s

MCSessionOf == [t \in Turns |-> s]

MCUserOf == [t \in Turns |-> IF t = t3 THEN rui ELSE ana]
=============================================================================
