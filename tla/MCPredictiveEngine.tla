-------------------------- MODULE MCPredictiveEngine --------------------------
\* Two overlapping analyses of an alert, and publications between their reads.
\* Only the first day has sales, so that a series which lacks it, or is shifted
\* by a day, gives another forecast.
EXTENDS PredictiveEngine, TLC

CONSTANTS chat, trigger

MCSales == <<6, 0, 0>>
Overlapping == Permutations(Runs)
=============================================================================
