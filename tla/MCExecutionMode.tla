--------------------------- MODULE MCExecutionMode ---------------------------
EXTENDS ExecutionMode, TLC

CONSTANTS a1, a2, w1, w2, j1

MCSymmetry == Permutations(Workers) \cup Permutations(Admins)
=============================================================================
