----------------------------- MODULE MCPostTurn -----------------------------
EXTENDS PostTurn

\* The code's own number of tries.
MCTries == 3
=============================================================================
