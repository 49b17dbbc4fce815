----------------------------- MODULE MCChatTurns -----------------------------
EXTENDS ChatTurns, TLC

CONSTANTS t1, t2, r1, w1

MCHomeOf == [t \in Turns |-> r1]
=============================================================================
