--------------------------- MODULE MCExternalTurn ---------------------------
EXTENDS ExternalTurn

CONSTANTS d1, d2
=============================================================================
