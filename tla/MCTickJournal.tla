---------------------------- MODULE MCTickJournal ----------------------------
EXTENDS TickJournal
CONSTANTS c1, c2, c3, a1, social
=============================================================================
