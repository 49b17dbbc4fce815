---------------------------- MODULE MCDueChains ----------------------------
EXTENDS DueChains

=============================================================================
