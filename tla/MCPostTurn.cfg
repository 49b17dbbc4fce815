SPECIFICATION TurnLiveSpec
CONSTANTS
  MaxTries <- MCTries
  MaxAttempts = 2
  MaxEpoch = 3
INVARIANTS TurnTypeOK FallbackExplained 
PROPERTIES NeverSilentlyDropped
CHECK_DEADLOCK FALSE
