SPECIFICATION LiveSpec
CONSTANTS
  d1 = d1
  d2 = d2
  Deliveries = {d1, d2}
  MaxFaults = 3
  MaxOthers = 1
INVARIANTS ExternalTypeOK OneExchange ReplyExplained
PROPERTIES OneOutcome Answered
CHECK_DEADLOCK FALSE
