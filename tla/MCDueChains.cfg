SPECIFICATION LiveSpec
CONSTANTS
  Multiplier = 1
  Precise = {0}
  MaxFaults = 2
INVARIANTS ChainTypeOK  ForksExplained
PROPERTIES ChainResumes StoppedStops ForksHeal
