SPECIFICATION Spec
CONSTANTS
  u1 = u1
  MaxTurns = 2
  MaxPushes = 1
  Tail = 1
  Undoers = {u1}
  MaxFaults = 1
INVARIANTS UndoTypeOK  
CHECK_DEADLOCK FALSE
