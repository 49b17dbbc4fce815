SPECIFICATION LiveSpec
CONSTANTS
  t1 = t1
  t2 = t2
  r1 = r1
  w1 = w1
  Turns = {t1, t2}
  Replicas = {r1}
  HomeOf <- MCHomeOf
  Billed = {t1}
  Others = {w1}
  NoOwner = NoOwner
  MaxFaults = 1
INVARIANTS ChatTypeOK OneTurnAtATime DrainedIsIdle 
PROPERTIES DrainEnds ChargeCloses
CHECK_DEADLOCK FALSE
