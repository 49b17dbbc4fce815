SPECIFICATION ModeLiveSpec
CONSTANTS
  a1 = a1
  a2 = a2
  w1 = w1
  w2 = w2
  j1 = j1
  Admins = {a1}
  Clis = {}
  Workers = {w1}
  Jobs = {j1}
  MaxFlips = 3
  CrashesAt = {}
PROPERTIES PausedIsLeft
