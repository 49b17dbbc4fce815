SPECIFICATION LiveSpec
CONSTANTS
  c1 = c1
  c2 = c2
  c3 = c3
  a1 = a1
  social = social
  Procs = {c1, c2}
  NoOwner = NoOwner
  MaxAge = 1
  LeaseTTL = 2
  MaxEpoch = 2
  Characters = {a1}
  Social = social
  MaxBucket = 2
INVARIANTS MirrorTypeOK OneLeaderPerEpoch MirroredInOrder
PROPERTIES NoRevival LeadershipRecovers
