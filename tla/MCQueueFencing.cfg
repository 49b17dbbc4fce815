SPECIFICATION Spec
CONSTANTS
  c1 = c1
  c2 = c2
  w1 = w1
  w2 = w2
  j1 = j1
  j2 = j2
  j3 = j3
  t1 = t1
  Procs = {c1}
  NoOwner = NoOwner
  MaxAge = 1
  LeaseTTL = 0
  MaxEpoch = 2
  Jobs = {j1, j2}
  KeyOf <- MCOneKey
  TenantOf <- MCNoTenants
  NoTenant = NoTenant
  Priority <- MCTwoPriorities
  Capped = {}
  Cap = 1
  MaxAttempts = 2
  Workers = {w1}
  JobTTL = 1
  ClaimLimit = 1
  Concurrency = 1
  RetryDelay = 0
  MaxWait = 1
INVARIANTS UniqueActive AttemptBudget
PROPERTIES InsertsFenced NoSilentRevival
