----------------------------- MODULE MCJobQueue -----------------------------
EXTENDS JobQueue, TLC

CONSTANTS c1, c2, w1, w2, j1, j2, j3, t1

MCOneKey == (j1 :> "k1") @@ (j2 :> "k1")
MCTwoKeys == (j1 :> "k1") @@ (j2 :> "k2")
MCNoTenants == (j1 :> NoTenant) @@ (j2 :> NoTenant)
MCTwoPriorities == (j1 :> 1) @@ (j2 :> 2)

MCSymmetry == Permutations(Workers)
=============================================================================
