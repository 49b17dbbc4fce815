----------------------- MODULE CoordinatorLeaseProofs -----------------------
(***************************************************************************)
(* Proofs about the leader election, for any number of coordinators, any   *)
(* TTL and any bound on the age of a clock reading.                        *)
(***************************************************************************)
EXTENDS CoordinatorLease, TLAPS

\* What the row operations return: a renewal keeps the epoch and the owner, a
\* takeover goes to the next epoch.
LEMMA RenewedRow ==
  ASSUME NEW age \in Ages, lease \in Rows(Procs, LeaseTTL)
  PROVE  LET row == Renewed(lease, LeaseTTL, age)
         IN  row \in Rows(Procs, LeaseTTL) /\ row.epoch = lease.epoch /\ row.owner = lease.owner
  BY MaxAgeAssumption, CoordinatorAssumption DEF Renewed, Rows, Ages, Expired

LEMMA TakenRow ==
  ASSUME NEW age \in Ages, NEW p \in Procs, lease \in Rows(Procs, LeaseTTL)
  PROVE  LET row == Taken(lease, p, LeaseTTL, age)
         IN  row \in Rows(Procs, LeaseTTL) /\ row.epoch = lease.epoch + 1 /\ row.owner = p
  BY MaxAgeAssumption, CoordinatorAssumption DEF Taken, Rows, Ages, Expired

\* acquire() by p leaves p the owner, at the old epoch only if it was the owner.
LEMMA AcquiredRow ==
  ASSUME NEW age \in Ages, NEW p \in Procs, lease \in Rows(Procs, LeaseTTL)
  PROVE  LET row == Acquired(lease, p, LeaseTTL, age)
         IN  /\ row \in Rows(Procs, LeaseTTL) /\ row.owner = p
             /\ \/ row.epoch = lease.epoch /\ lease.owner = p
                \/ row.epoch = lease.epoch + 1
<1>1. CASE HeldBy(lease, p, age)
  BY <1>1, RenewedRow DEF Acquired, HeldBy
<1>2. CASE ~HeldBy(lease, p, age)
  BY <1>2, TakenRow DEF Acquired
<1> QED BY <1>1, <1>2

\* A live lease, by any reading, has not run out for every reader.
LEMMA HeldIsNotExpired ==
  ASSUME NEW age \in Ages, NEW p \in Procs, lease \in Rows(Procs, LeaseTTL),
         HeldBy(lease, p, age)
  PROVE  lease.left > Expired
  BY MaxAgeAssumption DEF HeldBy, LiveFor, Ages, Expired, Rows

LEMMA AgedRow ==
  ASSUME lease \in Rows(Procs, LeaseTTL)
  PROVE  /\ [lease EXCEPT !.left = Aged(lease.left)] \in Rows(Procs, LeaseTTL)
         /\ Aged(lease.left) <= lease.left
  BY MaxAgeAssumption, CoordinatorAssumption DEF Aged, Rows, Expired
-----------------------------------------------------------------------------
\* acquire() and renew() leave a row a row, and a belief a natural number.
LEMMA LeaseTypeKept == LeaseTypeOK /\ [LeaseNext]_leaseVars => LeaseTypeOK'
<1> SUFFICES ASSUME LeaseTypeOK, [LeaseNext]_leaseVars PROVE LeaseTypeOK'
  OBVIOUS
<1> USE DEF LeaseTypeOK
<1>1. ASSUME NEW p \in Procs, NEW age \in Ages, NEW answered \in BOOLEAN,
             AcquireGranted(p, age, answered)
      PROVE  LeaseTypeOK'
  <2>1. lease' \in Rows(Procs, LeaseTTL)
    BY <1>1, AcquiredRow DEF AcquireGranted
  <2>2. lease'.epoch \in Nat
    BY <2>1 DEF Rows
  <2> QED BY <1>1, <2>1, <2>2 DEF AcquireGranted
<1>2. ASSUME NEW p \in Procs, NEW age \in Ages, NEW answered \in BOOLEAN,
             Renew(p, age, answered)
      PROVE  LeaseTypeOK'
  <2>1. lease' \in Rows(Procs, LeaseTTL)
    BY <1>2, RenewedRow DEF Renew
  <2>2. lease.epoch \in Nat
    BY DEF Rows
  <2> QED BY <1>2, <2>1, <2>2 DEF Renew
<1>3. ASSUME NEW p \in Procs, NEW age \in Ages,
             AcquireDenied(p, age) \/ RenewRefused(p, age) \/ StepDown(p, age)
      PROVE  LeaseTypeOK'
  <2>1. CASE AcquireDenied(p, age)
    BY <2>1 DEF AcquireDenied
  <2>2. CASE RenewRefused(p, age)
    BY <2>2 DEF RenewRefused
  <2>3. CASE StepDown(p, age)
    BY <2>3 DEF StepDown
  <2> QED BY <1>3, <2>1, <2>2, <2>3
<1>4. CASE LeaseTick
  BY <1>4, AgedRow DEF LeaseTick
<1>5. CASE UNCHANGED leaseVars
  BY <1>5 DEF leaseVars
<1>6. ASSUME NEW p \in Procs, Stop(p) PROVE LeaseTypeOK'
  BY <1>6 DEF Stop
<1> QED
  BY <1>1, <1>2, <1>3, <1>4, <1>5, <1>6 DEF LeaseNext, LeaseStep, Maintain

LEMMA InitialLease == LeaseInit => LeaseTypeOK
  BY MaxAgeAssumption, CoordinatorAssumption
  DEF LeaseInit, LeaseTypeOK, AbsentRow, Rows, Expired

\* The type invariant of the election, for every value of the constants.
THEOREM LeaseTypeCorrect == LeaseSpec => []LeaseTypeOK
  BY LeaseTypeKept, InitialLease, PTL DEF LeaseSpec
-----------------------------------------------------------------------------
\* Why two leaders never share an epoch: a belief never runs ahead of the row,
\* and whoever believes in the row's own epoch is the row's owner.  Only that
\* owner is ever given the row's epoch again, and a takeover gives one that
\* nobody has believed in.
Fenced ==
  \A p \in Procs :
    /\ belief[p] <= lease.epoch
    /\ belief[p] = lease.epoch /\ belief[p] # 0 => lease.owner = p

ElectionInv == LeaseTypeOK /\ Fenced /\ OneLeaderPerEpoch

\* A granted epoch, the old one to the old owner or the next one to anybody,
\* keeps the believers apart, whether p hears of it or not.
LEMMA GrantKeepsElection ==
  ASSUME ElectionInv, LeaseTypeOK', NEW p \in Procs, lease'.owner = p,
         \/ lease'.epoch = lease.epoch /\ lease.owner = p
         \/ lease'.epoch = lease.epoch + 1,
         belief' = belief \/ belief' = [belief EXCEPT ![p] = lease'.epoch]
  PROVE  ElectionInv'
<1> USE DEF ElectionInv
<1>0. /\ lease.epoch \in Nat /\ lease'.epoch \in Nat
      /\ \A q \in Procs : belief[q] \in Nat /\ belief[q] <= lease.epoch
  BY DEF LeaseTypeOK, Fenced, Rows
<1>1. \A q \in Procs \ {p} :
        belief'[q] = 0 \/ (belief'[q] = belief[q] /\ belief[q] # lease'.epoch)
  BY <1>0 DEF LeaseTypeOK, Fenced
<1>2. belief'[p] \in {belief[p], lease'.epoch}
  BY DEF LeaseTypeOK
<1>3. Fenced'
  BY <1>0, <1>1, <1>2 DEF Fenced
<1>4. OneLeaderPerEpoch'
  BY <1>0, <1>1, <1>2 DEF OneLeaderPerEpoch, LeaseTypeOK
<1> QED BY <1>3, <1>4

LEMMA ElectionKept == ElectionInv /\ [LeaseNext]_leaseVars => ElectionInv'
<1> SUFFICES ASSUME ElectionInv, LeaseTypeOK', [LeaseNext]_leaseVars
             PROVE  ElectionInv'
  BY LeaseTypeKept DEF ElectionInv
<1> USE DEF ElectionInv
<1>1. ASSUME NEW p \in Procs, NEW age \in Ages, NEW answered \in BOOLEAN,
             AcquireGranted(p, age, answered)
      PROVE  ElectionInv'
  BY <1>1, AcquiredRow, GrantKeepsElection DEF AcquireGranted, LeaseTypeOK
<1>2. ASSUME NEW p \in Procs, NEW age \in Ages, NEW answered \in BOOLEAN,
             Renew(p, age, answered)
      PROVE  ElectionInv'
  <2>1. lease'.epoch = lease.epoch /\ lease.owner = p /\ lease'.owner = p
    BY <1>2, RenewedRow DEF Renew, HeldBy, LeaseTypeOK
  <2> QED BY <1>2, <2>1, GrantKeepsElection DEF Renew
<1>3. ASSUME NEW p \in Procs,
             lease' = lease \/ lease' = [lease EXCEPT !.left = Aged(lease.left)],
             belief' = belief \/ belief' = [belief EXCEPT ![p] = 0]
      PROVE  ElectionInv'
  <2>1. lease'.epoch = lease.epoch /\ lease'.owner = lease.owner
    BY <1>3 DEF LeaseTypeOK, Rows
  <2>2. \A q \in Procs : belief'[q] \in {belief[q], 0}
    BY <1>3 DEF LeaseTypeOK
  <2>3. lease.epoch \in Nat
    BY DEF LeaseTypeOK, Rows
  <2> QED BY <2>1, <2>2, <2>3 DEF Fenced, OneLeaderPerEpoch
<1>4. ASSUME NEW p \in Procs, NEW age \in Ages,
             AcquireDenied(p, age) \/ RenewRefused(p, age) \/ StepDown(p, age)
      PROVE  ElectionInv'
  BY <1>3, <1>4 DEF AcquireDenied, RenewRefused, StepDown
<1>5. ASSUME NEW p \in Procs, Stop(p) PROVE ElectionInv'
  BY <1>3, <1>5 DEF Stop
<1>6. CASE LeaseTick
  <2>1. /\ lease'.epoch = lease.epoch /\ lease'.owner = lease.owner
        /\ belief' = belief
    BY <1>6 DEF LeaseTick, LeaseTypeOK, Rows
  <2> QED BY <2>1 DEF Fenced, OneLeaderPerEpoch
<1>7. CASE UNCHANGED leaseVars
  BY <1>7 DEF leaseVars, Fenced, OneLeaderPerEpoch
<1> QED
  BY <1>1, <1>2, <1>4, <1>5, <1>6, <1>7 DEF LeaseNext, LeaseStep, Maintain

LEMMA InitialElection == LeaseInit => ElectionInv
  BY InitialLease DEF LeaseInit, ElectionInv, Fenced, OneLeaderPerEpoch, AbsentRow

\* Leadership is exclusive per epoch: however late, stale or unanswered the
\* calls of the coordinators are, the fencing epoch names one of them.
THEOREM LeaderUnique == LeaseSpec => []OneLeaderPerEpoch
<1>1. ElectionInv => OneLeaderPerEpoch
  BY DEF ElectionInv
<1> QED
  BY <1>1, ElectionKept, InitialElection, PTL DEF LeaseSpec
-----------------------------------------------------------------------------
\* An expired epoch stays dead: a step that lengthens the lease keeps its owner
\* and finds it live by that owner's reading, or goes to a new epoch.
THEOREM ExpiredEpochStaysDead == LeaseSpec => NoRevival
<1>1. LeaseTypeOK /\ [LeaseNext]_leaseVars =>
        [ \/ lease'.left <= lease.left /\ lease'.owner = lease.owner
          \/ lease'.epoch > lease.epoch
          \/ lease.left > Expired /\ lease'.owner = lease.owner ]_leaseVars
  <2> SUFFICES ASSUME LeaseTypeOK, LeaseNext, lease' # lease
               PROVE  \/ lease'.left <= lease.left /\ lease'.owner = lease.owner
                      \/ lease'.epoch > lease.epoch
                      \/ lease.left > Expired /\ lease'.owner = lease.owner
    <3>1. lease \in Rows(Procs, LeaseTTL) => lease.left <= lease.left
      BY MaxAgeAssumption, CoordinatorAssumption DEF Rows, Expired
    <3> QED BY <3>1 DEF leaseVars, LeaseTypeOK
  <2>0. lease \in Rows(Procs, LeaseTTL)
    BY DEF LeaseTypeOK
  <2>1. ASSUME NEW p \in Procs, NEW age \in Ages, NEW answered \in BOOLEAN,
               AcquireGranted(p, age, answered)
        PROVE  \/ lease'.epoch > lease.epoch
               \/ lease.left > Expired /\ lease'.owner = lease.owner
    <3>1. CASE HeldBy(lease, p, age)
      BY <2>0, <2>1, <3>1, RenewedRow, HeldIsNotExpired DEF AcquireGranted, Acquired
    <3>2. CASE ~HeldBy(lease, p, age)
      <4>1. lease'.epoch = lease.epoch + 1
        BY <2>0, <2>1, <3>2, TakenRow DEF AcquireGranted, Acquired
      <4> QED BY <2>0, <4>1 DEF Rows
    <3> QED BY <3>1, <3>2
  <2>2. ASSUME NEW p \in Procs, NEW age \in Ages, NEW answered \in BOOLEAN,
               Renew(p, age, answered)
        PROVE  lease.left > Expired /\ lease'.owner = lease.owner
    BY <2>0, <2>2, RenewedRow, HeldIsNotExpired DEF Renew
  <2>3. CASE LeaseTick
    BY <2>0, <2>3, AgedRow DEF LeaseTick, Rows
  <2>4. ASSUME NEW p \in Procs, NEW age \in Ages,
               AcquireDenied(p, age) \/ RenewRefused(p, age) \/ StepDown(p, age)
        PROVE  lease' = lease
    BY <2>4 DEF AcquireDenied, RenewRefused, StepDown
  <2>5. ASSUME NEW p \in Procs, Stop(p) PROVE lease' = lease
    BY <2>5 DEF Stop
  <2> QED
    BY <2>1, <2>2, <2>3, <2>4, <2>5 DEF LeaseNext, LeaseStep, Maintain
<1> QED
  BY <1>1, LeaseTypeCorrect, PTL DEF LeaseSpec, NoRevival
=============================================================================
