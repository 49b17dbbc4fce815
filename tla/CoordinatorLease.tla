-------------------------- MODULE CoordinatorLease --------------------------
(***************************************************************************)
(* The leader election of the background coordinator: every process that   *)
(* runs the coordinator loop keeps `self._epoch' (here belief), maintains  *)
(* the lease row once per pass, and checks it again around every enqueue.  *)
(***************************************************************************)
EXTENDS RuntimeLease

CONSTANTS Procs,     \* owner ids of the coordinator processes
          LeaseTTL,  \* _LEASE_TTL_SECONDS, in ticks
          MaxEpoch   \* bound on the takeovers of a run

ASSUME CoordinatorAssumption ==
  /\ NoOwner \notin Procs
  /\ LeaseTTL \in Nat
  /\ MaxEpoch \in Nat

VARIABLES lease,   \* the background-coordinator row
          belief,  \* belief[p]: the epoch p holds itself leader of, 0 for None
          losing   \* losing[p]: p's renewal was refused, acquire() is awaited

leaseVars == <<lease, belief, losing>>

\* The row names an owner exactly as acquire() and renew() can write it, with no
\* more than one TTL left, and each process believes in some epoch or in 0.
LeaseTypeOK ==
  /\ lease \in Rows(Procs, LeaseTTL)
  /\ belief \in [Procs -> Nat]
  /\ losing \in [Procs -> BOOLEAN]

LeaseInit ==
  /\ lease = AbsentRow
  /\ belief = [p \in Procs |-> 0]
  /\ losing = [p \in Procs |-> FALSE]

\* acquire(), when p is passive or its renewal has just been refused.  When
\* answered is FALSE the transaction commits and its reply is lost: the pass
\* ends with an exception and belief stays what it was.
AcquireGranted(p, age, answered) ==
  /\ belief[p] = 0 \/ losing[p]
  /\ Acquirable(lease, p, age)
  /\ HeldBy(lease, p, age) \/ lease.epoch < MaxEpoch
  /\ lease' = Acquired(lease, p, LeaseTTL, age)
  /\ belief' = IF answered THEN [belief EXCEPT ![p] = lease'.epoch] ELSE belief
  /\ losing' = [losing EXCEPT ![p] = FALSE]

AcquireDenied(p, age) ==
  /\ belief[p] = 0 \/ losing[p]
  /\ ~Acquirable(lease, p, age)
  /\ belief' = [belief EXCEPT ![p] = 0]
  /\ losing' = [losing EXCEPT ![p] = FALSE]
  /\ UNCHANGED lease

\* renew(), at the head of a pass of the leader.
Renew(p, age, answered) ==
  /\ belief[p] # 0 /\ ~losing[p]
  /\ HeldBy(lease, p, age)
  /\ lease' = Renewed(lease, LeaseTTL, age)
  /\ belief' = IF answered THEN [belief EXCEPT ![p] = lease.epoch] ELSE belief
  /\ UNCHANGED losing

RenewRefused(p, age) ==
  /\ belief[p] # 0 /\ ~losing[p]
  /\ ~HeldBy(lease, p, age)
  /\ losing' = [losing EXCEPT ![p] = TRUE]
  /\ UNCHANGED <<lease, belief>>

\* The heartbeat and the check that follow each enqueue of a batch: a leader
\* that finds the row no longer its own at its epoch drops to passive, and
\* tries to come back only at its next pass.
StepDown(p, age) ==
  /\ belief[p] # 0 /\ ~losing[p]
  /\ ~HeldBy(lease, p, age) \/ lease.epoch # belief[p]
  /\ belief' = [belief EXCEPT ![p] = 0]
  /\ UNCHANGED <<lease, losing>>

\* stop(), or the death of the process: the row is not released.
Stop(p) ==
  /\ belief' = [belief EXCEPT ![p] = 0]
  /\ losing' = [losing EXCEPT ![p] = FALSE]
  /\ UNCHANGED lease

LeaseTick ==
  /\ lease' = [lease EXCEPT !.left = Aged(lease.left)]
  /\ UNCHANGED <<belief, losing>>

Maintain(p) ==
  \E age \in Ages :
    \/ \E answered \in BOOLEAN : AcquireGranted(p, age, answered) \/ Renew(p, age, answered)
    \/ AcquireDenied(p, age)
    \/ RenewRefused(p, age)

LeaseStep == \E p \in Procs : Maintain(p) \/ Stop(p) \/ \E age \in Ages : StepDown(p, age)

LeaseNext == LeaseStep \/ LeaseTick

LeaseSpec == LeaseInit /\ [][LeaseNext]_leaseVars
-----------------------------------------------------------------------------
\* Two processes never hold themselves leader of the same epoch, however old
\* their clock readings are and whatever replies were lost: the epoch an
\* enqueue carries names one leader.
OneLeaderPerEpoch ==
  \A p, q \in Procs : belief[p] = belief[q] /\ belief[p] # 0 => p = q

\* A lease that has run out for every reader is never brought back to life
\* under its old epoch, not even by its old owner, and nobody gets somebody
\* else's lease under the epoch that other held: the predecessor is fenced.
NoRevival ==
  [][ \/ lease'.left <= lease.left /\ lease'.owner = lease.owner
      \/ lease'.epoch > lease.epoch
      \/ lease.left > Expired /\ lease'.owner = lease.owner ]_leaseVars

\* After the lease has run out some process becomes its leader again, unless
\* the bound on takeovers is reached.
Leader(p) == belief[p] # 0 /\ belief[p] = lease.epoch /\ lease.left >= 0

LeadershipRecovers ==
  lease.left = Expired ~> ((\E p \in Procs : Leader(p)) \/ lease.epoch = MaxEpoch)
=============================================================================
