-------------------------- MODULE TickJournalProofs --------------------------
(***************************************************************************)
(* Proofs about the mirror of the shadow soak, for any number of            *)
(* coordinators, characters and buckets and any TTL and age of a clock       *)
(* reading: its passes run a coordinator's election, and what counts as      *)
(* mirrored is in the queue.                                                *)
(***************************************************************************)
EXTENDS TickJournal, CoordinatorLeaseProofs, WellFoundedInduction

\* The journal has no row of a bucket to come.
JournalBound == \A r \in journal : r.bucket <= bucket

\* A row with an owner has been acquired, and epochs start with 1.
OwnedRow == lease.owner # NoOwner => lease.epoch # 0

\* The pass of p has read its bucket.
InPass(p) == mirror[p].at \in {"row", "check"}

\* Each row of the bucket that was read is queued or still to come; it had its
\* marker, so that a row which came since is late.
Handled(p) ==
  \A r \in journal :
    r.bucket = mirror[p].bucket => r \in queued \cup late \/ r.who \in mirror[p].rest

\* No reading of the lease that p may still make finds it the leader.
Ousted(p) == lease.epoch # belief[p] \/ lease.left + mirror[p].read < 0

\* A pass may have lost a row to a refused insert only as long as it has not looked
\* at the lease again, and then it will not find itself the leader.
PassSound(p) ==
  InPass(p) =>
    /\ mirror[p].bucket \in 1..bucket /\ Marked(mirror[p].bucket)
    /\ \A who \in mirror[p].rest : Row(mirror[p].bucket, who) \in journal
    /\ \A b \in 1..(mirror[p].bucket - 1) : Mirrored(b)
    /\ Handled(p) \/ (mirror[p].at = "check" /\ Ousted(p))

MirrorInv ==
  /\ MirrorTypeOK /\ ElectionInv /\ OwnedRow
  /\ JournalBound
  /\ cursor = 0 \/ Marked(cursor)
  /\ MirroredInOrder
  /\ \A p \in Procs : PassSound(p)
-----------------------------------------------------------------------------
\* A non-empty set of natural numbers has a least element, which is its minimum.
LEMMA LeastElement ==
  ASSUME NEW S, S \subseteq Nat, S # {}
  PROVE  \E n \in S : \A m \in S : n <= m
<1> DEFINE R == OpToRel(<, Nat)
<1>1. IsWellFoundedOn(R, Nat)
  BY NatLessThanWellFounded
<1>3. \A m, n \in Nat : m < n => <<m, n>> \in R
  BY DEF OpToRel
<1> HIDE DEF R
<1>2. \E n \in S : \A m \in S : <<m, n>> \notin R
  BY <1>1, WFMin
<1>4. \A m, n \in S : <<m, n>> \notin R => ~(m < n)
  <2>1. \A n \in S : n \in Nat
    OBVIOUS
  <2> QED BY <1>3, <2>1, Zenon
<1>5. PICK n \in S : \A m \in S : <<m, n>> \notin R
  BY <1>2
<1>6. \A m \in S : ~(m < n)
  BY <1>4, <1>5, Zenon
<1> QED BY <1>6

LEMMA Minimum ==
  ASSUME NEW S, S \subseteq Nat, S # {}
  PROVE  Min(S) \in S /\ \A m \in S : Min(S) <= m
  BY LeastElement DEF Min

LEMMA TwoNumbers ==
  ASSUME NEW a \in Int, NEW b \in Int
  PROVE  /\ Max({a, b}) = IF a >= b THEN a ELSE b
         /\ Min({a, b}) = IF a <= b THEN a ELSE b
<1>1. Max({a, b}) = IF a >= b THEN a ELSE b
  BY DEF Max
<1>2. Min({a, b}) = IF a <= b THEN a ELSE b
  BY DEF Min
<1> QED BY <1>1, <1>2
-----------------------------------------------------------------------------
\* What every step does to the journal and the queue: they only grow, and a new
\* journal row is one of the present bucket, a late one if that has its marker.
Grows ==
  /\ journal \subseteq journal' /\ late \subseteq late' /\ queued \subseteq queued'
  /\ bucket <= bucket'
  /\ \A r \in journal' \ journal : r.bucket = bucket /\ (Marked(bucket) => r \in late')

LEMMA MirrorLasts ==
  ASSUME Grows, bucket \in Nat, NEW b \in Nat, Mirrored(b), b < bucket \/ Marked(b)
  PROVE  Mirrored(b)'
<1> SUFFICES ASSUME NEW r \in journal', r.bucket = b
             PROVE  r \in queued' \cup late'
  BY DEF Mirrored
<1>1. CASE r \in journal
  BY <1>1 DEF Mirrored, Grows
<1>2. CASE r \notin journal
  <2>1. b = bucket /\ (Marked(bucket) => r \in late')
    BY <1>2 DEF Grows
  <2> QED BY <2>1
<1> QED BY <1>1, <1>2

\* A marker stays.
LEMMA MarkerStays ==
  ASSUME Grows, NEW b, Marked(b)
  PROVE  Marked(b)'
  BY DEF Grows, Marked

\* What was mirrored in order stays so when the cursor and the queue stay put.
LEMMA OrderLasts ==
  ASSUME MirrorInv, Grows, UNCHANGED <<queued, cursor>>
  PROVE  MirroredInOrder' /\ (cursor = 0 \/ Marked(cursor))'
<1>0. /\ bucket \in Nat /\ cursor \in 0..bucket
      /\ \A r \in queued : r.bucket \in Nat /\ r.bucket <= bucket
  BY JournalAssumption DEF MirrorInv, MirrorTypeOK, JournalBound, JournalRows
<1>1. \A b \in 1..cursor : Mirrored(b)'
  <2> TAKE b \in 1..cursor
  <2>1. b \in Nat /\ Mirrored(b) /\ (b < bucket \/ Marked(b))
    BY <1>0 DEF MirrorInv, MirroredInOrder
  <2> QED BY <1>0, <2>1, MirrorLasts
<1>2. \A r \in queued : \A b \in 1..(r.bucket - 1) : Mirrored(b)'
  <2> TAKE r \in queued
  <2> TAKE b \in 1..(r.bucket - 1)
  <2>1. b \in Nat /\ Mirrored(b) /\ b < bucket
    BY <1>0 DEF MirrorInv, MirroredInOrder
  <2> QED BY <1>0, <2>1, MirrorLasts
<1>3. cursor = 0 \/ Marked(cursor)'
  BY MarkerStays DEF MirrorInv
<1> QED BY <1>1, <1>2, <1>3 DEF MirroredInOrder

\* A pass that does not move stays sound, if a lease it could not find its own
\* stays so.
LEMMA PassLasts ==
  ASSUME MirrorInv, Grows, bucket' \in Nat, NEW p \in Procs,
         mirror'[p].at = mirror[p].at, mirror'[p].bucket = mirror[p].bucket,
         mirror'[p].rest = mirror[p].rest,
         mirror[p].at = "check" /\ Ousted(p) => Ousted(p)'
  PROVE  PassSound(p)'
<1> SUFFICES ASSUME InPass(p), PassSound(p) PROVE PassSound(p)'
  BY DEF MirrorInv, PassSound, InPass
<1>0. /\ bucket \in Nat /\ bucket' >= bucket /\ mirror[p].bucket \in 1..bucket
      /\ Marked(mirror[p].bucket)
  BY JournalAssumption DEF MirrorInv, MirrorTypeOK, PassSound, Grows
<1>1. Marked(mirror[p].bucket)'
  BY <1>0, MarkerStays DEF Marked, Grows
<1>2. \A who \in mirror[p].rest : Row(mirror[p].bucket, who) \in journal'
  BY DEF PassSound, Grows
<1>3. \A b \in 1..(mirror[p].bucket - 1) : Mirrored(b)'
  <2> TAKE b \in 1..(mirror[p].bucket - 1)
  <2>1. b \in Nat /\ b < bucket /\ Mirrored(b)
    BY <1>0 DEF PassSound
  <2> QED BY <1>0, <2>1, MirrorLasts
<1>4. ASSUME Handled(p) PROVE Handled(p)'
  <2> SUFFICES ASSUME NEW r \in journal', r.bucket = mirror[p].bucket
               PROVE  r \in queued' \cup late' \/ r.who \in mirror[p].rest
    BY DEF Handled
  <2>1. CASE r \in journal
    BY <1>4, <2>1 DEF Handled, Grows
  <2>2. CASE r \notin journal
    BY <1>0, <2>2 DEF Grows
  <2> QED BY <2>1, <2>2
<1>5. (Handled(p) \/ (mirror[p].at = "check" /\ Ousted(p)))'
  BY <1>4 DEF PassSound
<1>6. (mirror[p].bucket \in 1..bucket)'
  BY <1>0
<1> QED BY <1>1, <1>2, <1>3, <1>5, <1>6 DEF PassSound, Marked

\* A lease that a pass could not find its own stays so when another process is
\* given it, or time passes.
LEMMA OustedStays ==
  ASSUME MirrorInv, LeaseTypeOK', NEW p \in Procs, NEW q \in Procs \ {p},
         mirror[p].at = "check", Ousted(p),
         mirror'[p] = mirror[p], belief'[p] = belief[p],
         \/ lease'.epoch = lease.epoch /\ (lease'.left = lease.left \/ lease.owner = q)
         \/ lease'.epoch = lease.epoch + 1
  PROVE  Ousted(p)'
<1>0. /\ lease.epoch \in Nat /\ lease'.epoch \in Nat /\ belief[p] \in Nat /\ belief[p] # 0
      /\ belief[p] <= lease.epoch
      /\ belief[p] = lease.epoch => lease.owner = p
  BY DEF MirrorInv, MirrorTypeOK, ElectionInv, Fenced, LeaseTypeOK, Rows
<1>1. CASE lease'.epoch = lease.epoch + 1
  BY <1>0, <1>1 DEF Ousted
<1>2. CASE lease'.epoch = lease.epoch /\ lease.owner = q
  BY <1>0, <1>2 DEF Ousted
<1>3. CASE lease'.epoch = lease.epoch /\ lease'.left = lease.left
  BY <1>3 DEF Ousted
<1> QED BY <1>1, <1>2, <1>3
-----------------------------------------------------------------------------
(* Every step is one of the election *)

LEMMA StepIsElection == MirrorTypeOK /\ [Next]_vars => [LeaseNext]_leaseVars
<1> SUFFICES ASSUME MirrorTypeOK, [Next]_vars PROVE [LeaseNext]_leaseVars
  OBVIOUS
<1> USE DEF LeaseNext, LeaseStep
<1>1. ASSUME NEW p \in Procs, NEW age \in Ages, NEW answered \in BOOLEAN,
             Upkeep(p, age, answered)
      PROVE  LeaseNext
  BY <1>1 DEF Upkeep, Maintain
<1>2. ASSUME NEW p \in Procs, Pass(p) PROVE [LeaseNext]_leaseVars
  <2>1. CASE MirrorReads(p) \/ PassEnds(p)
    BY <2>1 DEF MirrorReads, PassEnds
  <2>2. ASSUME NEW age \in 0..mirror[p].read,
               \/ Heartbeat(p, age)
               \/ \E who \in mirror[p].rest : EnqueueRow(p, who, age)
               \/ StillLeads(p, age) \/ Advance(p, age) \/ LosesLease(p, age)
        PROVE  [LeaseNext]_leaseVars
    <3>0. age \in Ages
      BY MaxAgeAssumption DEF MirrorTypeOK, Passes, Ages
    <3>1. CASE Heartbeat(p, age)
      BY <3>0, <3>1 DEF Heartbeat, Maintain
    <3>2. CASE LosesLease(p, age)
      BY <3>0, <3>2 DEF LosesLease
    <3>3. CASE \E who \in mirror[p].rest : EnqueueRow(p, who, age)
      BY <3>3 DEF EnqueueRow
    <3>4. CASE StillLeads(p, age) \/ Advance(p, age)
      BY <3>4 DEF StillLeads, Advance
    <3> QED BY <2>2, <3>1, <3>2, <3>3, <3>4
  <2> QED BY <1>2, <2>1, <2>2 DEF Pass
<1>3. ASSUME NEW p \in Procs, Stops(p) PROVE LeaseNext
  BY <1>3 DEF Stops
<1>4. CASE Time
  BY <1>4 DEF Time
<1>5. ASSUME NEW characters \in SUBSET Characters, NEW marks \in BOOLEAN,
             Record(characters, marks)
      PROVE  UNCHANGED leaseVars
  BY <1>5 DEF Record
<1>6. CASE BucketPasses
  BY <1>6 DEF BucketPasses
<1>7. CASE UNCHANGED vars
  BY <1>7 DEF vars
<1> QED BY <1>1, <1>2, <1>3, <1>4, <1>5, <1>6, <1>7 DEF Next

\* Whoever is given the lease gets an epoch, and an epoch is never taken back.
LEMMA OwnedRowKept ==
  ElectionInv /\ OwnedRow /\ [LeaseNext]_leaseVars => OwnedRow'
<1> SUFFICES ASSUME ElectionInv, OwnedRow, [LeaseNext]_leaseVars PROVE OwnedRow'
  OBVIOUS
<1>0. lease \in Rows(Procs, LeaseTTL) /\ lease.epoch \in Nat /\ NoOwner \notin Procs
  BY CoordinatorAssumption DEF ElectionInv, LeaseTypeOK, Rows
<1>1. ASSUME NEW p \in Procs, NEW age \in Ages, NEW answered \in BOOLEAN,
             AcquireGranted(p, age, answered)
      PROVE  OwnedRow'
  BY <1>0, <1>1, AcquiredRow DEF AcquireGranted, OwnedRow
<1>2. ASSUME NEW p \in Procs, NEW age \in Ages, NEW answered \in BOOLEAN,
             Renew(p, age, answered)
      PROVE  OwnedRow'
  BY <1>0, <1>2, RenewedRow DEF Renew, OwnedRow
<1>3. CASE LeaseTick
  BY <1>0, <1>3 DEF LeaseTick, OwnedRow, Rows
<1>4. ASSUME NEW p \in Procs, NEW age \in Ages,
             AcquireDenied(p, age) \/ RenewRefused(p, age) \/ StepDown(p, age) \/ Stop(p)
      PROVE  OwnedRow'
  BY <1>4 DEF AcquireDenied, RenewRefused, StepDown, Stop, OwnedRow
<1>5. CASE UNCHANGED leaseVars
  BY <1>5 DEF leaseVars, OwnedRow
<1>6. \E age : age \in Ages
  BY MaxAgeAssumption DEF Ages
<1> QED BY <1>1, <1>2, <1>3, <1>4, <1>5, <1>6 DEF LeaseNext, LeaseStep, Maintain
-----------------------------------------------------------------------------
(* The steps of a process: its own pass moves, the others keep theirs *)

LEMMA ElectionGoesOn ==
  ASSUME MirrorInv, [Next]_vars
  PROVE  LeaseTypeOK' /\ ElectionInv' /\ OwnedRow'
<1>1. [LeaseNext]_leaseVars
  BY StepIsElection DEF MirrorInv
<1>2. ElectionInv' /\ OwnedRow'
  BY <1>1, ElectionKept, OwnedRowKept DEF MirrorInv
<1> QED BY <1>2 DEF ElectionInv

\* What is left to show of a step of p that leaves the journal alone.
LEMMA PassMoves ==
  ASSUME MirrorInv, [Next]_vars, NEW p \in Procs, NEW new \in Passes,
         mirror' = [mirror EXCEPT ![p] = new], UNCHANGED journalVars,
         new.at # "idle" => belief'[p] # 0 /\ ~losing'[p],
         \A q \in Procs \ {p} : belief'[q] = belief[q] /\ losing'[q] = losing[q],
         \/ lease'.epoch = lease.epoch /\ (lease'.left = lease.left \/ lease.owner = p)
         \/ lease'.epoch = lease.epoch + 1,
         queued \subseteq queued', queued' \subseteq journal, cursor' \in 0..bucket,
         (MirroredInOrder /\ (cursor = 0 \/ Marked(cursor)))',
         PassSound(p)'
  PROVE  MirrorInv'
<1>1. LeaseTypeOK' /\ ElectionInv' /\ OwnedRow'
  BY ElectionGoesOn
<1>2. mirror \in [Procs -> Passes] /\ journal' = journal /\ late' = late /\ bucket' = bucket
  BY DEF MirrorInv, MirrorTypeOK, journalVars
<1>3. mirror' \in [Procs -> Passes] /\ mirror'[p] = new
      /\ \A q \in Procs \ {p} : mirror'[q] = mirror[q]
  BY <1>2
<1>4. \A q \in Procs : mirror'[q].at # "idle" => belief'[q] # 0 /\ ~losing'[q]
  BY <1>3 DEF MirrorInv, MirrorTypeOK
<1>5. MirrorTypeOK'
  BY <1>1, <1>2, <1>3, <1>4 DEF MirrorInv, MirrorTypeOK, JournalRows
<1>6. JournalBound'
  BY <1>2 DEF MirrorInv, JournalBound
<1>7. Grows /\ bucket' \in Nat
  BY <1>2, JournalAssumption DEF Grows, MirrorInv, MirrorTypeOK
<1>8. ASSUME NEW q \in Procs PROVE PassSound(q)'
  <2>1. CASE q = p
    BY <2>1
  <2>2. CASE q # p
    <3>1. mirror[q].at = "check" /\ Ousted(q) => Ousted(q)'
      BY <1>1, <1>3, <2>2, OustedStays
    <3> QED BY <1>3, <1>7, <2>2, <3>1, PassLasts
  <2> QED BY <2>1, <2>2
<1> QED BY <1>1, <1>5, <1>6, <1>8 DEF MirrorInv

\* The same of a step that does not touch the queue or the cursor either.
LEMMA PassMovesOnly ==
  ASSUME MirrorInv, [Next]_vars, NEW p \in Procs, NEW new \in Passes,
         mirror' = [mirror EXCEPT ![p] = new], UNCHANGED <<journalVars, queued, cursor>>,
         new.at # "idle" => belief'[p] # 0 /\ ~losing'[p],
         \A q \in Procs \ {p} : belief'[q] = belief[q] /\ losing'[q] = losing[q],
         \/ lease'.epoch = lease.epoch /\ (lease'.left = lease.left \/ lease.owner = p)
         \/ lease'.epoch = lease.epoch + 1,
         PassSound(p)'
  PROVE  MirrorInv'
<1>1. Grows
  BY JournalAssumption DEF Grows, journalVars, MirrorInv, MirrorTypeOK
<1>2. (MirroredInOrder /\ (cursor = 0 \/ Marked(cursor)))'
  BY <1>1, OrderLasts
<1>3. queued \subseteq queued' /\ queued' \subseteq journal /\ cursor' \in 0..bucket
  BY DEF MirrorInv, MirrorTypeOK
<1> QED BY <1>2, <1>3, PassMoves DEF journalVars

LEMMA IdlePass == Idle \in Passes
  BY MaxAgeAssumption, JournalAssumption DEF Idle, Passes, Ages

LEMMA UpkeepKeeps ==
  ASSUME MirrorInv, [Next]_vars, NEW p \in Procs, NEW age \in Ages, NEW answered \in BOOLEAN,
         Upkeep(p, age, answered)
  PROVE  MirrorInv'
<1>0. /\ mirror \in [Procs -> Passes] /\ mirror[p].at = "idle" /\ mirror[p] \in Passes
      /\ lease \in Rows(Procs, LeaseTTL) /\ lease.epoch \in Nat
      /\ belief \in [Procs -> Nat] /\ losing \in [Procs -> BOOLEAN]
      /\ NoOwner \notin Procs /\ OwnedRow
  BY CoordinatorAssumption
  DEF MirrorInv, MirrorTypeOK, LeaseTypeOK, Rows, Upkeep, Between
<1>1. CASE /\ AcquireGranted(p, age, answered) \/ Renew(p, age, answered)
           /\ mirror' = [mirror EXCEPT ![p] =
                IF answered THEN [Idle EXCEPT !.at = "led", !.read = age] ELSE Idle]
  <2> DEFINE led == [Idle EXCEPT !.at = "led", !.read = age]
             new == IF answered THEN led ELSE Idle
  <2>1. new \in Passes /\ new.at \in {"idle", "led"} /\ (new.at = "led" => answered)
    <3>1. Idle \in Passes
      BY IdlePass
    <3>2. led \in Passes /\ led.at = "led"
      BY <3>1 DEF Passes
    <3> HIDE DEF led
    <3>3. Idle.at = "idle"
      BY DEF Idle
    <3> QED BY <3>1, <3>2, <3>3
  <2>2. mirror' = [mirror EXCEPT ![p] = new]
    BY <1>1
  <2> HIDE DEF new
  <2>3. \/ lease'.epoch = lease.epoch /\ lease.owner = p
        \/ lease'.epoch = lease.epoch + 1
    BY <1>0, <1>1, AcquiredRow, RenewedRow DEF AcquireGranted, Renew, HeldBy
  <2>4. answered => belief'[p] = lease'.epoch /\ ~losing'[p]
    BY <1>0, <1>1, RenewedRow DEF AcquireGranted, Renew
  <2>5. lease'.epoch # 0
    BY <1>0, <2>3 DEF OwnedRow
  <2>6. \A q \in Procs \ {p} : belief'[q] = belief[q] /\ losing'[q] = losing[q]
    BY <1>0, <1>1 DEF AcquireGranted, Renew
  <2>7. mirror'[p] = new
    BY <1>0, <2>2
  <2>8. PassSound(p)'
    BY <2>1, <2>7 DEF PassSound, InPass
  <2> QED
    BY <2>1, <2>2, <2>3, <2>4, <2>5, <2>6, <2>8, PassMovesOnly DEF Upkeep
<1>2. CASE (AcquireDenied(p, age) \/ RenewRefused(p, age)) /\ UNCHANGED mirror
  <2>1. mirror' = [mirror EXCEPT ![p] = mirror[p]] /\ mirror'[p] = mirror[p]
    BY <1>0, <1>2
  <2>2. lease' = lease /\ \A q \in Procs \ {p} : belief'[q] = belief[q] /\ losing'[q] = losing[q]
    BY <1>0, <1>2 DEF AcquireDenied, RenewRefused
  <2>3. PassSound(p)'
    BY <1>0, <2>1 DEF PassSound, InPass
  <2> QED BY <1>0, <2>1, <2>2, <2>3, PassMovesOnly DEF Upkeep
<1> QED BY <1>1, <1>2 DEF Upkeep

\* A process that gives its lease up, or whose pass ends, has no pass any more.
LEMMA PassOverKeeps ==
  ASSUME MirrorInv, [Next]_vars, NEW p \in Procs, NEW age \in Ages,
         LosesLease(p, age) \/ PassEnds(p) \/ Stops(p)
  PROVE  MirrorInv'
<1>0. /\ mirror \in [Procs -> Passes]
      /\ belief \in [Procs -> Nat] /\ losing \in [Procs -> BOOLEAN]
  BY DEF MirrorInv, MirrorTypeOK, LeaseTypeOK
<1> DEFINE new == mirror'[p]
<1>1. /\ mirror' = [mirror EXCEPT ![p] = new] /\ new.at = "idle" /\ new \in Passes
  BY <1>0, MaxAgeAssumption, JournalAssumption
  DEF LosesLease, PassEnds, Stops, Between, mirrorVars, Idle, Passes, Ages
<1>2. lease' = lease /\ \A q \in Procs \ {p} : belief'[q] = belief[q] /\ losing'[q] = losing[q]
  BY <1>0 DEF LosesLease, PassEnds, Stops, StepDown, Stop, leaseVars
<1>3. PassSound(p)'
  BY <1>1 DEF PassSound, InPass
<1>4. UNCHANGED <<journalVars, queued, cursor>>
  BY DEF LosesLease, PassEnds, Stops, mirrorVars
<1> HIDE DEF new
<1> QED BY <1>1, <1>2, <1>3, <1>4, PassMovesOnly

\* A bucket is read only when it is complete and the first behind the cursor.
LEMMA MirrorReadsKeeps ==
  ASSUME MirrorInv, [Next]_vars, NEW p \in Procs, MirrorReads(p)
  PROVE  MirrorInv'
<1> DEFINE waiting == {r.bucket : r \in {r \in journal : r.bucket > cursor}}
           b == Min(waiting)
           rest == {r.who : r \in {r \in journal : r.bucket = b}}
           new == [mirror[p] EXCEPT !.at = "row", !.bucket = b, !.rest = rest]
<1>0. /\ mirror \in [Procs -> Passes] /\ mirror[p] \in Passes /\ mirror[p].at = "led"
      /\ bucket \in 1..MaxBucket /\ MaxBucket \in Nat /\ cursor \in 0..bucket
      /\ journal \subseteq JournalRows /\ UNCHANGED <<leaseVars, journalVars, queued, cursor>>
      /\ waiting # {} /\ Marked(b)
      /\ mirror' = [mirror EXCEPT ![p] = [@ EXCEPT !.at = "row", !.bucket = b, !.rest = rest]]
  BY JournalAssumption DEF MirrorInv, MirrorTypeOK, MirrorReads, Complete
<1>1. waiting \subseteq Nat
  BY <1>0 DEF JournalRows
<1>2. b \in waiting /\ \A m \in waiting : b <= m
  BY <1>0, <1>1, Minimum
<1>3. b \in Nat /\ b > cursor /\ b \in 1..bucket
  BY <1>0, <1>2 DEF MirrorInv, JournalBound, JournalRows
<1>4. \A r \in journal : r.bucket > cursor => r.bucket >= b
  BY <1>2
<1>5. \A r \in journal : r.bucket = b => r.who \in rest
  OBVIOUS
<1>6. rest \subseteq Characters \cup {Social} /\ \A who \in rest : Row(b, who) \in journal
  BY <1>0 DEF JournalRows, Row
<1> HIDE DEF waiting, b, rest
<1>8. new \in Passes /\ new.at = "row" /\ new.bucket = b /\ new.rest = rest
  <2>1. b \in 0..MaxBucket /\ rest \in SUBSET (Characters \cup {Social})
    BY <1>0, <1>3, <1>6
  <2> QED BY <1>0, <2>1 DEF Passes
<1>9. mirror' = [mirror EXCEPT ![p] = new]
  BY <1>0
<1>10. \A c \in 1..(b - 1) : Mirrored(c)
  <2> TAKE c \in 1..(b - 1)
  <2>1. CASE c <= cursor
    BY <1>0, <1>3, <2>1 DEF MirrorInv, MirroredInOrder
  <2>2. CASE c > cursor
    BY <1>0, <1>3, <1>4, <2>2 DEF Mirrored
  <2> QED BY <1>0, <1>3, <2>1, <2>2
<1> HIDE DEF new
<1>11. /\ mirror'[p] = new /\ journal' = journal /\ late' = late /\ queued' = queued
       /\ bucket' = bucket
  BY <1>0, <1>9 DEF journalVars
<1>12. \A c : Mirrored(c)' <=> Mirrored(c)
  BY <1>11 DEF Mirrored
<1>13. Handled(p)'
  BY <1>5, <1>8, <1>11 DEF Handled
<1>14. PassSound(p)'
  BY <1>0, <1>3, <1>6, <1>8, <1>10, <1>11, <1>12, <1>13 DEF PassSound, Marked
<1>15. belief' = belief /\ losing' = losing /\ lease' = lease /\ belief[p] # 0 /\ ~losing[p]
  BY <1>0 DEF leaseVars, MirrorInv, MirrorTypeOK
<1> QED BY <1>0, <1>8, <1>9, <1>14, <1>15, PassMovesOnly

\* Between the rows a pass has handled all that is not still to come, and a lease
\* found to be its own has not refused the row before.
LEMMA HeartbeatKeeps ==
  ASSUME MirrorInv, [Next]_vars, NEW p \in Procs, NEW age \in Ages,
         Heartbeat(p, age) \/ (StillLeads(p, age) /\ age <= mirror[p].read)
  PROVE  MirrorInv'
<1> DEFINE new == [mirror[p] EXCEPT !.at = "row", !.read = age]
<1>0. /\ mirror \in [Procs -> Passes] /\ mirror[p] \in Passes /\ InPass(p) /\ PassSound(p)
      /\ lease \in Rows(Procs, LeaseTTL) /\ lease.epoch \in Nat /\ lease.left \in Int
      /\ mirror[p].read \in Int /\ age \in Int
  <2>1. InPass(p) /\ PassSound(p)
    BY DEF MirrorInv, Heartbeat, StillLeads, InPass
  <2>2. mirror \in [Procs -> Passes] /\ lease \in Rows(Procs, LeaseTTL)
    BY DEF MirrorInv, MirrorTypeOK, LeaseTypeOK
  <2> QED BY <2>1, <2>2, MaxAgeAssumption DEF Passes, Ages, Rows, Expired
<1>00. /\ belief \in [Procs -> Nat] /\ belief[p] # 0 /\ ~losing[p]
       /\ UNCHANGED <<journalVars, queued, cursor>>
  BY DEF MirrorInv, MirrorTypeOK, LeaseTypeOK, Heartbeat, StillLeads
<1>1. /\ new \in Passes /\ new.at = "row" /\ new.bucket = mirror[p].bucket
      /\ new.rest = mirror[p].rest
  BY <1>0 DEF Passes
<1>2. mirror' = [mirror EXCEPT ![p] = new]
  <2>1. CASE Heartbeat(p, age)
    <3>1. mirror' = [mirror EXCEPT ![p].read = age] /\ mirror[p].at = "row"
      BY <2>1 DEF Heartbeat
    <3>2. [mirror[p] EXCEPT !.read = age] = new
      BY <1>0, <3>1 DEF Passes
    <3> QED BY <1>0, <3>1, <3>2
  <2>2. CASE StillLeads(p, age)
    BY <1>0, <2>2 DEF StillLeads
  <2> QED BY <2>1, <2>2
<1>3. Handled(p)
  <2>1. CASE Heartbeat(p, age)
    BY <1>0, <2>1 DEF Heartbeat, PassSound
  <2>2. CASE StillLeads(p, age) /\ age <= mirror[p].read
    <3>1. ~Ousted(p)
      BY <1>0, <2>2 DEF StillLeads, Leads, HeldBy, LiveFor, Ousted
    <3> QED BY <1>0, <3>1 DEF PassSound
  <2> QED BY <2>1, <2>2
<1>4. /\ lease'.epoch = lease.epoch /\ (lease'.left = lease.left \/ lease.owner = p)
      /\ belief' = belief /\ losing' = losing
  <2>1. CASE Heartbeat(p, age)
    BY <1>0, <1>00, <2>1, RenewedRow DEF Heartbeat, Renew, HeldBy
  <2>2. CASE StillLeads(p, age)
    BY <2>2 DEF StillLeads, leaseVars
  <2> QED BY <2>1, <2>2
<1> HIDE DEF new
<1>5. /\ mirror'[p] = new /\ journal' = journal /\ late' = late /\ queued' = queued
      /\ bucket' = bucket
  BY <1>0, <1>00, <1>2 DEF journalVars
<1>6. Handled(p)' /\ \A c : Mirrored(c)' <=> Mirrored(c)
  BY <1>1, <1>3, <1>5 DEF Handled, Mirrored
<1>7. PassSound(p)'
  BY <1>0, <1>1, <1>5, <1>6 DEF PassSound, Marked
<1> QED BY <1>0, <1>00, <1>1, <1>2, <1>4, <1>7, PassMovesOnly

\* A row goes into the queue, or the lease that refused it is lost to the pass.
LEMMA EnqueueRowKeeps ==
  ASSUME MirrorInv, [Next]_vars, NEW p \in Procs, NEW age \in Ages,
         NEW who \in mirror[p].rest, EnqueueRow(p, who, age)
  PROVE  MirrorInv'
<1> DEFINE b == mirror[p].bucket
           rest == mirror[p].rest \ {who}
           live == lease.epoch = belief[p] /\ LiveFor(lease.left, age)
           new == [mirror[p] EXCEPT !.at = "check", !.rest = rest, !.read = age]
<1>0. /\ mirror \in [Procs -> Passes] /\ mirror[p] \in Passes /\ mirror[p].at = "row"
      /\ PassSound(p) /\ Handled(p) /\ age \in Int
      /\ belief[p] # 0 /\ ~losing[p] /\ lease.left \in Int
  <2>1. /\ mirror \in [Procs -> Passes] /\ mirror[p].at = "row" /\ PassSound(p)
        /\ belief[p] # 0 /\ ~losing[p] /\ lease \in Rows(Procs, LeaseTTL)
    BY DEF MirrorInv, MirrorTypeOK, LeaseTypeOK, EnqueueRow
  <2>2. Handled(p)
    BY <2>1 DEF PassSound, InPass
  <2> QED BY <2>1, <2>2, MaxAgeAssumption DEF Ages, Rows, Expired
<1>1. /\ UNCHANGED <<leaseVars, journalVars, cursor>>
      /\ queued' = queued \cup {r \in {Row(b, who)} : live}
      /\ mirror' = [mirror EXCEPT ![p] = new]
  BY DEF EnqueueRow
<1>2. new \in Passes /\ new.at = "check" /\ new.bucket = b /\ new.rest = rest /\ new.read = age
  BY <1>0 DEF Passes
<1>3. /\ b \in Nat /\ b \in 1..bucket /\ bucket \in Nat /\ Row(b, who) \in journal
      /\ Row(b, who).bucket = b
  BY <1>0, JournalAssumption DEF PassSound, InPass, Row, MirrorInv, MirrorTypeOK
<1> HIDE DEF b, new
<1>4. /\ mirror'[p] = new /\ journal' = journal /\ late' = late /\ bucket' = bucket
      /\ queued \subseteq queued' /\ queued' \subseteq queued \cup {Row(b, who)}
      /\ lease' = lease /\ belief' = belief /\ losing' = losing
  BY <1>0, <1>1 DEF journalVars, leaseVars
<1>5. \A c : Mirrored(c) => Mirrored(c)'
  BY <1>4 DEF Mirrored
<1>6. \A c \in 1..(b - 1) : Mirrored(c)
  BY <1>0 DEF PassSound, InPass, b
<1>7. queued' \subseteq journal
  BY <1>3, <1>4 DEF MirrorInv, MirrorTypeOK
<1>8. (MirroredInOrder /\ (cursor = 0 \/ Marked(cursor)))'
  <2>1. \A c \in 1..cursor : Mirrored(c)'
    BY <1>5 DEF MirrorInv, MirroredInOrder
  <2>2. \A r \in queued' : \A c \in 1..(r.bucket - 1) : Mirrored(c)'
    BY <1>3, <1>4, <1>5, <1>6 DEF MirrorInv, MirroredInOrder
  <2>3. cursor' = cursor
    BY <1>1
  <2>4. cursor = 0 \/ Marked(cursor)'
    BY <1>4, <2>3 DEF MirrorInv, Marked
  <2> QED BY <2>1, <2>2, <2>3, <2>4 DEF MirroredInOrder
<1>9. Handled(p)' \/ Ousted(p)'
  <2>1. CASE live
    <3> SUFFICES ASSUME NEW r \in journal, r.bucket = b
                 PROVE  r \in queued' \cup late \/ r.who \in rest
      BY <1>2, <1>4 DEF Handled
    <3>1. r \in queued \cup late \/ r.who \in mirror[p].rest
      BY <1>0 DEF Handled, b
    <3>2. r.who = who => r = Row(b, who)
      BY DEF MirrorInv, MirrorTypeOK, JournalRows, Row
    <3> QED BY <1>1, <1>4, <2>1, <3>1, <3>2
  <2>2. CASE ~live
    BY <1>0, <1>2, <1>4, <2>2 DEF Ousted, LiveFor
  <2> QED BY <2>1, <2>2
<1>10. PassSound(p)'
  <2>1. \A x \in rest : Row(b, x) \in journal
    BY <1>0 DEF PassSound, InPass, b
  <2>2. \A c \in 1..(b - 1) : Mirrored(c)'
    BY <1>5, <1>6
  <2>3. Marked(b)
    BY <1>0 DEF PassSound, InPass, b
  <2> QED BY <1>2, <1>3, <1>4, <1>9, <2>1, <2>2, <2>3 DEF PassSound, Marked
<1>11. cursor' \in 0..bucket
  BY <1>1 DEF MirrorInv, MirrorTypeOK
<1> QED BY <1>0, <1>1, <1>2, <1>4, <1>7, <1>8, <1>10, <1>11, PassMoves

\* The cursor moves behind a bucket every row of which has been seen to.
LEMMA AdvanceKeeps ==
  ASSUME MirrorInv, [Next]_vars, NEW p \in Procs, NEW age \in Ages, Advance(p, age)
  PROVE  MirrorInv'
<1> DEFINE b == mirror[p].bucket
<1>0. /\ mirror \in [Procs -> Passes] /\ mirror[p].at = "row" /\ mirror[p].rest = {}
      /\ PassSound(p) /\ cursor \in 0..bucket /\ bucket \in Nat
      /\ UNCHANGED <<leaseVars, journalVars, queued>> /\ cursor' = Max({cursor, b})
      /\ mirror' = [mirror EXCEPT ![p] = Idle]
  BY JournalAssumption DEF MirrorInv, MirrorTypeOK, Advance
<1>1. /\ b \in Nat /\ b \in 1..bucket /\ Marked(b) /\ Mirrored(b)
      /\ \A c \in 1..(b - 1) : Mirrored(c)
  BY <1>0 DEF PassSound, InPass, Handled, Mirrored
<1> HIDE DEF b
<1>2. cursor' = IF cursor >= b THEN cursor ELSE b
  BY <1>0, <1>1, TwoNumbers
<1>3. cursor' \in 0..bucket
  BY <1>0, <1>1, <1>2
<1>4. \A c \in 1..cursor' : Mirrored(c)
  BY <1>0, <1>1, <1>2 DEF MirrorInv, MirroredInOrder
<1>5. journal' = journal /\ late' = late /\ queued' = queued /\ bucket' = bucket
  BY <1>0 DEF journalVars
<1>6. \A c : Mirrored(c)' <=> Mirrored(c)
  BY <1>5 DEF Mirrored
<1>7. (MirroredInOrder /\ (cursor = 0 \/ Marked(cursor)))'
  <2>1. \A r \in queued : \A c \in 1..(r.bucket - 1) : Mirrored(c)'
    BY <1>6 DEF MirrorInv, MirroredInOrder
  <2>2. cursor' = 0 \/ Marked(cursor')
    BY <1>1, <1>2 DEF MirrorInv
  <2> QED BY <1>4, <1>5, <1>6, <2>1, <2>2 DEF MirroredInOrder, Marked
<1>8. Idle.at = "idle" /\ Idle \in Passes /\ mirror'[p] = Idle
  BY <1>0, IdlePass DEF Idle
<1>9. PassSound(p)'
  BY <1>8 DEF PassSound, InPass
<1>10. /\ queued \subseteq queued' /\ queued' \subseteq journal
       /\ lease' = lease /\ belief' = belief /\ losing' = losing
  BY <1>0 DEF MirrorInv, MirrorTypeOK, leaseVars
<1> QED BY <1>0, <1>3, <1>7, <1>8, <1>9, <1>10, PassMoves
-----------------------------------------------------------------------------
(* The steps of the scheduler and of the clock *)

LEMMA RecordKeeps ==
  ASSUME MirrorInv, [Next]_vars, NEW characters \in SUBSET Characters, NEW marks \in BOOLEAN,
         Record(characters, marks)
  PROVE  MirrorInv'
<1> DEFINE new == {Row(bucket, who) : who \in characters \cup (IF marks THEN {Social} ELSE {})}
<1>0. /\ UNCHANGED <<leaseVars, bucket, mirrorVars>>
      /\ journal' = journal \cup new
      /\ late' = late \cup IF Marked(bucket) THEN new \ journal ELSE {}
  BY DEF Record
<1>1. new \subseteq JournalRows /\ \A r \in new : r.bucket = bucket
  BY DEF Row, JournalRows, MirrorInv, MirrorTypeOK
<1> HIDE DEF new
<1>2. /\ mirror' = mirror /\ queued' = queued /\ cursor' = cursor
      /\ lease' = lease /\ belief' = belief /\ losing' = losing
      /\ bucket \in Nat /\ bucket \in 1..MaxBucket /\ bucket' = bucket
  BY <1>0, JournalAssumption DEF mirrorVars, leaseVars, MirrorInv, MirrorTypeOK
<1>3. Grows
  BY <1>0, <1>1, <1>2 DEF Grows
<1>4. (MirroredInOrder /\ (cursor = 0 \/ Marked(cursor)))'
  BY <1>2, <1>3, OrderLasts
<1>5. MirrorTypeOK' /\ ElectionInv' /\ OwnedRow'
  <2>1. LeaseTypeOK' /\ ElectionInv' /\ OwnedRow'
    BY ElectionGoesOn
  <2>2. journal' \subseteq JournalRows /\ late' \subseteq journal'
    BY <1>0, <1>1 DEF MirrorInv, MirrorTypeOK
  <2> QED BY <1>0, <1>2, <2>1, <2>2 DEF MirrorInv, MirrorTypeOK, JournalRows
<1>6. JournalBound'
  BY <1>0, <1>1, <1>2 DEF MirrorInv, JournalBound
<1>7. \A p \in Procs : PassSound(p)'
  BY <1>2, <1>3, PassLasts DEF Ousted
<1> QED BY <1>4, <1>5, <1>6, <1>7 DEF MirrorInv

LEMMA BucketPassesKeeps ==
  ASSUME MirrorInv, [Next]_vars, BucketPasses
  PROVE  MirrorInv'
<1>1. /\ mirror' = mirror /\ queued' = queued /\ cursor' = cursor
      /\ journal' = journal /\ late' = late
      /\ lease' = lease /\ belief' = belief /\ losing' = losing
      /\ bucket \in 1..MaxBucket /\ bucket' = bucket + 1 /\ bucket < MaxBucket
      /\ MaxBucket \in Nat
  BY JournalAssumption
  DEF BucketPasses, mirrorVars, leaseVars, MirrorInv, MirrorTypeOK
<1>2. Grows /\ bucket' \in Nat
  BY <1>1 DEF Grows
<1>3. (MirroredInOrder /\ (cursor = 0 \/ Marked(cursor)))'
  BY <1>1, <1>2, OrderLasts
<1>4. MirrorTypeOK'
  <2>1. LeaseTypeOK'
    BY ElectionGoesOn
  <2>2. bucket' \in 1..MaxBucket /\ cursor' \in 0..bucket'
    BY <1>1 DEF MirrorInv, MirrorTypeOK
  <2> QED BY <1>1, <2>1, <2>2 DEF MirrorInv, MirrorTypeOK, JournalRows, Passes
<1>5. JournalBound'
  <2> SUFFICES ASSUME NEW r \in journal PROVE r.bucket <= bucket + 1
    BY <1>1 DEF JournalBound
  <2> QED BY <1>1 DEF MirrorInv, JournalBound, MirrorTypeOK, JournalRows
<1>6. \A p \in Procs : PassSound(p)'
  BY <1>1, <1>2, PassLasts DEF Ousted
<1> QED BY <1>3, <1>4, <1>5, <1>6, ElectionGoesOn DEF MirrorInv

\* A lease that a process could not find its own at its last reading of the clock
\* it cannot find its own at that reading a tick later.
LEMMA TimeKeeps ==
  ASSUME MirrorInv, [Next]_vars, Time
  PROVE  MirrorInv'
<1>0. /\ queued' = queued /\ cursor' = cursor /\ UNCHANGED journalVars
      /\ journal' = journal /\ late' = late /\ bucket' = bucket /\ bucket \in Nat
      /\ lease' = [lease EXCEPT !.left = Aged(lease.left)]
      /\ belief' = belief /\ losing' = losing
      /\ mirror' = [p \in Procs |->
           [mirror[p] EXCEPT !.read = IF Between(p) THEN 0 ELSE Min({@ + 1, MaxAge})]]
      /\ mirror \in [Procs -> Passes]
  BY JournalAssumption DEF Time, LeaseTick, journalVars, MirrorInv, MirrorTypeOK
<1>1. Grows
  BY <1>0 DEF Grows
<1>2. (MirroredInOrder /\ (cursor = 0 \/ Marked(cursor)))'
  BY <1>0, <1>1, OrderLasts
<1>3. ASSUME NEW p \in Procs
      PROVE  /\ mirror'[p] \in Passes /\ mirror'[p].at = mirror[p].at
             /\ mirror'[p].bucket = mirror[p].bucket /\ mirror'[p].rest = mirror[p].rest
             /\ mirror[p].at # "idle" =>
                  mirror'[p].read = IF mirror[p].read + 1 <= MaxAge
                                      THEN mirror[p].read + 1 ELSE MaxAge
  <2> DEFINE now == IF Between(p) THEN 0 ELSE Min({mirror[p].read + 1, MaxAge})
  <2>1. mirror[p] \in Passes /\ mirror[p].read \in Nat /\ MaxAge \in Nat
    BY <1>0, MaxAgeAssumption DEF Passes, Ages
  <2>2. Min({mirror[p].read + 1, MaxAge}) =
          IF mirror[p].read + 1 <= MaxAge THEN mirror[p].read + 1 ELSE MaxAge
    <3>1. mirror[p].read + 1 \in Int /\ MaxAge \in Int
      BY <2>1
    <3> QED BY <3>1, TwoNumbers, Zenon
  <2>3. now \in Ages
    BY <2>1, <2>2 DEF Ages
  <2>4. mirror[p].at # "idle" =>
          now = IF mirror[p].read + 1 <= MaxAge THEN mirror[p].read + 1 ELSE MaxAge
    BY <2>2 DEF Between
  <2>5. mirror'[p] = [mirror[p] EXCEPT !.read = now]
    BY <1>0
  <2> HIDE DEF now
  <2> QED BY <2>1, <2>3, <2>4, <2>5 DEF Passes
<1>4. MirrorTypeOK' /\ ElectionInv' /\ OwnedRow'
  <2>1. LeaseTypeOK' /\ ElectionInv' /\ OwnedRow'
    BY ElectionGoesOn
  <2>2. mirror' \in [Procs -> Passes]
    BY <1>0, <1>3
  <2>3. \A p \in Procs : mirror'[p].at # "idle" => belief'[p] # 0 /\ ~losing'[p]
    BY <1>0, <1>3 DEF MirrorInv, MirrorTypeOK
  <2> QED BY <1>0, <2>1, <2>2, <2>3 DEF MirrorInv, MirrorTypeOK, JournalRows
<1>5. JournalBound'
  BY <1>0 DEF MirrorInv, JournalBound
<1>6. ASSUME NEW p \in Procs PROVE PassSound(p)'
  <2>1. ASSUME mirror[p].at = "check", Ousted(p) PROVE Ousted(p)'
    <3>1. /\ lease.left \in Expired..LeaseTTL /\ lease'.left = Aged(lease.left)
          /\ lease'.epoch = lease.epoch /\ MaxAge \in Nat /\ mirror[p].read \in 0..MaxAge
          /\ LeaseTTL \in Nat
      BY <1>0, MaxAgeAssumption, CoordinatorAssumption
      DEF MirrorInv, MirrorTypeOK, LeaseTypeOK, Rows, Passes, Ages
    <3>2. lease.left + mirror[p].read < 0 => lease'.left + mirror'[p].read < 0
      BY <1>3, <2>1, <3>1 DEF Aged, Expired
    <3> QED BY <1>0, <2>1, <3>1, <3>2 DEF Ousted
  <2> QED BY <1>0, <1>1, <1>3, <2>1, PassLasts
<1> QED BY <1>2, <1>4, <1>5, <1>6 DEF MirrorInv
-----------------------------------------------------------------------------
(* The theorems *)

LEMMA InitialMirror == Init => MirrorInv
<1> SUFFICES ASSUME Init PROVE MirrorInv
  OBVIOUS
<1>1. ElectionInv /\ LeaseTypeOK /\ OwnedRow
  BY InitialElection DEF Init, ElectionInv, OwnedRow, LeaseInit, AbsentRow
<1>2. MirrorTypeOK
  BY <1>1, IdlePass, JournalAssumption DEF Init, MirrorTypeOK, Idle
<1>3. MirroredInOrder /\ JournalBound /\ cursor = 0
  BY DEF Init, MirroredInOrder, JournalBound
<1>4. \A p \in Procs : PassSound(p)
  BY DEF Init, PassSound, InPass, Idle
<1> QED BY <1>1, <1>2, <1>3, <1>4 DEF MirrorInv

LEMMA StepKeepsMirror == MirrorInv /\ [Next]_vars => MirrorInv'
<1> SUFFICES ASSUME MirrorInv, [Next]_vars PROVE MirrorInv'
  OBVIOUS
<1>1. ASSUME NEW p \in Procs, NEW age \in Ages, NEW answered \in BOOLEAN,
             Upkeep(p, age, answered)
      PROVE  MirrorInv'
  BY <1>1, UpkeepKeeps
<1>2. ASSUME NEW p \in Procs, Pass(p) PROVE MirrorInv'
  <2>0. 0 \in Ages /\ \A age \in 0..mirror[p].read : age \in Ages /\ age <= mirror[p].read
    BY MaxAgeAssumption DEF MirrorInv, MirrorTypeOK, Passes, Ages
  <2>1. CASE MirrorReads(p)
    BY <2>1, MirrorReadsKeeps
  <2>2. CASE PassEnds(p)
    BY <2>0, <2>2, PassOverKeeps
  <2>3. ASSUME NEW age \in 0..mirror[p].read, Heartbeat(p, age) PROVE MirrorInv'
    BY <2>0, <2>3, HeartbeatKeeps
  <2>4. ASSUME NEW age \in 0..mirror[p].read, NEW who \in mirror[p].rest,
               EnqueueRow(p, who, age)
        PROVE  MirrorInv'
    BY <2>0, <2>4, EnqueueRowKeeps
  <2>5. ASSUME NEW age \in 0..mirror[p].read, StillLeads(p, age) PROVE MirrorInv'
    BY <2>0, <2>5, HeartbeatKeeps
  <2>6. ASSUME NEW age \in 0..mirror[p].read, Advance(p, age) PROVE MirrorInv'
    BY <2>0, <2>6, AdvanceKeeps
  <2>7. ASSUME NEW age \in 0..mirror[p].read, LosesLease(p, age) PROVE MirrorInv'
    BY <2>0, <2>7, PassOverKeeps
  <2> QED BY <1>2, <2>1, <2>2, <2>3, <2>4, <2>5, <2>6, <2>7 DEF Pass
<1>3. ASSUME NEW p \in Procs, Stops(p) PROVE MirrorInv'
  <2>1. 0 \in Ages
    BY MaxAgeAssumption DEF Ages
  <2> QED BY <1>3, <2>1, PassOverKeeps
<1>4. CASE Time
  BY <1>4, TimeKeeps
<1>5. ASSUME NEW characters \in SUBSET Characters, NEW marks \in BOOLEAN,
             Record(characters, marks)
      PROVE  MirrorInv'
  BY <1>5, RecordKeeps
<1>6. CASE BucketPasses
  BY <1>6, BucketPassesKeeps
<1>7. CASE UNCHANGED vars
  BY <1>7
  DEF vars, leaseVars, journalVars, mirrorVars, MirrorInv, MirrorTypeOK, LeaseTypeOK,
      ElectionInv, Fenced, OneLeaderPerEpoch, OwnedRow, JournalBound, MirroredInOrder,
      Mirrored, Marked, PassSound, InPass, Handled, Ousted
<1> QED BY <1>1, <1>2, <1>3, <1>4, <1>5, <1>6, <1>7 DEF Next

\* The inductive invariant of the mirror with what its passes rely on, for every
\* value of the constants (the scheduler's journal, a leader's pass, advance_if_leader()).
THEOREM MirrorInvariant == Spec => []MirrorInv
  BY InitialMirror, StepKeepsMirror, PTL DEF Spec

\* The type invariant of the mirror and of the election it runs: the cursor stays
\* behind the scheduler's bucket, only journal rows are queued, and a pass is under
\* way only in a process that holds itself leader.
THEOREM MirrorTypeCorrect == Spec => []MirrorTypeOK
<1>1. MirrorInv => MirrorTypeOK
  BY DEF MirrorInv
<1> QED BY <1>1, MirrorInvariant, PTL

\* What counts as mirrored is in the queue: neither the cursor nor a row of a later
\* bucket gets ahead of a bucket with a row the queue does not have, however often
\* the coordinator changes in mid-bucket and whatever the queue refuses.
THEOREM NothingSkipped == Spec => []MirroredInOrder
<1>1. MirrorInv => MirroredInOrder
  BY DEF MirrorInv
<1> QED BY <1>1, MirrorInvariant, PTL

\* The passes of the mirror run the coordinator's election: every step is a step of
\* it or leaves it alone.
THEOREM PassesElect == Spec => LeaseSpec
<1>1. Init => LeaseInit
  BY DEF Init
<1>2. MirrorInv /\ [Next]_vars => [LeaseNext]_leaseVars
  BY StepIsElection DEF MirrorInv
<1> QED BY <1>1, <1>2, MirrorInvariant, PTL DEF Spec, LeaseSpec

\* Hence the mirror's coordinators are fenced like any others: an epoch names one
\* leader, and one that has expired is not revived.
THEOREM MirrorLeaderUnique == Spec => []OneLeaderPerEpoch
  BY PassesElect, LeaderUnique, PTL

\* An epoch of the mirror's coordinators that has expired is not revived by renew().
THEOREM MirrorEpochStaysDead == Spec => NoRevival
  BY PassesElect, ExpiredEpochStaysDead, PTL
=============================================================================
