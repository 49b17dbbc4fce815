---------------------------- MODULE JobQueueProofs ----------------------------
(***************************************************************************)
(* Proofs about the job queue, for any number of jobs, workers and         *)
(* coordinators and any limits: types and attempts, one active row per     *)
(* key, the fencing of inserts and of claims, and, with clocks in step, a  *)
(* tenant's single flight and the ceiling of a capability.                 *)
(***************************************************************************)
EXTENDS JobQueue, CoordinatorLeaseProofs, FiniteSetTheorems

\* Every step of the queue is a step of the election or leaves it alone.
LEMMA QueueStepIsElectionStep == [Next]_vars => [LeaseNext]_leaseVars
<1> SUFFICES ASSUME [Next]_vars PROVE [LeaseNext]_leaseVars
  OBVIOUS
<1>1. CASE Elect
  BY <1>1 DEF Elect, LeaseNext
<1>2. CASE EnqueueStep
  BY <1>2 DEF EnqueueStep, Enqueue
<1>3. CASE AdminStep
  BY <1>3 DEF AdminStep, Withdraw, Redrive, Prune
<1>4. ASSUME NEW w \in Workers, WorkerStep(w) PROVE UNCHANGED leaseVars
  BY <1>4 DEF WorkerStep, ClaimStep, Claim, StopWorker, Restart
<1>5. ASSUME NEW r \in runs, RunStep(r) PROVE UNCHANGED leaseVars
  BY <1>5 DEF RunStep, Start, LeaveUnrun, HeartbeatEnds, Abandon, SettleStep, Settle,
              SettleRaises, ReleaseUnstarted, Heartbeat
<1>6. CASE Tick
  BY <1>6 DEF Tick, LeaseNext
<1>7. CASE UNCHANGED vars
  BY <1>7 DEF vars, leaseVars
<1> QED
  BY <1>1, <1>2, <1>3, <1>4, <1>5, <1>6, <1>7 DEF Next, Act

\* The election goes on undisturbed inside the queue, so what is proved of the
\* election (one leader per epoch, no revival) holds of the whole queue.
THEOREM QueueImplementsElection == Spec => LeaseSpec
<1>1. Init => LeaseInit
  BY DEF Init
<1> QED
  BY <1>1, QueueStepIsElectionStep, PTL DEF Spec, LeaseSpec
-----------------------------------------------------------------------------
\* What holds of each row by itself: its type and its budget of attempts.
Budgeted(row) ==
  /\ row \in JobRows
  /\ row.status = "queued" => row.attempt < MaxAttempts
  /\ row.status = "claimed" => row.attempt \in 1..MaxAttempts
  /\ row.status = "dead" => row.attempt = MaxAttempts

QueueInv ==
  /\ jobs \in [Jobs -> JobRows]
  /\ \A j \in Jobs : Budgeted(jobs[j])
  /\ runs \subseteq Runs
  /\ stopping \in [Workers -> BOOLEAN]

\* The numbers among the limits.
LEMMA Limits == MaxAttempts \in Nat /\ MaxAttempts > 0 /\ Expired \in Int /\ JobTTL \in Nat
  BY MaxAgeAssumption, QueueAssumption DEF Expired

\* The limits of the relative times.
LEMMA Bounds ==
  /\ Expired \in Expired..JobTTL
  /\ -MaxAge \in Waits
  /\ \A wait \in 0..MaxWait : wait \in Waits
  /\ \A age \in Ages : JobTTL - age \in Expired..JobTTL
  /\ \A age \in Ages, retry \in 0..RetryDelay : retry - age \in Waits
  /\ \A left \in Expired..JobTTL : Aged(left) \in Expired..JobTTL
  /\ \A wait \in Waits : wait > -MaxAge => wait - 1 \in Waits
  BY MaxAgeAssumption, QueueAssumption DEF Expired, Waits, Ages, Aged

\* What becomes of a row in a step: the record it is replaced with is a row
\* again, within its budget.
LEMMA InsertedRow ==
  ASSUME NEW e \in Nat, NEW wait \in 0..MaxWait
  PROVE  Budgeted(Inserted(e, wait))
  BY Bounds, Limits DEF Inserted, Budgeted, JobRows, Active, Terminal

LEMMA NoRow == Budgeted(AbsentJob)
  BY Bounds, Limits DEF AbsentJob, Budgeted, JobRows

LEMMA ClaimedRow ==
  ASSUME NEW row, Budgeted(row), row.status \in Active, row.attempt < MaxAttempts,
         NEW w \in Workers, NEW age \in Ages
  PROVE  Budgeted([row EXCEPT !.status = "claimed", !.attempt = @ + 1,
                              !.owner = w, !.left = JobTTL - age])
<1>1. JobTTL - age \in Expired..JobTTL
  BY Bounds
<1>2. row \in JobRows
  BY DEF Budgeted
<1>3. row.attempt + 1 \in 1..MaxAttempts /\ row.attempt + 1 \in 0..MaxAttempts
  BY <1>2, Limits DEF JobRows
<1> QED
  BY <1>1, <1>2, <1>3 DEF Budgeted, JobRows, Active

LEMMA BuriedRow ==
  ASSUME NEW row, Budgeted(row), row.attempt >= MaxAttempts
  PROVE  Budgeted(Buried(row))
<1>1. Expired \in Expired..JobTTL
  BY Bounds
<1>2. row \in JobRows
  BY DEF Budgeted
<1>3. row.attempt = MaxAttempts
  BY <1>2, Limits DEF JobRows
<1> QED
  BY <1>1, <1>2, <1>3 DEF Budgeted, JobRows, Buried, Terminal

LEMMA HeldRow ==
  ASSUME NEW row, Budgeted(row), row.status = "claimed", NEW age \in Ages
  PROVE  Budgeted([row EXCEPT !.left = JobTTL - age])
  BY Bounds, Limits DEF Budgeted, JobRows

LEMMA ReleasedRow ==
  ASSUME NEW row, Budgeted(row), row.status = "claimed"
  PROVE  Budgeted([row EXCEPT !.status = "queued", !.attempt = @ - 1,
                              !.owner = NoOwner, !.left = Expired])
<1>1. Expired \in Expired..JobTTL
  BY Bounds
<1>2. row \in JobRows /\ row.attempt \in 1..MaxAttempts
  BY DEF Budgeted
<1>3. row.attempt - 1 \in 0..MaxAttempts /\ row.attempt - 1 < MaxAttempts
  BY <1>2, Limits
<1> QED
  BY <1>1, <1>2, <1>3 DEF Budgeted, JobRows, Active

LEMMA DoneRow ==
  ASSUME NEW row, Budgeted(row)
  PROVE  Budgeted([row EXCEPT !.status = "done", !.left = Expired])
  BY Bounds, Limits DEF Budgeted, JobRows, Terminal

LEMMA RetriedRow ==
  ASSUME NEW row, Budgeted(row), row.attempt < MaxAttempts,
         NEW age \in Ages, NEW retry \in 0..RetryDelay
  PROVE  Budgeted([row EXCEPT !.status = "queued", !.owner = NoOwner,
                              !.left = Expired, !.wait = retry - age])
<1>1. Expired \in Expired..JobTTL /\ retry - age \in Waits
  BY Bounds
<1> QED
  BY <1>1, Limits DEF Budgeted, JobRows, Active

LEMMA SupersededRow ==
  ASSUME NEW row, Budgeted(row)
  PROVE  Budgeted([row EXCEPT !.status = "superseded", !.owner = NoOwner, !.left = Expired])
  BY Bounds, Limits DEF Budgeted, JobRows, Terminal

LEMMA RedrivenRow ==
  ASSUME NEW row, Budgeted(row)
  PROVE  Budgeted([row EXCEPT !.status = "queued", !.attempt = 0,
                              !.owner = NoOwner, !.left = Expired])
<1>1. row \in JobRows /\ Expired \in Expired..JobTTL
  BY Bounds DEF Budgeted
<1>2. 0 \in 0..MaxAttempts /\ 0 < MaxAttempts
  BY Limits
<1> QED
  BY <1>1, <1>2 DEF Budgeted, JobRows, Active

LEMMA TimedRow ==
  ASSUME NEW row, Budgeted(row), NEW left \in Expired..JobTTL, NEW wait \in Waits
  PROVE  Budgeted([row EXCEPT !.left = left, !.wait = wait])
<1> DEFINE new == [row EXCEPT !.left = left, !.wait = wait]
<1>1. row \in JobRows
  BY DEF Budgeted
<1>2. new \in JobRows
  BY <1>1 DEF JobRows
<1>3. new.status = row.status /\ new.attempt = row.attempt
  BY <1>1 DEF JobRows
<1>4. /\ row.status = "queued" => row.attempt < MaxAttempts
      /\ row.status = "claimed" => row.attempt \in 1..MaxAttempts
      /\ row.status = "dead" => row.attempt = MaxAttempts
  BY DEF Budgeted
<1>5. /\ new.status = "queued" => new.attempt < MaxAttempts
      /\ new.status = "claimed" => new.attempt \in 1..MaxAttempts
      /\ new.status = "dead" => new.attempt = MaxAttempts
  BY <1>3, <1>4
<1> HIDE DEF new
<1>6. Budgeted(new)
  BY <1>2, <1>5 DEF Budgeted
<1> QED
  BY <1>6 DEF new
-----------------------------------------------------------------------------
\* What a step makes of the table is again a table of rows within their budget.
QueueNew ==
  /\ jobs' \in [Jobs -> JobRows]
  /\ \A j \in Jobs : Budgeted(jobs'[j])

\* One row replaced by a row within its budget.
LEMMA RowReplaced ==
  ASSUME QueueInv, NEW j \in Jobs, NEW row, Budgeted(row), jobs' = [jobs EXCEPT ![j] = row]
  PROVE  QueueNew
  BY DEF QueueInv, QueueNew, Budgeted

\* What complete() and fail() leave behind.
LEMMA SettledRows ==
  ASSUME QueueInv, NEW r \in runs, NEW age \in Ages, NEW retry \in 0..RetryDelay,
         NEW failed \in BOOLEAN, jobs' = Settled(r, age, retry, failed)
  PROVE  QueueNew
<1>0. r.job \in Jobs /\ Budgeted(jobs[r.job]) /\ jobs \in [Jobs -> JobRows]
  BY DEF QueueInv, Runs
<1> DEFINE row == jobs[r.job]
<1>1. CASE jobs' = jobs
  BY <1>1 DEF QueueInv, QueueNew
<1>2. CASE jobs' = [jobs EXCEPT ![r.job].status = "done", ![r.job].left = Expired]
  <2>1. jobs' = [jobs EXCEPT ![r.job] = [row EXCEPT !.status = "done", !.left = Expired]]
    BY <1>2
  <2> HIDE DEF row
  <2>2. Budgeted([row EXCEPT !.status = "done", !.left = Expired])
    BY <1>0, DoneRow DEF row
  <2> QED BY <1>0, <2>1, <2>2, RowReplaced
<1>3. CASE row.attempt >= MaxAttempts /\ jobs' = [jobs EXCEPT ![r.job] = Buried(@)]
  <2>1. Budgeted(Buried(row))
    BY <1>0, <1>3, BuriedRow
  <2>2. jobs' = [jobs EXCEPT ![r.job] = Buried(row)]
    BY <1>3
  <2> QED BY <1>0, <2>1, <2>2, RowReplaced
<1>4. CASE /\ ~(row.attempt >= MaxAttempts)
           /\ jobs' = [jobs EXCEPT ![r.job].status = "queued", ![r.job].owner = NoOwner,
                                   ![r.job].left = Expired, ![r.job].wait = retry - age]
  <2> DEFINE new == [row EXCEPT !.status = "queued", !.owner = NoOwner,
                                !.left = Expired, !.wait = retry - age]
  <2>1. jobs' = [jobs EXCEPT ![r.job] = new]
    BY <1>4
  <2>2. row.attempt < MaxAttempts
    BY <1>0, <1>4, Limits DEF JobRows
  <2>3. Budgeted(new)
    BY <1>0, <2>2, RetriedRow
  <2> HIDE DEF new
  <2> QED BY <1>0, <2>1, <2>3, RowReplaced
<1> QED
  BY <1>1, <1>2, <1>3, <1>4 DEF Settled, Completed, Failed

LEMMA ClaimKeepsRows ==
  ASSUME QueueInv, NEW w \in Workers, NEW age \in Ages, NEW batch, NEW retired, NEW locked,
         Claim(w, batch, retired, locked, age)
  PROVE  QueueNew
<1>1. /\ \A j \in batch : j \in Jobs /\ Ready(j, age) /\ ~Exhausted(j)
      /\ \A j \in retired : j \in Jobs /\ Exhausted(j)
  BY DEF Claim, Selection, Candidates
<1>2. ASSUME NEW j \in Jobs PROVE Budgeted(jobs'[j])
  <2>0. Budgeted(jobs[j])
    BY DEF QueueInv
  <2>1. CASE j \in batch
    <3>1. jobs[j].status \in Active
      BY <1>1, <2>1 DEF Ready, Active
    <3>2. jobs[j].attempt < MaxAttempts
      BY <1>1, <2>0, <2>1, <3>1, Limits DEF Exhausted, Budgeted, Active
    <3>3. Budgeted(Claimed(j, w, age))
      BY <2>0, <3>1, <3>2, ClaimedRow DEF Claimed
    <3> QED BY <2>1, <3>3 DEF Claim
  <2>2. CASE j \notin batch /\ j \in retired
    BY <1>1, <2>0, <2>2, BuriedRow DEF Claim, Exhausted
  <2>3. CASE j \notin batch /\ j \notin retired
    BY <2>0, <2>3 DEF Claim
  <2> QED BY <2>1, <2>2, <2>3
<1>3. jobs' = [j \in Jobs |-> jobs'[j]]
  BY DEF Claim
<1> QED
  BY <1>2, <1>3 DEF QueueNew, Budgeted

LEMMA RunKeepsRows ==
  ASSUME QueueInv, NEW r \in runs, RunStep(r)
  PROVE  QueueNew
<1>0. /\ r.job \in Jobs /\ Budgeted(jobs[r.job]) /\ jobs \in [Jobs -> JobRows]
      /\ \A j \in Jobs : Budgeted(jobs[j])
  BY DEF QueueInv, Runs
<1>1. CASE Start(r) \/ LeaveUnrun(r) \/ HeartbeatEnds(r) \/ Abandon(r)
  <2>1. jobs' = jobs
    BY <1>1 DEF Start, LeaveUnrun, HeartbeatEnds, Abandon
  <2> QED BY <1>0, <2>1 DEF QueueNew
<1>2. CASE SettleStep(r)
  <2>1. PICK age \in Ages, retry \in 0..RetryDelay, failed \in BOOLEAN :
          jobs' = jobs \/ jobs' = Settled(r, age, retry, failed)
    BY <1>2 DEF SettleStep, Settle, SettleRaises
  <2>2. CASE jobs' = jobs
    BY <1>0, <2>2 DEF QueueNew
  <2>3. CASE jobs' = Settled(r, age, retry, failed)
    BY <2>3, SettledRows
  <2> QED BY <2>1, <2>2, <2>3
<1>3. ASSUME NEW age \in Ages, NEW reached \in BOOLEAN, ReleaseUnstarted(r, age, reached)
      PROVE  QueueNew
  <2>1. CASE jobs' = jobs
    BY <1>0, <2>1 DEF QueueNew
  <2>2. CASE jobs' # jobs
    <3> DEFINE row == jobs[r.job]
               new == [row EXCEPT !.status = "queued", !.attempt = @ - 1,
                                  !.owner = NoOwner, !.left = Expired]
    <3>1. row.status = "claimed" /\ jobs' = [jobs EXCEPT ![r.job] = new]
      BY <1>3, <2>2 DEF ReleaseUnstarted, Holds
    <3>2. Budgeted(new)
      BY <1>0, <3>1, ReleasedRow
    <3> HIDE DEF new
    <3> QED BY <1>0, <3>1, <3>2, RowReplaced
  <2> QED BY <2>1, <2>2
<1>4. ASSUME NEW age \in Ages, Heartbeat(r, age) PROVE QueueNew
  <2> DEFINE row == jobs[r.job]
             new == [row EXCEPT !.left = JobTTL - age]
  <2>1. row.status = "claimed" /\ jobs' = [jobs EXCEPT ![r.job] = new]
    BY <1>4 DEF Heartbeat, Holds
  <2>2. Budgeted(new)
    BY <1>0, <2>1, HeldRow
  <2> HIDE DEF new
  <2> QED BY <1>0, <2>1, <2>2, RowReplaced
<1> QED
  BY <1>1, <1>2, <1>3, <1>4 DEF RunStep

LEMMA AdminKeepsRows ==
  ASSUME QueueInv, AdminStep
  PROVE  QueueNew
<1>0. jobs \in [Jobs -> JobRows] /\ \A j \in Jobs : Budgeted(jobs[j])
  BY DEF QueueInv
<1>1. ASSUME NEW key, Withdraw(key) PROVE QueueNew
  <2>1. ASSUME NEW j \in Jobs PROVE Budgeted(jobs'[j])
    BY <1>0, <1>1, SupersededRow DEF Withdraw
  <2>2. jobs' = [j \in Jobs |-> jobs'[j]]
    BY <1>1 DEF Withdraw
  <2> QED BY <2>1, <2>2 DEF QueueNew, Budgeted
<1>2. ASSUME NEW j \in Jobs, Redrive(j) PROVE QueueNew
  <2> DEFINE row == jobs[j]
             new == [row EXCEPT !.status = "queued", !.attempt = 0,
                                !.owner = NoOwner, !.left = Expired]
  <2>1. jobs' = [jobs EXCEPT ![j] = new]
    BY <1>2 DEF Redrive
  <2>2. Budgeted(new)
    BY <1>0, RedrivenRow
  <2> HIDE DEF new
  <2> QED BY <2>1, <2>2, RowReplaced
<1>3. ASSUME NEW old, Prune(old) PROVE QueueNew
  <2>1. ASSUME NEW j \in Jobs PROVE Budgeted(jobs'[j])
    BY <1>0, <1>3, NoRow DEF Prune
  <2>2. jobs' = [j \in Jobs |-> jobs'[j]]
    BY <1>3 DEF Prune
  <2> QED BY <2>1, <2>2 DEF QueueNew, Budgeted
<1> QED
  BY <1>1, <1>2, <1>3 DEF AdminStep

LEMMA TickKeepsRows ==
  ASSUME QueueInv, Tick
  PROVE  QueueNew
<1>0. jobs \in [Jobs -> JobRows] /\ \A j \in Jobs : Budgeted(jobs[j])
  BY DEF QueueInv
<1>1. ASSUME NEW j \in Jobs PROVE Budgeted(jobs'[j])
  <2> DEFINE left == IF jobs[j].status = "claimed" THEN Aged(jobs[j].left) ELSE jobs[j].left
             wait == IF jobs[j].wait > -MaxAge THEN jobs[j].wait - 1 ELSE jobs[j].wait
  <2>1. jobs[j].left \in Expired..JobTTL /\ jobs[j].wait \in Waits
    BY <1>0 DEF JobRows
  <2>2. left \in Expired..JobTTL /\ wait \in Waits
    BY <2>1, Bounds
  <2>3. jobs'[j] = [jobs[j] EXCEPT !.left = left, !.wait = wait]
    BY DEF Tick
  <2> HIDE DEF left, wait
  <2>4. Budgeted(jobs[j])
    BY <1>0
  <2>5. Budgeted([jobs[j] EXCEPT !.left = left, !.wait = wait])
    BY <2>2, <2>4, TimedRow
  <2> QED BY <2>3, <2>5
<1>2. jobs' = [j \in Jobs |-> jobs'[j]]
  BY DEF Tick
<1> QED BY <1>1, <1>2 DEF QueueNew, Budgeted

\* Tasks stay tasks of the workers and jobs there are.
LEMMA RunsTyped ==
  ASSUME QueueInv, Next
  PROVE  runs' \subseteq Runs /\ stopping' \in [Workers -> BOOLEAN]
<1> USE DEF QueueInv
<1>1. CASE Elect \/ EnqueueStep \/ AdminStep \/ Tick
  BY <1>1 DEF Elect, queueVars, EnqueueStep, Enqueue, AdminStep, Withdraw, Redrive, Prune, Tick
<1>2. ASSUME NEW w \in Workers, WorkerStep(w)
      PROVE  runs' \subseteq Runs /\ stopping' \in [Workers -> BOOLEAN]
  <2>1. CASE ClaimStep(w)
    <3>1. PICK age \in Ages, batch \in SUBSET Jobs :
            /\ runs' = runs \cup {Fresh(w, j) : j \in batch}
            /\ stopping' = stopping
      BY <2>1 DEF ClaimStep, Claim, Candidates
    <3>2. \A j \in Jobs : Fresh(w, j) \in Runs
      BY DEF Fresh, Runs
    <3> QED BY <3>1, <3>2
  <2>2. CASE StopWorker(w) \/ Restart(w)
    BY <2>2 DEF StopWorker, Restart
  <2> QED BY <1>2, <2>1, <2>2 DEF WorkerStep
<1>3. ASSUME NEW r \in runs, RunStep(r)
      PROVE  runs' \subseteq Runs /\ stopping' \in [Workers -> BOOLEAN]
  <2>0. stopping' = stopping
    BY <1>3 DEF RunStep, Start, LeaveUnrun, HeartbeatEnds, Abandon, SettleStep, Settle,
                SettleRaises, ReleaseUnstarted, Heartbeat
  <2>1. \A q \in runs : /\ [q EXCEPT !.phase = "running"] \in Runs
                        /\ [q EXCEPT !.phase = "aborted"] \in Runs
                        /\ [q EXCEPT !.detached = TRUE] \in Runs
    BY DEF Runs
  <2>2. CASE Start(r) \/ HeartbeatEnds(r)
    BY <2>1, <2>2 DEF Start, HeartbeatEnds
  <2>3. ASSUME NEW age, NEW retry, NEW failed, NEW committed,
               SettleRaises(r, age, retry, failed, committed)
        PROVE  runs' \subseteq Runs
    BY <2>1, <2>3 DEF SettleRaises, Siblings
  <2>4. ASSUME runs' = runs \/ runs' = runs \ {r} PROVE runs' \subseteq Runs
    BY <2>4
  <2>5. \/ Start(r) \/ HeartbeatEnds(r)
        \/ runs' = runs \/ runs' = runs \ {r}
        \/ \E age, retry, failed, committed : SettleRaises(r, age, retry, failed, committed)
    BY <1>3 DEF RunStep, LeaveUnrun, Abandon, SettleStep, Settle, ReleaseUnstarted, Heartbeat
  <2> QED BY <2>0, <2>2, <2>3, <2>4, <2>5
<1> QED
  BY <1>1, <1>2, <1>3 DEF Next, Act
-----------------------------------------------------------------------------
\* Every step keeps rows, tasks and budgets in order.
LEMMA QueueInvKept == QueueInv /\ LeaseTypeOK /\ [Next]_vars => QueueInv'
<1> SUFFICES ASSUME QueueInv, LeaseTypeOK, [Next]_vars PROVE QueueInv'
  OBVIOUS
<1>1. ASSUME Next PROVE QueueNew
  <2>0. jobs \in [Jobs -> JobRows] /\ \A j \in Jobs : Budgeted(jobs[j])
    BY DEF QueueInv
  <2>1. CASE Elect
    BY <2>0, <2>1 DEF Elect, queueVars, QueueNew
  <2>2. CASE EnqueueStep
    <3>1. PICK j \in Jobs, e \in Nat, wait \in 0..MaxWait :
            jobs' = [jobs EXCEPT ![j] = Inserted(e, wait)]
      BY <2>2 DEF EnqueueStep, Enqueue, LeaseTypeOK, Rows
    <3> QED BY <3>1, InsertedRow, RowReplaced
  <2>3. CASE AdminStep
    BY <2>3, AdminKeepsRows
  <2>4. ASSUME NEW w \in Workers, WorkerStep(w) PROVE QueueNew
    <3>1. CASE ClaimStep(w)
      BY <3>1, ClaimKeepsRows DEF ClaimStep
    <3>2. CASE StopWorker(w) \/ Restart(w)
      BY <2>0, <3>2 DEF StopWorker, Restart, QueueNew
    <3> QED BY <2>4, <3>1, <3>2 DEF WorkerStep
  <2>5. ASSUME NEW r \in runs, RunStep(r) PROVE QueueNew
    BY <2>5, RunKeepsRows
  <2>6. CASE Tick
    BY <2>6, TickKeepsRows
  <2> QED
    BY <1>1, <2>1, <2>2, <2>3, <2>4, <2>5, <2>6 DEF Next, Act
<1>2. CASE Next
  BY <1>1, <1>2, RunsTyped DEF QueueInv, QueueNew
<1>3. CASE UNCHANGED vars
  BY <1>3 DEF vars, QueueInv
<1> QED BY <1>2, <1>3

\* The rows keep their types and the tasks theirs, for any number of jobs,
\* workers and coordinators and any limits on leases, delays and batches.
THEOREM JobTypeCorrect == Spec => []JobTypeOK
<1>1. Init => QueueInv
  BY NoRow DEF Init, QueueInv, Budgeted
<1>2. QueueInv /\ LeaseTypeOK => JobTypeOK
  BY DEF QueueInv, JobTypeOK
<1>3. Spec => []LeaseTypeOK
  BY QueueImplementsElection, LeaseTypeCorrect, PTL
<1> QED
  BY <1>1, <1>2, <1>3, QueueInvKept, PTL DEF Spec

\* Attempts are accounted for: whatever claims, releases, failures and redrives
\* follow each other, a queued row has an attempt left, a claimed row holds one
\* and a row is dead with all of them used.
THEOREM AttemptsAccounted == Spec => []AttemptBudget
<1>1. Init => QueueInv
  BY NoRow DEF Init, QueueInv, Budgeted
<1>2. QueueInv => AttemptBudget
  BY DEF QueueInv, Budgeted, AttemptBudget
<1>3. Spec => []LeaseTypeOK
  BY QueueImplementsElection, LeaseTypeCorrect, PTL
<1> QED
  BY <1>1, <1>2, <1>3, QueueInvKept, PTL DEF Spec
-----------------------------------------------------------------------------
\* What all steps but the inserts and the redrives do to a row: it does not
\* become active, it does not appear, and it keeps its epoch or is deleted.
RowsKept ==
  \A j \in Jobs :
    /\ jobs'[j].status \in Active => jobs[j].status \in Active
    /\ jobs[j].status = "absent" => jobs'[j].status = "absent"
    /\ jobs'[j].epoch \in {jobs[j].epoch, 0}

\* Only an insert and a redrive make a row active, one each, of a free key.
Revives(j) ==
  /\ KeyFree(j)
  /\ \A k \in Jobs \ {j} : jobs'[k] = jobs[k]

LEMMA OneRowKept ==
  ASSUME jobs \in [Jobs -> JobRows], NEW j \in Jobs, NEW row,
         jobs' = [jobs EXCEPT ![j] = row],
         row.status \in Active => jobs[j].status \in Active,
         jobs[j].status = "absent" => row.status = "absent",
         row.epoch = jobs[j].epoch
  PROVE  RowsKept
  BY DEF RowsKept

LEMMA SettleKeeps ==
  ASSUME QueueInv, NEW r \in runs, NEW age, NEW retry, NEW failed \in BOOLEAN,
         jobs' = Settled(r, age, retry, failed)
  PROVE  RowsKept
<1>0. r.job \in Jobs /\ jobs[r.job] \in JobRows /\ jobs \in [Jobs -> JobRows]
  BY DEF QueueInv, Runs
<1>1. CASE jobs' = jobs
  BY <1>1 DEF RowsKept
<1>2. CASE jobs' # jobs
  <2>1. jobs[r.job].status = "claimed"
    BY <1>2 DEF Settled, Completed, Failed, Holds
  <2>2. PICK row : /\ jobs' = [jobs EXCEPT ![r.job] = row]
                   /\ row.epoch = jobs[r.job].epoch
    <3>1. CASE jobs' = [jobs EXCEPT ![r.job].status = "done", ![r.job].left = Expired]
      <4> DEFINE row == [jobs[r.job] EXCEPT !.status = "done", !.left = Expired]
      <4>1. jobs' = [jobs EXCEPT ![r.job] = row] /\ row.epoch = jobs[r.job].epoch
        BY <1>0, <3>1 DEF JobRows
      <4> HIDE DEF row
      <4> QED BY <4>1
    <3>2. CASE jobs' = [jobs EXCEPT ![r.job] = Buried(@)]
      BY <1>0, <3>2 DEF JobRows, Buried
    <3>3. CASE jobs' = [jobs EXCEPT ![r.job].status = "queued", ![r.job].owner = NoOwner,
                                    ![r.job].left = Expired, ![r.job].wait = retry - age]
      <4> DEFINE row == [jobs[r.job] EXCEPT !.status = "queued", !.owner = NoOwner,
                                            !.left = Expired, !.wait = retry - age]
      <4>1. jobs' = [jobs EXCEPT ![r.job] = row] /\ row.epoch = jobs[r.job].epoch
        BY <1>0, <3>3 DEF JobRows
      <4> HIDE DEF row
      <4> QED BY <4>1
    <3> QED BY <1>2, <3>1, <3>2, <3>3 DEF Settled, Completed, Failed
  <2>3. jobs[r.job].status \in Active /\ jobs[r.job].status # "absent"
    BY <2>1 DEF Active
  <2> QED BY <1>0, <2>2, <2>3, OneRowKept
<1> QED BY <1>1, <1>2

LEMMA RunKeeps ==
  ASSUME QueueInv, NEW r \in runs, RunStep(r)
  PROVE  RowsKept
<1>0. r.job \in Jobs /\ jobs[r.job] \in JobRows /\ jobs \in [Jobs -> JobRows]
  BY DEF QueueInv, Runs
<1>1. CASE jobs' = jobs
  BY <1>1 DEF RowsKept
<1>2. ASSUME NEW age, NEW retry, NEW failed \in BOOLEAN, jobs' = Settled(r, age, retry, failed)
      PROVE  RowsKept
  BY <1>2, SettleKeeps
<1>3. ASSUME NEW age, NEW reached, ReleaseUnstarted(r, age, reached), jobs' # jobs
      PROVE  RowsKept
  <2> DEFINE row == [jobs[r.job] EXCEPT !.status = "queued", !.attempt = @ - 1,
                                        !.owner = NoOwner, !.left = Expired]
  <2>1. jobs[r.job].status = "claimed" /\ jobs' = [jobs EXCEPT ![r.job] = row]
    BY <1>3 DEF ReleaseUnstarted, Holds
  <2>2. row.epoch = jobs[r.job].epoch
    BY <1>0 DEF JobRows
  <2> HIDE DEF row
  <2> QED BY <1>0, <2>1, <2>2, OneRowKept DEF Active
<1>4. ASSUME NEW age, Heartbeat(r, age) PROVE RowsKept
  <2> DEFINE row == [jobs[r.job] EXCEPT !.left = JobTTL - age]
  <2>1. jobs[r.job].status = "claimed" /\ jobs' = [jobs EXCEPT ![r.job] = row]
    BY <1>4 DEF Heartbeat, Holds
  <2>2. row.epoch = jobs[r.job].epoch
    BY <1>0 DEF JobRows
  <2> HIDE DEF row
  <2> QED BY <1>0, <2>1, <2>2, OneRowKept DEF Active
<1> QED
  BY <1>1, <1>2, <1>3, <1>4
  DEF RunStep, Start, LeaveUnrun, HeartbeatEnds, Abandon, SettleStep, Settle, SettleRaises

LEMMA ClaimKeeps ==
  ASSUME QueueInv, NEW w \in Workers, ClaimStep(w)
  PROVE  RowsKept
<1>1. PICK age \in Ages, batch \in SUBSET Jobs, retired \in SUBSET Jobs,
            locked \in SUBSET Jobs :
        Claim(w, batch, retired, locked, age)
  BY DEF ClaimStep, Candidates
<1>2. /\ \A j \in batch : Ready(j, age)
      /\ \A j \in retired : Exhausted(j)
  BY <1>1 DEF Claim, Selection, Candidates
<1>3. ASSUME NEW j \in Jobs
      PROVE  /\ jobs'[j].status \in Active => jobs[j].status \in Active
             /\ jobs[j].status = "absent" => jobs'[j].status = "absent"
             /\ jobs'[j].epoch = jobs[j].epoch
  <2>0. jobs[j] \in JobRows
    BY DEF QueueInv
  <2>1. CASE j \in batch
    <3>1. jobs'[j].epoch = jobs[j].epoch
      BY <1>1, <2>0, <2>1 DEF Claim, Claimed, JobRows
    <3>2. jobs[j].status \in Active /\ jobs[j].status # "absent"
      BY <1>2, <2>1 DEF Ready, Active
    <3> QED BY <3>1, <3>2
  <2>2. CASE j \notin batch /\ j \in retired
    <3>1. jobs'[j].epoch = jobs[j].epoch
      BY <1>1, <2>0, <2>2 DEF Claim, Buried, JobRows
    <3>2. jobs[j].status \in Active /\ jobs[j].status # "absent"
      BY <1>2, <2>2 DEF Exhausted, Active
    <3> QED BY <3>1, <3>2
  <2>3. CASE j \notin batch /\ j \notin retired
    BY <1>1, <2>3 DEF Claim
  <2> QED BY <2>1, <2>2, <2>3
<1> QED BY <1>3 DEF RowsKept

LEMMA StepKeeps ==
  ASSUME QueueInv, Next, ~EnqueueStep, \A j \in Jobs : ~Redrive(j)
  PROVE  RowsKept
<1>0. jobs \in [Jobs -> JobRows]
  BY DEF QueueInv
<1>1. ASSUME jobs' = jobs PROVE RowsKept
  BY <1>1 DEF RowsKept
<1>2. CASE Elect
  BY <1>1, <1>2 DEF Elect, queueVars
<1>3. ASSUME NEW key, Withdraw(key) PROVE RowsKept
  BY <1>0, <1>3 DEF Withdraw, RowsKept, Active, JobRows
<1>4. ASSUME NEW old, Prune(old) PROVE RowsKept
  BY <1>0, <1>4 DEF Prune, RowsKept, AbsentJob, Active, Terminal
<1>5. ASSUME NEW w \in Workers, WorkerStep(w) PROVE RowsKept
  BY <1>1, <1>5, ClaimKeeps DEF WorkerStep, StopWorker, Restart
<1>6. ASSUME NEW r \in runs, RunStep(r) PROVE RowsKept
  BY <1>6, RunKeeps
<1>7. CASE Tick
  BY <1>0, <1>7 DEF Tick, RowsKept, JobRows
<1> QED
  BY <1>2, <1>3, <1>4, <1>5, <1>6, <1>7 DEF Next, Act, AdminStep

LEMMA RedriveRevives ==
  ASSUME QueueInv, NEW j \in Jobs, Redrive(j)
  PROVE  /\ Revives(j)
         /\ \A k \in Jobs : /\ jobs[k].status = "absent" => jobs'[k].status = "absent"
                            /\ jobs'[k].epoch = jobs[k].epoch
<1> DEFINE row == [jobs[j] EXCEPT !.status = "queued", !.attempt = 0,
                                  !.owner = NoOwner, !.left = Expired]
<1>1. /\ jobs' = [jobs EXCEPT ![j] = row] /\ jobs[j].status = "dead" /\ KeyFree(j)
      /\ jobs \in [Jobs -> JobRows]
  BY DEF Redrive, QueueInv
<1>2. row.epoch = jobs[j].epoch
  BY <1>1 DEF JobRows
<1> HIDE DEF row
<1> QED BY <1>1, <1>2 DEF Revives

\* A key has at most one active row, for any number of rows, keys, workers and
\* coordinators: the work behind a key is never queued twice at once.
THEOREM KeysUnique == Spec => []UniqueActive
<1>1. Init => QueueInv /\ UniqueActive
  BY NoRow DEF Init, QueueInv, Budgeted, UniqueActive, AbsentJob, Active
<1>2. QueueInv /\ UniqueActive /\ [Next]_vars => UniqueActive'
  <2> SUFFICES ASSUME QueueInv, UniqueActive, [Next]_vars PROVE UniqueActive'
    OBVIOUS
  <2>1. ASSUME NEW j \in Jobs, Revives(j) PROVE UniqueActive'
    BY <2>1 DEF Revives, KeyFree, UniqueActive
  <2>2. CASE EnqueueStep
    <3>1. PICK j \in Jobs : KeyFree(j) /\ \E row : jobs' = [jobs EXCEPT ![j] = row]
      BY <2>2 DEF EnqueueStep, Enqueue
    <3> QED BY <2>1, <3>1 DEF Revives, QueueInv
  <2>3. ASSUME NEW j \in Jobs, Redrive(j) PROVE UniqueActive'
    BY <2>1, <2>3, RedriveRevives
  <2>4. ASSUME RowsKept PROVE UniqueActive'
    BY <2>4 DEF RowsKept, UniqueActive
  <2>5. CASE UNCHANGED vars
    BY <2>5 DEF vars, UniqueActive
  <2> QED
    BY <2>2, <2>3, <2>4, <2>5, StepKeeps
<1>3. Spec => []LeaseTypeOK
  BY QueueImplementsElection, LeaseTypeCorrect, PTL
<1> QED
  BY <1>1, <1>2, <1>3, QueueInvKept, PTL DEF Spec
-----------------------------------------------------------------------------
\* Why a deposed coordinator stays out: no row carries an epoch beyond the
\* lease's, which never goes back, and an insert carries the lease's own.
RowsBehind == \A j \in Jobs : jobs[j].epoch <= lease.epoch

LEMMA EpochGrows ==
  ASSUME LeaseTypeOK, [Next]_vars
  PROVE  lease'.epoch \in Nat /\ lease'.epoch >= lease.epoch
<1>0. lease \in Rows(Procs, LeaseTTL) /\ lease.epoch \in Nat
  BY DEF LeaseTypeOK, Rows
<1>1. ASSUME UNCHANGED lease PROVE lease'.epoch \in Nat /\ lease'.epoch >= lease.epoch
  BY <1>0, <1>1
<1>2. ASSUME NEW p \in Procs, NEW age \in Ages, NEW answered \in BOOLEAN,
             AcquireGranted(p, age, answered) \/ Renew(p, age, answered)
      PROVE  lease'.epoch \in Nat /\ lease'.epoch >= lease.epoch
  <2>1. CASE AcquireGranted(p, age, answered)
    BY <1>0, <2>1, AcquiredRow DEF AcquireGranted
  <2>2. CASE Renew(p, age, answered)
    BY <1>0, <2>2, RenewedRow DEF Renew
  <2> QED BY <1>2, <2>1, <2>2
<1>3. CASE LeaseTick
  BY <1>0, <1>3, AgedRow DEF LeaseTick, Rows
<1>4. [LeaseNext]_leaseVars
  BY QueueStepIsElectionStep
<1> QED
  BY <1>1, <1>2, <1>3, <1>4
  DEF LeaseNext, LeaseStep, Maintain, AcquireDenied, RenewRefused, StepDown, Stop, leaseVars

\* Once a row of a new leader is in, no insert of a deposed one succeeds, however
\* long ago it read its epoch and its clock.
THEOREM DeposedStayOut == Spec => InsertsFenced
<1>1. Init => QueueInv /\ RowsBehind
  BY NoRow DEF Init, QueueInv, Budgeted, RowsBehind, AbsentJob, LeaseInit, AbsentRow
<1>2. ASSUME QueueInv, LeaseTypeOK, RowsBehind, EnqueueStep
      PROVE  /\ RowsBehind'
             /\ \A j, k \in Jobs :
                  jobs[j].status = "absent" /\ jobs'[j].status # "absent" =>
                    jobs'[j].epoch >= jobs[k].epoch
  <2>1. PICK j \in Jobs :
          /\ \E row : jobs' = [jobs EXCEPT ![j] = row] /\ row.epoch = lease.epoch
          /\ lease' = lease /\ jobs[j].status = "absent"
    <3>1. PICK j \in Jobs, wait \in 0..MaxWait :
            /\ jobs' = [jobs EXCEPT ![j] = Inserted(lease.epoch, wait)] /\ lease' = lease
            /\ jobs[j].status = "absent"
      BY <1>2 DEF EnqueueStep, Enqueue, leaseVars
    <3>2. Inserted(lease.epoch, wait).epoch = lease.epoch
      BY DEF Inserted
    <3> QED BY <3>1, <3>2
  <2>2. lease.epoch \in Nat /\ \A k \in Jobs : jobs[k].epoch \in Nat
    BY <1>2 DEF LeaseTypeOK, Rows, QueueInv, JobRows
  <2>3. jobs \in [Jobs -> JobRows]
    BY <1>2 DEF QueueInv
  <2> QED BY <1>2, <2>1, <2>2, <2>3 DEF RowsBehind
<1>3. ASSUME QueueInv, LeaseTypeOK, RowsBehind, [Next]_vars, ~EnqueueStep
      PROVE  /\ RowsBehind'
             /\ \A j \in Jobs : jobs[j].status = "absent" => jobs'[j].status = "absent"
  <2>1. \A j \in Jobs : /\ jobs'[j].epoch \in {jobs[j].epoch, 0}
                        /\ jobs[j].status = "absent" => jobs'[j].status = "absent"
    <3>1. CASE UNCHANGED vars
      BY <3>1 DEF vars
    <3>2. ASSUME NEW j \in Jobs, Redrive(j)
          PROVE  \A k \in Jobs : /\ jobs'[k].epoch = jobs[k].epoch
                                 /\ jobs[k].status = "absent" => jobs'[k].status = "absent"
      BY <1>3, <3>2, RedriveRevives
    <3>3. CASE RowsKept
      BY <3>3 DEF RowsKept
    <3> QED BY <1>3, <3>1, <3>2, <3>3, StepKeeps
  <2>2. lease.epoch \in Nat /\ lease'.epoch \in Nat /\ lease'.epoch >= lease.epoch
    BY <1>3, EpochGrows DEF LeaseTypeOK, Rows
  <2>3. \A j \in Jobs : jobs[j].epoch \in Nat /\ jobs[j].epoch <= lease.epoch
    BY <1>3 DEF QueueInv, JobRows, RowsBehind
  <2> QED BY <2>1, <2>2, <2>3 DEF RowsBehind
<1>4. QueueInv /\ LeaseTypeOK /\ RowsBehind /\ [Next]_vars =>
        /\ RowsBehind'
        /\ \A j, k \in Jobs :
             jobs[j].status = "absent" /\ jobs'[j].status # "absent" =>
               jobs'[j].epoch >= jobs[k].epoch
  BY <1>2, <1>3
<1>5. QueueInv /\ LeaseTypeOK /\ RowsBehind /\ [Next]_vars =>
        [ \A j, k \in Jobs :
            jobs[j].status = "absent" /\ jobs'[j].status # "absent" =>
              jobs'[j].epoch >= jobs[k].epoch ]_vars
  BY <1>4
<1>6. Spec => []LeaseTypeOK
  BY QueueImplementsElection, LeaseTypeCorrect, PTL
<1> QED
  BY <1>1, <1>4, <1>5, <1>6, QueueInvKept, PTL DEF Spec, InsertsFenced
-----------------------------------------------------------------------------
\* A task touches its own row only, and only while it holds the claim; the step
\* that takes the row out of the claim is the task's last.
LEMMA RunTouches ==
  ASSUME QueueInv, NEW r \in runs, RunStep(r)
  PROVE  /\ \A j \in Jobs \ {r.job} : jobs'[j] = jobs[j]
         /\ jobs' = jobs \/ (\E age \in Ages : Holds(r.worker, r.job, age))
         /\ \/ r \notin runs'
            \/ /\ jobs'[r.job].status = jobs[r.job].status
               /\ jobs'[r.job].owner = jobs[r.job].owner
               /\ jobs'[r.job].attempt = jobs[r.job].attempt
<1>0. r.job \in Jobs /\ jobs \in [Jobs -> JobRows] /\ jobs[r.job] \in JobRows
  BY DEF QueueInv, Runs
<1>1. CASE Start(r) \/ LeaveUnrun(r) \/ HeartbeatEnds(r) \/ Abandon(r)
  <2>1. jobs' = jobs
    BY <1>1 DEF Start, LeaveUnrun, HeartbeatEnds, Abandon
  <2> QED BY <2>1
<1>2. ASSUME NEW age \in Ages, NEW retry, NEW failed \in BOOLEAN,
             jobs' = jobs \/ jobs' = Settled(r, age, retry, failed)
      PROVE  /\ \A j \in Jobs \ {r.job} : jobs'[j] = jobs[j]
             /\ jobs' = jobs \/ Holds(r.worker, r.job, age)
  BY <1>0, <1>2 DEF Settled, Completed, Failed
<1>3. ASSUME NEW age, NEW retry, NEW failed, NEW committed,
             SettleRaises(r, age, retry, failed, committed)
      PROVE  r \notin runs'
  <2>1. r \in Siblings(r) /\ r \in Runs /\ runs \subseteq Runs
    BY DEF Siblings, QueueInv
  <2>2. ASSUME NEW q \in Siblings(r) \ {r} PROVE [q EXCEPT !.detached = TRUE] # r
    <3>1. q \in Runs /\ q.detached = r.detached /\ q # r
      BY <2>1 DEF Siblings
    <3>2. CASE r.detached = TRUE
      BY <2>1, <3>1, <3>2 DEF Runs
    <3>3. CASE r.detached = FALSE
      BY <2>1, <3>1, <3>3 DEF Runs
    <3> QED BY <2>1, <3>2, <3>3 DEF Runs
  <2> QED BY <1>3, <2>1, <2>2 DEF SettleRaises
<1>4. CASE SettleStep(r)
  <2>1. PICK age \in Ages, retry \in 0..RetryDelay, failed \in BOOLEAN :
          jobs' = jobs \/ jobs' = Settled(r, age, retry, failed)
    BY <1>4 DEF SettleStep, Settle, SettleRaises
  <2>2. r \notin runs'
    BY <1>3, <1>4 DEF SettleStep, Settle
  <2> QED BY <1>2, <2>1, <2>2
<1>5. ASSUME NEW age \in Ages, NEW reached, ReleaseUnstarted(r, age, reached)
      PROVE  /\ \A j \in Jobs \ {r.job} : jobs'[j] = jobs[j]
             /\ jobs' = jobs \/ Holds(r.worker, r.job, age)
             /\ r \notin runs'
  BY <1>0, <1>5 DEF ReleaseUnstarted
<1>6. ASSUME NEW age \in Ages, Heartbeat(r, age)
      PROVE  /\ \A j \in Jobs \ {r.job} : jobs'[j] = jobs[j]
             /\ Holds(r.worker, r.job, age)
             /\ jobs'[r.job].status = jobs[r.job].status
             /\ jobs'[r.job].owner = jobs[r.job].owner
             /\ jobs'[r.job].attempt = jobs[r.job].attempt
  BY <1>0, <1>6 DEF Heartbeat, JobRows
<1> QED
  BY <1>1, <1>4, <1>5, <1>6 DEF RunStep

\* A claim that has run out for every reader stays so for its former holder: it
\* is reclaimed with another attempt or buried, for any worker and any lateness.
THEOREM ExpiredClaimStaysDead == Spec => NoSilentRevival
<1>1. Init => QueueInv
  BY NoRow DEF Init, QueueInv, Budgeted
<1> DEFINE Reclaimed(j) ==
      jobs[j].status = "claimed" /\ jobs[j].left = Expired =>
        \/ jobs'[j].status = "dead"
        \/ /\ jobs'[j].status = "claimed"
           /\ jobs'[j].attempt > jobs[j].attempt \/ jobs'[j].left = Expired
<1>2. ASSUME QueueInv, LeaseTypeOK, Next, NEW j \in Jobs PROVE Reclaimed(j)
  <2>0. jobs \in [Jobs -> JobRows] /\ jobs[j] \in JobRows /\ jobs[j].attempt \in Int
    BY <1>2, Limits DEF QueueInv, JobRows
  <2>1. CASE jobs'[j] = jobs[j]
    BY <2>1
  <2>2. CASE Elect \/ EnqueueStep \/ AdminStep
    BY <1>2, <2>0, <2>1, <2>2
    DEF Elect, queueVars, EnqueueStep, Enqueue, AdminStep, Withdraw, Redrive, Prune, Terminal
  <2>3. ASSUME NEW w \in Workers, ClaimStep(w) PROVE Reclaimed(j)
    <3>1. PICK age \in Ages, batch \in SUBSET Jobs, retired \in SUBSET Jobs,
            locked \in SUBSET Jobs :
            Claim(w, batch, retired, locked, age)
      BY <2>3 DEF ClaimStep, Candidates
    <3>2. CASE j \in batch
      <4>1. jobs'[j].status = "claimed" /\ jobs'[j].attempt = jobs[j].attempt + 1
        BY <2>0, <3>1, <3>2 DEF Claim, Claimed, JobRows
      <4> QED BY <2>0, <4>1
    <3>3. CASE j \notin batch /\ j \in retired
      BY <2>0, <3>1, <3>3 DEF Claim, Buried, JobRows
    <3>4. CASE j \notin batch /\ j \notin retired
      BY <1>2, <2>1, <3>1, <3>4 DEF Claim
    <3> QED BY <3>2, <3>3, <3>4
  <2>4. ASSUME NEW r \in runs, RunStep(r) PROVE Reclaimed(j)
    <3>1. CASE j # r.job
      BY <1>2, <2>1, <2>4, <3>1, RunTouches
    <3>2. CASE j = r.job /\ jobs' # jobs
      <4>1. PICK age \in Ages : LiveFor(jobs[j].left, age)
        BY <1>2, <2>4, <3>2, RunTouches DEF Holds
      <4>2. jobs[j].left # Expired
        BY <4>1, MaxAgeAssumption DEF LiveFor, Expired, Ages
      <4> QED BY <4>2
    <3> QED BY <2>1, <3>1, <3>2
  <2>5. CASE Tick
    <3>1. /\ jobs'[j].status = jobs[j].status
          /\ jobs[j].status = "claimed" => jobs'[j].left = Aged(jobs[j].left)
      BY <1>2, <2>0, <2>5 DEF Tick, JobRows
    <3>2. Aged(Expired) = Expired
      BY Limits DEF Aged
    <3> QED BY <3>1, <3>2
  <2>6. ASSUME NEW w \in Workers, StopWorker(w) \/ Restart(w) PROVE Reclaimed(j)
    BY <2>1, <2>6 DEF StopWorker, Restart
  <2> QED
    BY <1>2, <2>2, <2>3, <2>4, <2>5, <2>6 DEF Next, Act, WorkerStep
<1>3. QueueInv /\ LeaseTypeOK /\ [Next]_vars => [\A j \in Jobs : Reclaimed(j)]_vars
  BY <1>2
<1>4. Spec => []LeaseTypeOK
  BY QueueImplementsElection, LeaseTypeCorrect, PTL
<1> QED
  BY <1>1, <1>3, <1>4, QueueInvKept, PTL DEF Spec, NoSilentRevival

\* A job is never taken out of the hands of a worker whose claim is live: its row
\* keeps its owner and its attempt until a task of that worker ends with it.
THEOREM LiveClaimsRespected == Spec => LeaseRespected
<1>1. Init => QueueInv
  BY NoRow DEF Init, QueueInv, Budgeted
<1> DEFINE Respected(j) ==
      jobs[j].status = "claimed" /\ jobs[j].left > 0 =>
        \/ jobs'[j].status = "claimed" /\ jobs'[j].owner = jobs[j].owner
           /\ jobs'[j].attempt = jobs[j].attempt
        \/ \E r \in runs \ runs' : r.job = j /\ r.worker = jobs[j].owner
<1>2. ASSUME QueueInv, LeaseTypeOK, Next, NEW j \in Jobs PROVE Respected(j)
  <2>0. jobs \in [Jobs -> JobRows] /\ jobs[j] \in JobRows /\ jobs[j].left \in Int
    BY <1>2, Limits DEF QueueInv, JobRows
  <2>1. CASE jobs'[j] = jobs[j]
    BY <2>1
  <2>2. CASE Elect \/ EnqueueStep \/ AdminStep
    BY <1>2, <2>0, <2>1, <2>2
    DEF Elect, queueVars, EnqueueStep, Enqueue, AdminStep, Withdraw, Redrive, Prune, Terminal
  <2>3. ASSUME NEW w \in Workers, ClaimStep(w) PROVE Respected(j)
    <3>1. PICK age \in Ages, batch \in SUBSET Jobs, retired \in SUBSET Jobs,
            locked \in SUBSET Jobs :
            Claim(w, batch, retired, locked, age)
      BY <2>3 DEF ClaimStep, Candidates
    <3>2. CASE j \in batch \cup retired
      <4>1. Ready(j, age)
        BY <3>1, <3>2 DEF Claim, Selection, Candidates
      <4>2. ~(jobs[j].status = "claimed" /\ jobs[j].left > 0)
        BY <2>0, <4>1, MaxAgeAssumption DEF Ready, BeyondFor, Ages
      <4> QED BY <4>2
    <3>3. CASE j \notin batch \cup retired
      BY <1>2, <2>1, <3>1, <3>3 DEF Claim
    <3> QED BY <3>2, <3>3
  <2>4. ASSUME NEW r \in runs, RunStep(r) PROVE Respected(j)
    <3>1. CASE j # r.job
      BY <1>2, <2>1, <2>4, <3>1, RunTouches
    <3>2. CASE j = r.job /\ jobs' # jobs
      BY <1>2, <2>4, <3>2, RunTouches DEF Holds
    <3> QED BY <2>1, <3>1, <3>2
  <2>5. CASE Tick
    BY <1>2, <2>0, <2>5 DEF Tick, JobRows
  <2>6. ASSUME NEW w \in Workers, StopWorker(w) \/ Restart(w) PROVE Respected(j)
    BY <2>1, <2>6 DEF StopWorker, Restart
  <2> QED
    BY <1>2, <2>2, <2>3, <2>4, <2>5, <2>6 DEF Next, Act, WorkerStep
<1>3. QueueInv /\ LeaseTypeOK /\ [Next]_vars => [\A j \in Jobs : Respected(j)]_vars
  BY <1>2
<1>4. Spec => []LeaseTypeOK
  BY QueueImplementsElection, LeaseTypeCorrect, PTL
<1> QED
  BY <1>1, <1>3, <1>4, QueueInvKept, PTL DEF Spec, LeaseRespected

-----------------------------------------------------------------------------
\* With clocks that agree only a claim makes a job live, and it counts every job
\* that is live.  (With readings that are late a heartbeat can extend a claim that
\* a fresher reader has already seen end.)
LEMMA LiveCounted ==
  ASSUME QueueInv, NEW j \in Jobs
  PROVE  InFlight(j, 0) <=> Live(j)
<1>1. jobs[j].left \in Int
  BY Limits DEF QueueInv, JobRows
<1> QED BY <1>1 DEF InFlight, LiveFor, Live

LEMMA ClaimsMakeLive ==
  ASSUME MaxAge = 0, QueueInv, [Next]_vars
  PROVE  \/ \A j \in Jobs : Live(j)' => Live(j)
         \/ \E w \in Workers, batch, retired, locked \in SUBSET Jobs :
              /\ Claim(w, batch, retired, locked, 0)
              /\ \A j \in Jobs \ batch : Live(j)' => Live(j)
<1>0. Ages = {0} /\ jobs \in [Jobs -> JobRows] /\ \A j \in Jobs : jobs[j].left \in Int
  BY Limits DEF Ages, QueueInv, JobRows
<1>1. CASE Elect \/ UNCHANGED vars
  BY <1>1 DEF Elect, queueVars, vars, Live
<1>2. CASE EnqueueStep
  BY <1>0, <1>2 DEF EnqueueStep, Enqueue, Inserted, Live
<1>3. CASE AdminStep
  <2>1. ASSUME NEW j \in Jobs
        PROVE  jobs'[j] = jobs[j] \/ jobs'[j].status # "claimed"
    <3>1. ASSUME NEW key, Withdraw(key) PROVE jobs'[j] = jobs[j] \/ jobs'[j].status # "claimed"
      BY <1>0, <3>1 DEF Withdraw, JobRows
    <3>2. ASSUME NEW k \in Jobs, Redrive(k)
          PROVE  jobs'[j] = jobs[j] \/ jobs'[j].status # "claimed"
      BY <1>0, <3>2 DEF Redrive, JobRows
    <3>3. ASSUME NEW old, Prune(old) PROVE jobs'[j] = jobs[j] \/ jobs'[j].status # "claimed"
      BY <1>0, <3>3 DEF Prune, AbsentJob
    <3> QED BY <1>3, <3>1, <3>2, <3>3 DEF AdminStep
  <2> QED BY <2>1 DEF Live
<1>4. ASSUME NEW w \in Workers, ClaimStep(w)
      PROVE  \E batch, retired, locked \in SUBSET Jobs :
               /\ Claim(w, batch, retired, locked, 0)
               /\ \A j \in Jobs \ batch : Live(j)' => Live(j)
  <2>1. PICK batch, retired, locked \in SUBSET Jobs : Claim(w, batch, retired, locked, 0)
    BY <1>0, <1>4 DEF ClaimStep, Candidates
  <2>2. ASSUME NEW j \in Jobs \ batch, Live(j)' PROVE Live(j)
    <3>1. j \in retired => jobs'[j].status = "dead"
      BY <1>0, <2>1, <2>2 DEF Claim, Buried, JobRows
    <3>2. jobs'[j] = jobs[j]
      BY <2>1, <2>2, <3>1 DEF Claim, Live
    <3> QED BY <2>2, <3>2 DEF Live
  <2> QED BY <2>1, <2>2
<1>5. ASSUME NEW r \in runs, RunStep(r), NEW j \in Jobs, Live(j)' PROVE Live(j)
  <2>1. CASE jobs'[j] = jobs[j]
    BY <1>5, <2>1 DEF Live
  <2>2. CASE jobs'[j] # jobs[j]
    BY <1>0, <1>5, <2>2, RunTouches DEF Holds, LiveFor, Live
  <2> QED BY <2>1, <2>2
<1>6. ASSUME Tick, NEW j \in Jobs, Live(j)' PROVE Live(j)
  <2>1. /\ jobs'[j].status = jobs[j].status
        /\ jobs[j].status = "claimed" => jobs'[j].left = Aged(jobs[j].left)
    BY <1>0, <1>6 DEF Tick, JobRows
  <2> QED BY <1>0, <1>6, <2>1, Limits DEF Aged, Live
<1>7. ASSUME NEW w \in Workers, StopWorker(w) \/ Restart(w)
      PROVE  \A j \in Jobs : Live(j)' => Live(j)
  BY <1>7 DEF StopWorker, Restart, Live
<1> QED
  BY <1>1, <1>2, <1>3, <1>4, <1>5, <1>6, <1>7 DEF Next, Act, WorkerStep

\* With clocks that agree, a tenant has at most one live job, for any number of
\* jobs, workers and tenants.
THEOREM SingleFlightInStep == ASSUME MaxAge = 0 PROVE Spec => []TenantSingleFlight
<1>1. Init => QueueInv /\ TenantSingleFlight
  BY NoRow DEF Init, QueueInv, Budgeted, TenantSingleFlight, Live, AbsentJob
<1>2. QueueInv /\ TenantSingleFlight /\ [Next]_vars => TenantSingleFlight'
  <2> SUFFICES ASSUME QueueInv, TenantSingleFlight, [Next]_vars PROVE TenantSingleFlight'
    OBVIOUS
  <2>1. CASE \A j \in Jobs : Live(j)' => Live(j)
    BY <2>1 DEF TenantSingleFlight
  <2>2. ASSUME NEW w \in Workers, NEW batch \in SUBSET Jobs, NEW retired, NEW locked,
               Claim(w, batch, retired, locked, 0),
               \A j \in Jobs \ batch : Live(j)' => Live(j)
        PROVE  TenantSingleFlight'
    <3>1. \A j \in batch : ~TenantBusy(j, 0)
      BY <2>2 DEF Claim, Selection, Candidates
    <3>2. \A j, k \in batch : j # k /\ TenantOf[j] = TenantOf[k] => TenantOf[j] = NoTenant
      BY <2>2 DEF Claim, Selection
    <3> QED BY <2>2, <3>1, <3>2, LiveCounted DEF TenantSingleFlight, TenantBusy
  <2> QED BY <2>1, <2>2, ClaimsMakeLive
<1>3. Spec => []LeaseTypeOK
  BY QueueImplementsElection, LeaseTypeCorrect, PTL
<1> QED
  BY <1>1, <1>2, <1>3, QueueInvKept, PTL DEF Spec

\* With clocks that agree, no more jobs of the capped capability are live than its
\* ceiling, for any number of workers that claim: a batch that takes one counts
\* those that are live. The rows of a table are finitely many.
THEOREM CapInStep == ASSUME MaxAge = 0, IsFiniteSet(Capped) PROVE Spec => []CapRespected
<1> DEFINE LiveOnes == {j \in Capped : Live(j)}
<1>1. Init => QueueInv /\ CapRespected
  <2> SUFFICES ASSUME Init PROVE QueueInv /\ CapRespected
    OBVIOUS
  <2>1. LiveOnes = {}
    BY QueueAssumption DEF Init, Live, AbsentJob
  <2> QED BY <2>1, NoRow, QueueAssumption, FS_EmptySet
          DEF Init, QueueInv, Budgeted, CapRespected
<1>2. QueueInv /\ CapRespected /\ [Next]_vars => CapRespected'
  <2> SUFFICES ASSUME QueueInv, CapRespected, [Next]_vars PROVE CapRespected'
    OBVIOUS
  <2>0. ASSUME NEW bound \in SUBSET Capped, LiveOnes' \subseteq bound,
               Cardinality(bound) <= Cap
        PROVE  CapRespected'
    <3>1. IsFiniteSet(bound)
      BY FS_Subset
    <3>2. /\ Cardinality(LiveOnes') <= Cardinality(bound)
          /\ Cardinality(LiveOnes') \in Nat /\ Cardinality(bound) \in Nat
      BY <2>0, <3>1, FS_Subset, FS_CardinalityType
    <3> QED BY <2>0, <3>2, QueueAssumption DEF CapRespected
  <2>1. CASE \A j \in Jobs : Live(j)' => Live(j)
    <3>1. LiveOnes' \subseteq LiveOnes
      BY <2>1, QueueAssumption
    <3> QED BY <2>0, <3>1 DEF CapRespected
  <2>2. ASSUME NEW w \in Workers, NEW batch \in SUBSET Jobs, NEW retired, NEW locked,
               Claim(w, batch, retired, locked, 0),
               \A j \in Jobs \ batch : Live(j)' => Live(j)
        PROVE  CapRespected'
    <3> DEFINE counted == {k \in Capped : k \in batch \/ InFlight(k, 0)}
    <3>1. CASE batch \cap Capped = {}
      <4>1. LiveOnes' \subseteq LiveOnes
        BY <2>2, <3>1, QueueAssumption
      <4> QED BY <2>0, <4>1 DEF CapRespected
    <3>2. CASE batch \cap Capped # {}
      <4>1. Cardinality(counted) <= Cap
        BY <2>2, <3>2 DEF Claim, Selection
      <4>2. LiveOnes' \subseteq counted
        BY <2>2, LiveCounted, QueueAssumption
      <4> QED BY <2>0, <4>1, <4>2
    <3> QED BY <3>1, <3>2
  <2> QED BY <2>1, <2>2, ClaimsMakeLive
<1>3. Spec => []LeaseTypeOK
  BY QueueImplementsElection, LeaseTypeCorrect, PTL
<1> QED
  BY <1>1, <1>2, <1>3, QueueInvKept, PTL DEF Spec
=============================================================================
