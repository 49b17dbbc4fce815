------------------------------ MODULE JobQueue ------------------------------
(***************************************************************************)
(* The durable job queue with the workers that drain it and the            *)
(* coordinators that fill it.  A row of background_jobs is an element of   *)
(* Jobs whose identity (key, tenant, priority, capability) is fixed; the   *)
(* conditional UPDATEs of SABackgroundJobQueue are the actions.  A worker  *)
(* claims a batch in one transaction and runs it under a semaphore: a      *)
(* claimed job waits without a heartbeat until its turn comes.             *)
(*                                                                         *)
(* Time is relative, as in RuntimeLease: `left' is lease_until minus now,  *)
(* `wait' is due_at minus now floored at -MaxAge, an age is how long ago a  *)
(* call read its `now'.                                                    *)
(***************************************************************************)
EXTENDS CoordinatorLease, FiniteSets

CONSTANTS Jobs,          \* row ids
          KeyOf,         \* idempotency_key of a job
          TenantOf,      \* tenant_id, NoTenant for None
          NoTenant,
          Priority,
          Capped,        \* jobs whose kind uses the capped capability
          Cap,           \* the ceiling of that capability
          MaxAttempts,
          Workers,       \* worker ids, one per worker process
          JobTTL,        \* lease_seconds of an execution claim, in ticks
          ClaimLimit,    \* _DEFAULT_CLAIM_LIMIT
          Concurrency,   \* execution_concurrency
          RetryDelay,    \* bound on the backoff, in ticks
          MaxWait        \* bound on how far ahead a job is enqueued

ASSUME QueueAssumption ==
  /\ KeyOf \in [Jobs -> STRING] /\ Priority \in [Jobs -> Nat]
  /\ DOMAIN TenantOf = Jobs
  /\ Capped \subseteq Jobs /\ Cap \in Nat
  /\ MaxAttempts \in Nat \ {0}
  /\ NoOwner \notin Workers
  /\ JobTTL \in Nat /\ ClaimLimit \in Nat /\ Concurrency \in Nat \ {0}
  /\ RetryDelay \in Nat /\ MaxWait \in Nat

VARIABLES jobs,      \* the table: jobs[j], "absent" before insert and after prune
          runs,      \* the _run_one tasks that have not ended
          stopping   \* stopping[w]: the worker's stop event is set

queueVars == <<jobs, runs, stopping>>
vars == <<lease, belief, losing, jobs, runs, stopping>>

Active == {"queued", "claimed"}
Terminal == {"done", "dead", "superseded"}
Waits == -MaxAge .. IF RetryDelay > MaxWait THEN RetryDelay ELSE MaxWait

JobRows ==
  [status  : {"absent"} \cup Active \cup Terminal,
   epoch   : Nat,
   attempt : 0..MaxAttempts,
   owner   : Workers \cup {NoOwner},
   left    : Expired..JobTTL,
   wait    : Waits]

AbsentJob ==
  [status |-> "absent", epoch |-> 0, attempt |-> 0, owner |-> NoOwner,
   left |-> Expired, wait |-> -MaxAge]

\* detached: a sibling's exception ended the asyncio.gather of the batch, whose
\* other tasks go on while the worker's loop claims its next batch.
Runs ==
  [worker : Workers, job : Jobs, phase : {"waiting", "running", "aborted"},
   detached : BOOLEAN]

\* No row is charged more attempts than its budget or leased for more than its
\* TTL, and each task that has not ended belongs to a worker and a row.
JobTypeOK ==
  /\ LeaseTypeOK
  /\ jobs \in [Jobs -> JobRows]
  /\ runs \subseteq Runs
  /\ stopping \in [Workers -> BOOLEAN]

Init ==
  /\ LeaseInit
  /\ jobs = [j \in Jobs |-> AbsentJob]
  /\ runs = {}
  /\ stopping = [w \in Workers |-> FALSE]
-----------------------------------------------------------------------------
\* The partial unique index on active rows.
KeyFree(j) == \A k \in Jobs : KeyOf[k] = KeyOf[j] => jobs[k].status \notin Active

Inserted(e, wait) ==
  [status |-> "queued", epoch |-> e, attempt |-> 0, owner |-> NoOwner,
   left |-> Expired, wait |-> wait]

\* Mutant of Enqueue: any epoch that was granted once is accepted.
EnqueueUnfenced(j, e, wait, age) ==
  /\ jobs[j].status = "absent"
  /\ LiveFor(lease.left, age)
  /\ KeyFree(j)
  /\ jobs' = [jobs EXCEPT ![j] = Inserted(e, wait)]
  /\ UNCHANGED <<leaseVars, runs, stopping>>

\* enqueue() of a spec fixed before the call: its epoch is any that was ever
\* granted, its `now' may be old; a refused spec changes nothing.
Enqueue(j, e, wait, age) ==
  /\ jobs[j].status = "absent"
  /\ e = lease.epoch /\ LiveFor(lease.left, age)
  /\ KeyFree(j)
  /\ jobs' = [jobs EXCEPT ![j] = Inserted(e, wait)]
  /\ UNCHANGED <<leaseVars, runs, stopping>>

\* Mutant of Holds: the owner holds its claim as long as nobody else has it.
HoldsExpired(w, j, age) == jobs[j].status = "claimed" /\ jobs[j].owner = w

\* The guard of complete(), fail(), extend_lease() and release_claim().
Holds(w, j, age) ==
  /\ jobs[j].status = "claimed"
  /\ jobs[j].owner = w
  /\ LiveFor(jobs[j].left, age)

\* Mutant of Ready: an expired claim is not ready again.
ReadyQueuedOnly(j, age) == jobs[j].status = "queued" /\ jobs[j].wait + age <= 0

\* claim() selects queued rows that are due and claimed rows whose lease is at
\* or past its end.
Ready(j, age) ==
  \/ jobs[j].status = "queued" /\ jobs[j].wait + age <= 0
  \/ jobs[j].status = "claimed" /\ ~BeyondFor(jobs[j].left, age)

\* Mutant of InFlight: a lease in its last instant no longer counts.
InFlightStrict(j, age) == jobs[j].status = "claimed" /\ BeyondFor(jobs[j].left, age)

\* What the tenant's single flight and the caps count as running.
InFlight(j, age) == jobs[j].status = "claimed" /\ LiveFor(jobs[j].left, age)

TenantBusy(j, age) ==
  /\ TenantOf[j] # NoTenant
  /\ \E k \in Jobs \ {j} : TenantOf[k] = TenantOf[j] /\ InFlight(k, age)

Exhausted(j) == jobs[j].status = "claimed" /\ jobs[j].attempt >= MaxAttempts

\* What the rows picked earlier in the same transaction forbid to j.
Blocked(j, picked, age) ==
  \/ Cardinality(picked) >= ClaimLimit
  \/ TenantOf[j] # NoTenant /\ \E k \in picked : TenantOf[k] = TenantOf[j]
  \/ /\ j \in Capped
     /\ Cardinality({k \in Capped : k \in picked \/ InFlight(k, age)}) >= Cap

Candidates(age) == {j \in Jobs : Ready(j, age) /\ ~TenantBusy(j, age) /\ ~Blocked(j, {}, age)}

\* The rows one claim() transaction takes (batch) and retires as dead, in the
\* order of their priority (ties by due_at and id are left open); rows locked
\* by a concurrent transaction are skipped.
Selection(batch, retired, locked, age) ==
  LET usable == Candidates(age) \ locked
      UpTo(j) == {k \in batch : Priority[k] <= Priority[j]}
      Ahead(j) == {k \in batch : Priority[k] < Priority[j]}
  IN  /\ batch \subseteq {j \in usable : ~Exhausted(j)}
      /\ retired \subseteq {j \in usable : Exhausted(j)}
      /\ Cardinality(batch) <= ClaimLimit
      /\ \A j, k \in batch : j # k /\ TenantOf[j] = TenantOf[k] => TenantOf[j] = NoTenant
      /\ batch \cap Capped # {} =>
           Cardinality({k \in Capped : k \in batch \/ InFlight(k, age)}) <= Cap
      /\ \A j \in retired : ~Blocked(j, Ahead(j), age)
      /\ \A j \in usable \ (batch \cup retired) : Blocked(j, UpTo(j), age)

Claimed(j, w, age) ==
  [jobs[j] EXCEPT !.status = "claimed", !.attempt = @ + 1, !.owner = w, !.left = JobTTL - age]

Buried(row) == [row EXCEPT !.status = "dead", !.owner = NoOwner, !.left = Expired]

Fresh(w, j) == [worker |-> w, job |-> j, phase |-> "waiting", detached |-> FALSE]

\* run_once(): the loop claims again only after the gather of its last batch.
Claim(w, batch, retired, locked, age) ==
  /\ ~stopping[w]
  /\ ~\E r \in runs : r.worker = w /\ ~r.detached
  /\ batch \cup retired # {}
  /\ Selection(batch, retired, locked, age)
  /\ jobs' = [j \in Jobs |-> IF j \in batch THEN Claimed(j, w, age)
                             ELSE IF j \in retired THEN Buried(jobs[j]) ELSE jobs[j]]
  /\ runs' = runs \cup {Fresh(w, j) : j \in batch}
  /\ UNCHANGED <<leaseVars, stopping>>
-----------------------------------------------------------------------------
\* The tasks that share r's batch, and a free slot of its semaphore.
Siblings(r) == {q \in runs : q.worker = r.worker /\ q.detached = r.detached}
SlotFree(r) == Cardinality({q \in Siblings(r) : q.phase # "waiting"}) < Concurrency

\* A task past the semaphore, with no stop requested and the mode still
\* distributed, enters the runner; nothing looks at the claim again.
Start(r) ==
  /\ r \in runs /\ r.phase = "waiting" /\ SlotFree(r)
  /\ ~stopping[r.worker]
  /\ runs' = (runs \ {r}) \cup {[r EXCEPT !.phase = "running"]}
  /\ UNCHANGED <<leaseVars, jobs, stopping>>

\* _release_unstarted() of a worker that is stopping; a failed call is swallowed.
ReleaseUnstarted(r, age, reached) ==
  /\ r \in runs /\ r.phase = "waiting" /\ SlotFree(r)
  /\ stopping[r.worker]
  /\ runs' = runs \ {r}
  /\ jobs' = IF reached /\ Holds(r.worker, r.job, age)
             THEN [jobs EXCEPT ![r.job].status = "queued", ![r.job].attempt = @ - 1,
                               ![r.job].owner = NoOwner, ![r.job].left = Expired]
             ELSE jobs
  /\ UNCHANGED <<leaseVars, stopping>>

\* The mode read just before the run no longer says distributed, or fails: the
\* claim is left to its lease.
LeaveUnrun(r) ==
  /\ r \in runs /\ r.phase = "waiting" /\ SlotFree(r)
  /\ ~stopping[r.worker]
  /\ runs' = runs \ {r}
  /\ UNCHANGED <<leaseVars, jobs, stopping>>

Heartbeat(r, age) ==
  /\ r \in runs /\ r.phase = "running"
  /\ Holds(r.worker, r.job, age)
  /\ jobs' = [jobs EXCEPT ![r.job].left = JobTTL - age]
  /\ UNCHANGED <<leaseVars, runs, stopping>>

\* The heartbeat is refused, fails, or finds the mode no longer distributed: it
\* trips the abort flag and ends.  The body goes on to its next check.
HeartbeatEnds(r) ==
  /\ r \in runs /\ r.phase = "running"
  /\ runs' = (runs \ {r}) \cup {[r EXCEPT !.phase = "aborted"]}
  /\ UNCHANGED <<leaseVars, jobs, stopping>>

Completed(r, age) ==
  IF Holds(r.worker, r.job, age)
  THEN [jobs EXCEPT ![r.job].status = "done", ![r.job].left = Expired]
  ELSE jobs

\* Mutant of Failed: a failure is retried whatever was used up.
FailedRetries(r, age, retry) ==
  IF ~Holds(r.worker, r.job, age) THEN jobs
  ELSE [jobs EXCEPT ![r.job].status = "queued", ![r.job].owner = NoOwner,
                    ![r.job].left = Expired, ![r.job].wait = retry - age]

\* fail() with a retry delay, the only way the worker calls it.
Failed(r, age, retry) ==
  IF ~Holds(r.worker, r.job, age) THEN jobs
  ELSE IF jobs[r.job].attempt >= MaxAttempts
       THEN [jobs EXCEPT ![r.job] = Buried(@)]
       ELSE [jobs EXCEPT ![r.job].status = "queued", ![r.job].owner = NoOwner,
                         ![r.job].left = Expired, ![r.job].wait = retry - age]

Settled(r, age, retry, failed) ==
  IF failed THEN Failed(r, age, retry) ELSE Completed(r, age)

\* The body returns, or its outcome is unknown; an escaped exception is a
\* retry.  An exception is classified before the abort flag is looked at.
Settle(r, age, retry, failed) ==
  /\ r \in runs /\ r.phase # "waiting"
  /\ jobs' = Settled(r, age, retry, failed)
  /\ runs' = runs \ {r}
  /\ UNCHANGED <<leaseVars, stopping>>

\* The call that should settle the job raises, before or after its commit: the
\* gather of the batch ends with it and the other tasks are left on their own.
SettleRaises(r, age, retry, failed, committed) ==
  /\ r \in runs /\ r.phase # "waiting"
  /\ jobs' = IF committed THEN Settled(r, age, retry, failed) ELSE jobs
  /\ runs' = (runs \ Siblings(r)) \cup {[q EXCEPT !.detached = TRUE] : q \in Siblings(r) \ {r}}
  /\ UNCHANGED <<leaseVars, stopping>>

Abandon(r) ==
  /\ r \in runs /\ r.phase = "aborted"
  /\ runs' = runs \ {r}
  /\ UNCHANGED <<leaseVars, jobs, stopping>>

\* stop(): the loop claims no more and waiting jobs are handed back.
StopWorker(w) ==
  /\ ~stopping[w]
  /\ stopping' = [stopping EXCEPT ![w] = TRUE]
  /\ UNCHANGED <<leaseVars, jobs, runs>>

\* The process dies, or stop() runs out of patience and cancels; its successor
\* takes its place (under a new id, which no row of the old one carries).
Restart(w) ==
  /\ runs' = {r \in runs : r.worker # w}
  /\ stopping' = [stopping EXCEPT ![w] = FALSE]
  /\ UNCHANGED <<leaseVars, jobs>>
-----------------------------------------------------------------------------
\* withdraw_queued() of a key.
Withdraw(key) ==
  /\ \E j \in Jobs : KeyOf[j] = key /\ jobs[j].status = "queued"
  /\ jobs' = [j \in Jobs |->
                IF KeyOf[j] = key /\ jobs[j].status = "queued"
                THEN [jobs[j] EXCEPT !.status = "superseded", !.owner = NoOwner, !.left = Expired]
                ELSE jobs[j]]
  /\ UNCHANGED <<leaseVars, runs, stopping>>

\* Mutant of Redrive: without the unique index.
RedriveUnchecked(j) ==
  /\ jobs[j].status = "dead"
  /\ jobs' = [jobs EXCEPT ![j].status = "queued", ![j].attempt = 0,
                          ![j].owner = NoOwner, ![j].left = Expired]
  /\ UNCHANGED <<leaseVars, runs, stopping>>

\* redrive() of a dead row, refused by the index while its key is active.
Redrive(j) ==
  /\ jobs[j].status = "dead" /\ KeyFree(j)
  /\ jobs' = [jobs EXCEPT ![j].status = "queued", ![j].attempt = 0,
                          ![j].owner = NoOwner, ![j].left = Expired]
  /\ UNCHANGED <<leaseVars, runs, stopping>>

\* prune() deletes the rows whose retention, days long, is over: no task of
\* theirs is left by then.
Prune(old) ==
  /\ old # {} /\ \A j \in old : jobs[j].status \in Terminal
  /\ ~\E r \in runs : r.job \in old
  /\ jobs' = [j \in Jobs |-> IF j \in old THEN AbsentJob ELSE jobs[j]]
  /\ UNCHANGED <<leaseVars, runs, stopping>>

Tick ==
  /\ LeaseTick
  /\ jobs' = [j \in Jobs |->
                [jobs[j] EXCEPT !.left = IF jobs[j].status = "claimed" THEN Aged(@) ELSE @,
                                !.wait = IF @ > -MaxAge THEN @ - 1 ELSE @]]
  /\ UNCHANGED <<runs, stopping>>

\* Only the settlement or heartbeat of a claimed row can hold its lock.
ClaimStep(w) ==
  \E age \in Ages, locked \in SUBSET {j \in Jobs : jobs[j].status = "claimed"} :
    \E batch, retired \in SUBSET (Candidates(age) \ locked) : Claim(w, batch, retired, locked, age)

SettleStep(r) ==
  \E age \in Ages, retry \in 0..RetryDelay, failed, committed \in BOOLEAN :
    Settle(r, age, retry, failed) \/ SettleRaises(r, age, retry, failed, committed)

RunStep(r) ==
  \/ Start(r) \/ LeaveUnrun(r) \/ HeartbeatEnds(r) \/ Abandon(r) \/ SettleStep(r)
  \/ \E age \in Ages, reached \in BOOLEAN : ReleaseUnstarted(r, age, reached)
  \/ \E age \in Ages : Heartbeat(r, age)

WorkerStep(w) == ClaimStep(w) \/ StopWorker(w) \/ Restart(w)

AdminStep ==
  \/ \E j \in Jobs : Withdraw(KeyOf[j]) \/ Redrive(j)
  \/ \E old \in SUBSET Jobs : Prune(old)

EnqueueStep ==
  \E j \in Jobs, e \in 1..lease.epoch, wait \in 0..MaxWait, age \in Ages : Enqueue(j, e, wait, age)

Elect == LeaseStep /\ UNCHANGED queueVars

Act ==
  \/ Elect \/ EnqueueStep \/ AdminStep
  \/ \E w \in Workers : WorkerStep(w)
  \/ \E r \in runs : RunStep(r)

Next == Act \/ Tick

Spec == Init /\ [][Next]_vars

\* The loops go round, claims get through, every body ends, and a worker that
\* was told to stop is replaced.
Moves(w, j) ==
  \E r \in runs :
    /\ r.worker = w /\ r.job = j
    /\ Start(r) \/ ReleaseUnstarted(r, 0, TRUE) \/ Abandon(r)
         \/ \E failed \in BOOLEAN : Settle(r, 0, 0, failed)
Picks(j) ==
  \E w \in Workers, batch, retired \in SUBSET Jobs :
    j \in batch \cup retired /\ Claim(w, batch, retired, {}, 0)

LiveSpec ==
  /\ Spec
  /\ WF_vars(Tick)
  /\ \A j \in Jobs : SF_vars(Picks(j))
  /\ \A w \in Workers, j \in Jobs : SF_vars(Moves(w, j))
  /\ \A w \in Workers : WF_vars(stopping[w] /\ Restart(w))
-----------------------------------------------------------------------------
\* At most one active row per idempotency key, through every insert, requeue
\* and redrive: the same piece of work is never queued twice at once.
UniqueActive ==
  \A j, k \in Jobs :
    KeyOf[j] = KeyOf[k] /\ jobs[j].status \in Active /\ jobs[k].status \in Active => j = k

\* Rows are inserted under epochs that never go back: once a takeover's first
\* row is in, no spec of a deposed coordinator gets in any more.
InsertsFenced ==
  [][ \A j, k \in Jobs :
        jobs[j].status = "absent" /\ jobs'[j].status # "absent" =>
          jobs'[j].epoch >= jobs[k].epoch ]_vars

\* Attempts are charged to claims and given back by releases only: a queued row
\* always has one left, a claimed row holds one, and a row dies with all used.
AttemptBudget ==
  \A j \in Jobs :
    /\ jobs[j].status = "queued" => jobs[j].attempt < MaxAttempts
    /\ jobs[j].status = "claimed" => jobs[j].attempt \in 1..MaxAttempts
    /\ jobs[j].status = "dead" => jobs[j].attempt = MaxAttempts

\* A job whose lease is live is taken out of its owner's hands only by a task of
\* that owner, in the step that ends this task.
LeaseRespected ==
  [][ \A j \in Jobs :
        jobs[j].status = "claimed" /\ jobs[j].left > 0 =>
          \/ jobs'[j].status = "claimed" /\ jobs'[j].owner = jobs[j].owner
             /\ jobs'[j].attempt = jobs[j].attempt
          \/ \E r \in runs \ runs' : r.job = j /\ r.worker = jobs[j].owner ]_vars

\* A tenant has at most one live job, and a capped capability at most Cap,
\* however claims, heartbeats and settlements of the workers interleave, as long
\* as their clocks are in step (MaxAge = 0).
Live(j) == jobs[j].status = "claimed" /\ jobs[j].left >= 0

TenantSingleFlight ==
  \A j, k \in Jobs :
    Live(j) /\ Live(k) /\ TenantOf[j] = TenantOf[k] /\ TenantOf[j] # NoTenant => j = k

CapRespected == Cardinality({j \in Capped : Live(j)}) <= Cap

\* Every job that is queued or claimed is done, dead or superseded in the end,
\* whatever crashes, provided that workers are not told to stop for ever: each
\* stop gives its waiting jobs their attempt back.
Settles(j) == jobs[j].status \in Active ~> jobs[j].status \notin Active
StopsEnd == <>[](\A w \in Workers : ~stopping[w])

JobSettles == StopsEnd => \A j \in Jobs : Settles(j)

\* A claim that has run out for every reader is claimed again, with another
\* attempt, or buried; its former holder neither extends, settles nor requeues it.
NoSilentRevival ==
  [][ \A j \in Jobs :
        jobs[j].status = "claimed" /\ jobs[j].left = Expired =>
          \/ jobs'[j].status = "dead"
          \/ /\ jobs'[j].status = "claimed"
             /\ jobs'[j].attempt > jobs[j].attempt \/ jobs'[j].left = Expired ]_vars
=============================================================================
