# Verification of the concurrent core

This directory holds TLA+ models of the concurrent core of the program: the
background runtime that keeps characters living while nobody talks to them, and the
turns of a conversation with everything that races them. TLC checks the models on
small instances; the TLA+ proof system proves every safety property that a passing run
checks, for every value of the constants: any number of processes, jobs,
workers, operators, deliveries, turns, writers, undos, buckets or rows (the admission cap alone is
proved for clocks in step, section 5). The reference is the code under
`src/src/kokoro_link` (paths below are relative to it); every definition is translated from the lines that `PROJECT.json`
names under `map`.

## 1. The system and its components

The program is a FastAPI service with a relational database. Nearly all of its
code turns records into prompts and prompts into records. What is
hard about it is the *runtime* around this work, which comes in two shapes:

* **embedded**: one process; `ProactiveScheduler` ticks in-process;
* **distributed**: coordinator replicas elect a leader that enqueues jobs, worker
  replicas claim and run them, API replicas serve requests and hand work over.

They share nothing but rows of one database. Each call is one transaction,
usually a conditional `UPDATE` under a row lock, and each caller reads its clock
before the transaction. Between two calls anything may happen.

| component | state | operations | interacts with | hard behaviours | what makes it correct |
|---|---|---|---|---|---|
| runtime leases (`infrastructure/persistence/sa_background_runtime.py`) | row per lease name: owner, epoch, `lease_until` | `acquire`, `renew`, `release` | coordinator, studio runs, chat turns | stale clocks, lost replies | an epoch names one owner; an expired lease is never revived |
| coordinator (`application/services/background_shadow_coordinator.py`) | `_epoch`, place in its pass | lease upkeep, enqueue, heartbeat between enqueues, reconcile | lease, queue | stopping without release, takeover in mid batch | one leader per epoch; somebody leads again |
| tick journal mirror (same file, `proactive_scheduler.py`) | journal, cursor | record a tick, mirror a bucket, advance | lease, queue | crash between the rows of a bucket and the cursor | no bucket passed over with a row missing |
| job queue (`sa_background_jobs.py`, `contracts/background_jobs.py`) | `background_jobs`: status, epoch, attempt, owner, lease, due time | `enqueue`, `claim`, `extend_lease`, `complete`, `fail`, `release_claim`, `withdraw_queued`, `redrive`, `prune` | coordinators, workers, API, operators | claims run out while in use, ties at the instant of expiry, conditional updates in any order | unique active key, fencing, single flight per tenant, caps, attempt budget, settlement |
| background worker (`background_shadow_worker.py`, `execution_mode_runner.py`) | batch, semaphore, heartbeat and abort flag per job, stop event | `run_once`, run, settle, stop | queue, mode row | jobs waiting behind a semaphore, exceptions inside a `gather`, stop with work in hand | a body runs only under a claim that is held |
| execution mode (`execution_mode_transition.py`, `cli/switch_background_mode.py`, admin routes) | mode row with its epoch, drain cursor | `enter_paused`, `observe_drain`, `leave_paused` | workers, scheduler | calls of several transactions; two operators; crashes between | never both sides at work; a pause can be left |
| due chains (`due_job_handlers.py`, `due_job_reconciler.py`, `due_job_scheduler.py`) | one self-continuing chain per kind and character | handle, advance, reconcile | queue, lease | reclaim after the next link is in; a pass of two reads | one link, never a chain that is gone for good |
| post-turn hand-over (`post_turn_runner.py`, `chat_service.py`) | outcome of the hand-over | `enqueue`, `_classify_none`, fallback | lease, queue | raises with unknown commit, retry, leader changes | the turn is processed, and not twice |
| external chat turn (`external_chat_turn_service.py`, `external_chat/`, `sa_external_chat_turn_repository.py`) | receipt with version and lease, the thread | claim, drive, recover, refuse | channel, conversation, model | deliveries in parallel, crash between append and receipt, lost answer | one decision, one exchange, an answer in the end |
| chat turn (`chat_service.py`, `chat_turn_lease.py`) | lease, snapshot, reservation | admit, load, charge, acquire, save, answer, close | lease, wallet, drain, other writers | load before the lease, saves minutes later | one turn at a time, nothing lost, charges closed |
| conversation row (`sa_conversation_repository.py`) | messages, version | append at a position, merging save | turns, scenes, dispatcher, undo | stale snapshots | each message once |
| drain of the API (`drain_state.py`) | flag, turns in flight | drain, admit | deployment | a turn between its check and its count | count 0 means idle |
| turn undo (`turn_undo_service.py`, `turn_undo/steps/`, `undone_turn_gate.py`) | journals, tombstones | undo, gate | post-turn body, checkpoint, digest | undo against bodies in flight | exact: all of the turn, nothing else |
| dialogue checkpoint and material digest (`dialogue_checkpoint/`, `material_digest_precompute.py`) | summary with coverage and stale mark; digest with stamp | merge, rebuild, latch; store, withdraw | undo, turns | read long before the compare-and-swap | no summary of deleted messages |
| studio and encounter leases (`studio_execution_lease.py`, `encounter_pair_lease.py`) | a lease each | acquire, heartbeat, release | runtime lease | loss while working | mutual exclusion of live holders |
| pending follow-ups (`pending_follow_up_*.py`) | promised instants | release, dispatch | queue, proactive dispatcher | event job against reconciler | a promise released once |
| proactive dispatcher (`proactive_dispatcher.py`) | slots, delivery marks | attempt, deliver | gateways | crash between delivery and its mark | delivery limits |
| realtime events (`realtime_*`) | outbox, cursors | publish, replay | clients | lost and repeated events | every event seen |
| cloud billing, feed video, story scenes | reservations, external job ids, scene phases | reserve/settle, submit/poll, advance | external services | timeouts, unknown outcome | settle once, finish or fail |
| characters, schedules, memory, models and prompts, gateways, routes, frontend, migrations | records | CRUD, external calls, UI | – | little | – |

`PROJECT.json` lists each with its sources and status, and says for the ones not or
partly modelled why. Its `hazards` name the places where tests would hardly reach;
every property below is aimed at one of them.

## 2. Modules

```
RuntimeLease              operations on one lease row, as operators on a row value
   ^
CoordinatorLease          the coordinators: lease row + belief of each process
   ^      ^     ^
   |      |     CoordinatorLeaseProofs       theorems about the election
   |      |            ^
   |   TickJournal     |      election + journal, mirror passes and cursor, composed
   |      ^            |
   |      +----------- + -- TickJournalProofs   theorems about the mirror
   |                   |
JobQueue               |      queue + workers + election, composed
   ^                   |
   +---------- JobQueueProofs                theorems about the queue
ExecutionMode             mode row, drain cursor, operators, workers, scheduler tick
   ^
   |  PostTurn            one chat turn: enqueuing call, its rows, the fallback
   |     ^
   +-----+-- HandOverProofs                  theorems about barrier, drain and what runs twice
DueChains                 one chain of due jobs, reconciler and leader
   ^------ DueChainsProofs                   theorems about reads and forks
TurnOutcome               what the channel is promised about one request (abstract)
   : INSTANCE
ExternalTurn              receipt, deliveries and conversation of that request
   ^------ ExternalTurnProofs                theorems about outcome, exchange and reply
Conversation              the row of a conversation and its two ways of writing
   ^
ChatTurns                 turns on replicas, other writers, charge, drain
   ^------ ChatTurnsProofs                   theorems about lease, drain and saves
TurnUndo                  undo steps against bodies, checkpoint, digest, new turns
   ^------ TurnUndoProofs                    theorems about summary, positions and traces
MC*                       constants of the checked instances
```

`JobQueue` and `TickJournal` EXTEND `CoordinatorLease`, so their steps interleave with
takeovers: an insert checks the very row that elections change. `ExecutionMode`,
`PostTurn` and `DueChains` keep of queue and lease only what their code looks at, so
that the protocol under study can be taken call by call. `ExternalTurn` is shown to
implement `TurnOutcome` by `INSTANCE ... WITH`.

### RuntimeLease, CoordinatorLease

`lease = [epoch, owner, left]` is the row of `background-coordinator`. Time is
relative: `left` is `lease_until - now` in ticks. A call carries an `age`: how many
ticks ago its `now` was read, up to `MaxAge`. So a slow caller, or one whose clock
is behind, decides on an old instant (`LiveFor`, `BeyondFor`), and a renewal with an old
reading extends by less. `left` is floored at `Expired = -(MaxAge+1)`, from where no
age can tell the instants apart. `belief[p]` is `self._epoch` and `losing[p]` marks
the moment between a refused `renew()` and the `acquire()` that follows it.

| action | code |
|---|---|
| `AcquireGranted`, `AcquireDenied`, `Renew`, `RenewRefused` | `_maintain_lease`; `answered = FALSE`: committed, reply lost |
| `StepDown` | heartbeat and lease check between two enqueues of a batch |
| `Stop` | `stop()` or death: the row is *not* released (the coordinator never calls `release()`) |

### TickJournal

The shadow soak. `Record` is a tick of the embedded scheduler that journals the
characters it processed and then the social row, its bucket's marker; a tick whose
journalling fails in the middle leaves no marker, and a bucket has several ticks. A
coordinator's pass is `Upkeep` (`_maintain_lease`), `MirrorReads` (cursor and earliest
bucket behind it, which must have its marker), then row by row `Heartbeat`, `EnqueueRow`
(fenced by epoch and lease; its `None` is not told from that of an active key),
`StillLeads`, and at last `Advance` (`advance_if_leader`). `LosesLease` ends a pass when any of
these finds another leader, `PassEnds` when a call raises. `read` is the age of the
process's last clock reading: later calls of a pass never read an earlier instant.
Only the rows ever inserted are kept of the queue. `late` marks rows that a second tick
brings to a bucket that has its marker; see section 6.

### JobQueue

`jobs[j]` is a row (its key, tenant, priority and kind are constants of `j`), `runs`
is the set of worker tasks that have not ended, `stopping[w]` is the stop event.

* `Enqueue` takes any epoch that was ever granted and any clock age: this stands for
  every coordinator, deposed ones too, and every API process, whenever it read its epoch.
* `Claim` is one transaction. `Selection` says declaratively what the loop over the
  ordered candidates produces: rows in priority order, stopping at the limit, skipping
  busy tenants and full capabilities, retiring exhausted ones. The order among equal
  priorities (due time, id) is left open. Claimed rows may be locked by a settlement in flight and
  are then skipped (`SKIP LOCKED`). The admission lock makes claims serial, as on PostgreSQL.
* A claimed job *waits* without heartbeat until the semaphore has a slot (`Start`),
  is handed back by a stopping worker (`ReleaseUnstarted`), or is left to its lease
  because the mode changed (`LeaveUnrun`).
* `Heartbeat`, `HeartbeatEnds` (abort flag), `Settle`, `Abandon` are the runner.
  `SettleRaises` is a database error out of `complete()`/`fail()`: the exception ends
  the `gather`, and the other tasks go on *detached* beside the next batch.
* `Restart` is death or cancellation; the successor has a fresh id that no old row
  carries. `Withdraw`, `Redrive`, `Prune` are the operators' calls.

Left out: dry runs (in ExecutionMode), metrics, the `FAILED` status (`fail()` without a
delay has no caller), more than one capability.

### ExecutionMode

The three calls of the transition service are unrolled to one step per database
access: `call[o]` holds what operator `o` has read so far. `EnterPaused`, `Pause`,
`ResetProof`; `Observe`, `ReadProof`, `ReadStats`, `RecordProof`; `LeavePaused`,
`CheckProof`, `Leave`, `ClearProof`. `CrashOperator` dies between any two. `Admins`
may name any epoch in each call; `Clis` only know the one their own `enter_paused`
returned, and `GiveUp` at the drain timeout. A worker reads the mode (`ReadMode`),
claims, reads again (`Recheck`), runs; `Abort` is the heartbeat's mode check. `tick`
is a tick or event dispatch of the embedded scheduler, which reads the mode once.
`due` is a history variable: the jobs inserted under distributed mode that no body
has been started for.

### DueChains

The jobs of one kind for one character. Time counts key windows. A claimed row begins
its step (or ends at once for a stopped character), enqueues its successor under the
fencing epoch it was enqueued with itself (`Advance`; the key may be taken, the epoch
deposed, the reply lost), and completes. `Retry`, `FailDead`, `Bury`, `Lapse`,
`Redrive` and `Prune` are what the queue and the operators do to a row; after a lapse the
former holder goes on (`LostBegins`, `LostAdvances`). `FirstRead` and `SecondRead` are the two
reads of a reconciler's pass, `Seed` its insert. `kept` marks rows that were there through both
reads.

### PostTurn

One turn. `api` is the enqueuing call with its outcome, `rows[r]` the row that its
r-th try inserted. `now` is read at the head of the call, hence a lease that was live
stays live for this call (`live`), and only `Takeover` changes the answer. `TryRaises`
may have committed. `Lapses` covers every way in which a claim runs out; `bodies` and
`lapses` are history counters. `MaxTries` is the code's 3.

### TurnOutcome, ExternalTurn

One request of an external channel, delivered any number of times, also in parallel.
`receipt` is the durable row: state, version, lease, the checkpointed text, the response.
Each call of `execute()` is unrolled to one step per transaction: `Claim`, `Load`,
`FindUser`/`AppendUser`/`RecordUser`, `Generate`, `Checkpoint`, `AppendReply`, `Commit`, `Reread`,
`Close`, with `Reload`, `Reappend`, `Recommit` for a claim that recovers a generated turn, and
`Refuse`. Every update is fenced on the version and the lease of the claim (`Fenced`); the
appends are keyed and positioned (`Landed`). Faults are calls that raise before or after their commit, crashes, lost
answers and lapsed leases; `OtherAppends` moves the thread. `TurnOutcome` is the
promise: decided once, and every answer tells the decision.

### Conversation, ChatTurns

`Conversation` has the two writes of the row: an append at an expected position and the
merging `save()`, which keeps rows behind its snapshot that are not its own and puts
them after its messages. `ChatTurns` runs web turns over it on several replicas:
`Enter` (drain check, then count), `Load` (before the lease, as the code does), `Charge`, `Acquire`, `Say` and
`Land` (the two saves), `Answer`, `CloseCharge`/`RetryClose`, `ReleaseLease`, `Leave`; `Fail` and
`CutShort` are the ways out of the middle. A scene appends, the proactive dispatcher
loads and saves, a deployment drains a replica, a replica may crash and a lease lapse.
`torn` is a history variable: a save fell between the load and a save of another writer
in a way that moved or replaced that writer's rows (section 6).

### TurnUndo

An undo is `Begin` (newest journal, tombstone first), `Guard` (latch the checkpoint),
`Truncate` (`messages[turn_index:]`, whatever they are by now), `DeleteTraces` (memories since
the turn began, emotion events), `Finish` (digest, journal); `StepFails` passes a step over, as the code does.
A post-turn body asks for its tombstone on entry (`Enter`), before its writes (`Clear`)
and behind the digest (`Validate`); between lie the writes, the checkpoint's merge
(`MergeReads`, `MergeChecks`, `MergeSaves`, the compare-and-swap over cursor and stale mark)
and the digest's store. Dead workers' jobs run again (`BodyDies`). `excused` is a history set: a
property that does not hold in some case names the case there, and no other case is
let off. For the summary the cases are `Gaps` (what a truncation drops while a merge holds it and
no latch is between) and `Returns` (what a save lets in again because cursor and mark are
back at what an older merge has read).

## 3. Runs

All runs use relative time; *ticks* and *windows* are abstract: what matters is only the
order of the instants, and the bounds let a lease be live, in its last instant and over.

| run | instance | properties | states |
|---|---|---|---|
| `election` | 2 processes, TTL 2, readings up to 1 tick old, 2 epochs, 2 buckets of 1 character, fairness | `MirrorTypeOK`, `OneLeaderPerEpoch`, `MirroredInOrder`, `NoRevival`, `LeadershipRecovers` | 1.3 * 10^5 |
| `queue_fencing` | 1 worker, 2 rows of one key, 2 epochs, readings 1 tick old, 2 attempts | `UniqueActive`, `AttemptBudget`, `InsertsFenced`, `NoSilentRevival` | 1.2 * 10^5 |
| `queue_live` | 1 worker, batches of 2, 2 jobs of a capability with ceiling 1, 2 attempts, fairness | `CapRespected`, `JobSettles` | 3.8 * 10^3 |
| `mode_barrier` | 1 admin and 1 CLI run, 2 workers, 1 job, 4 flips, crashes anywhere | `ModeTypeOK`, `NoLiveBodyUnderEmbedded`, `BarrierRequired`, `DrainedWhenLeft` | 1.4 * 10^6 |
| `mode_left` | 1 admin, 1 worker, 1 job, 3 flips, no crashes, fairness | `PausedIsLeft` | 2.8 * 10^3 |
| `due_chains` | cadence of one window, precise instants in the present one, 2 faults, fairness | `ChainTypeOK`, `NothingOverlooked`, `ForksExplained`, `ChainResumes`, `StoppedStops`, `ForksHeal` | 1.7 * 10^5 |
| `external_turn` | 2 deliveries, 3 faults, 1 message of another writer, fairness | `ExternalTypeOK`, `OneExchange`, `ReplyExplained`, `OneOutcome`, `Answered` | 2.2 * 10^5 |
| `chat_turns` | 2 turns on 1 replica, one charged, 1 other writer, 1 fault, fairness | `ChatTypeOK`, `OneTurnAtATime`, `DrainedIsIdle`, `NothingLost`, `DrainEnds`, `ChargeCloses` | 1.9 * 10^5 |
| `turn_undo` | 2 turns, 1 message of another conversation, raw tail of 1, 1 undoer, 1 fault | `UndoTypeOK`, `UndoIsExact`, `SummaryForgets` | 3.2 * 10^6 |
| `post_turn` | 3 tries, 2 attempts, 3 epochs, fairness | `TurnTypeOK`, `FallbackExplained`, `RerunsExplained`, `NeverSilentlyDropped` | 3.9 * 10^4 |
| `mode_dual` | 1 admin, 2 workers | *violates* `NoDualExecution` | |
| `mode_swallow` | 1 admin, 1 worker | *violates* `NothingSwallowed` | |

Why the bounds are enough. *Two* processes, workers, deliveries or turns are what a race
needs. A TTL of one or two ticks gives the ages of a claim (live, last instant, over, floored); a
reading one tick old straddles each boundary. Two attempts give a retry and a death. Two epochs
give a takeover and one deposed leader; what happens at more takeovers is covered by
the theorems, which have no such bound. Four flips are pause, leave, pause, leave:
enough for an observation of the first pause to be written in the second. Two buckets
give an order, one character gives a bucket without its marker. In `turn_undo` two turns and
a message of another conversation, with a raw tail of one, put a message before the
tail, at its edge and in it; three faults in `external_turn` let a claim fail, be taken over and fail
again. One worker suffices in the queue runs, since the former tasks of a worker that
was told to stop or died go on beside its successor's; the proofs allow any number. `MaxEpoch`, `MaxFlips`, `MaxAge`, `MaxWait`, `RetryDelay`, `MaxBucket`,
`MaxFaults`, `MaxOthers`, `MaxTurns` and `MaxPushes` cap counters or delays that the code does not
bound; in `LeadershipRecovers` and `PausedIsLeft` the cap is named in the property.
Messages of the other conversation come after the first turn, another bound.
Symmetry is used over workers in safety runs only.

Deadlock checking is off in `post_turn`, `external_turn`, `chat_turns` and `turn_undo`: when every
request is answered, every turn has ended and the faults are used up, nothing more
happens.

### Fairness

* `TickJournal!LiveSpec`: the clock goes on, each process's loop comes round (it sleeps
  for a few seconds), a pass that has begun ends, and a process whose calls are possible
  again and again gets the reply of one of them in the end.
* `JobQueue!LiveSpec`: workers' loops go round, a job that can be claimed again and again is
  (strong: other claims come between; the real order is by priority and due time, so
  this excludes starvation by an endless supply of earlier rows, which the model with
  finitely many rows does not have), bodies end, and a stopped worker is replaced.
  `StopsEnd` is part of the property, not of fairness: each release of a waiting job
  refunds its attempt, so endless rolling stops can keep a job from ever running *or*
  dying. The property also asks that operators stop redriving *other* jobs.
* `ModeLiveSpec`: calls go on; an operator keeps observing, and again and again with
  the required spacing. The spacing matters: an observation that comes too early overwrites
  `last_observed_at`, so an over-eager poller never confirms. The dry run of a paused worker gets
  through while its claim is held. Claims of dead workers lapse.
* `DueChains!LiveSpec`: windows pass, a coordinator takes over, due rows are claimed, bodies end, passes
  come round and one of their inserts gets through from time to time.
* `TurnLiveSpec` (PostTurn): the call and the in-process task go on, workers claim and run.
* `ExternalTurn!LiveSpec`: the channel repeats a request until it is answered, calls go on, a
  lease nobody renews runs out.
* `ChatTurns!LiveSpec`: turns go on (the model's calls have timeouts), an abandoned lease runs out.

## 4. What the violating runs show

* `mode_dual`: the drain proof counts claimed rows. A tick of the embedded scheduler
  that began before the pause is counted by nobody and may still run when workers start.
* `mode_swallow`: a worker that read any mode but distributed claims all the same and
  completes what it claimed as a dry run. A row meant for the distributed workers can
  become `done` without having been run: during the pause, or across a flip that
  follows the worker's read.

## 5. What is proved

The theorems hold for every value of the constants that the named assumptions allow:
`MaxAgeAssumption`, `CoordinatorAssumption`, `JournalAssumption`, `QueueAssumption`,
`ModeAssumption`, `ChainAssumption`, `PostTurnAssumption`, `ExternalAssumption`,
`ChatAssumption` and `UndoAssumption`. They say that limits are natural numbers (where a limit of 0 would leave
nothing to happen, positive ones), that the names that stand for nobody belong to nobody,
that each turn has a home replica, and that explicit instants of a chain lie within its
cadence. Sets of processes, jobs, workers, operators, deliveries, writers, undos and
characters are arbitrary, infinite ones included; two results on admission have a
hypothesis of their own.

**Election** (`CoordinatorLeaseProofs`). The inductive invariant is
`LeaseTypeOK` with *Fenced* (no process believes in an epoch above the row's, and one
that believes in the row's epoch is the row's owner) and `OneLeaderPerEpoch`: without
*Fenced* a takeover could hand out an epoch that a sleeper already believes in.

* `LeaseTypeCorrect`: `LeaseSpec => []LeaseTypeOK`;
* `LeaderUnique`: `LeaseSpec => []OneLeaderPerEpoch`;
* `ExpiredEpochStaysDead`: `LeaseSpec => NoRevival`.

**Queue** (`JobQueueProofs`). First `QueueImplementsElection`: `Spec => LeaseSpec`, so that
the results above hold inside the queue. Then `QueueInv`: rows typed, and each row
within its budget (`Budgeted`: queued with an attempt left, claimed with one in use,
dead with all used). The budget must be part of the induction because a claim adds
one to the attempts of a queued row and a release takes one back from a claimed one.
One lemma per row operation (`ClaimedRow`, `ReleasedRow`, `RetriedRow`, ...) shows that it
keeps a row so; one lemma per actor lifts that to the table.

* `JobTypeCorrect`, `AttemptsAccounted`: from `QueueInv`;
* `KeysUnique`: `Spec => []UniqueActive`. Rows become active in two ways only, insert and
  redrive, and each checks that no other row of the key is active; all other steps
  keep a key's active rows within those it had (`StepKeeps`);
* `DeposedStayOut`: `Spec => InsertsFenced`. No row carries an epoch above the lease's, an
  insert carries exactly that epoch, and `EpochGrows`;
* `ExpiredClaimStaysDead`, `LiveClaimsRespected`: `NoSilentRevival` and `LeaseRespected`, the
  two ends of one lemma (`RunTouches`): whatever a task changes, it holds at that
  moment. A claim with time left for every reader is not `Ready` for anyone, a claim that
  is over for every reader is held by no one;
* `SingleFlightInStep`: `MaxAge = 0` implies `Spec => []TenantSingleFlight`. The hypothesis is
  needed: with clocks a tick apart a heartbeat may extend a claim that a fresher reader
  saw end and whose tenant got its next job claimed meanwhile. In the program this needs a
  worker that is late between reading its clock and committing, at the end of a lease
  that its heartbeats should have extended long before. The run of `CapRespected`
  uses `MaxAge = 0` for the same reason;
* `CapInStep`: `MaxAge = 0` and a finite set of capped rows imply `Spec => []CapRespected`. Only a
  claim makes a row live (`ClaimsMakeLive`), and what it selects fits beside the rows that
  are live at its instant (`LiveCounted`): with clocks in step this instant is everybody's.
  The set is finite because a cardinality says nothing of any other, and a table is.

**Mirror** (`TickJournalProofs`). `MirrorInv` joins to the types and the election's invariant that the
cursor's bucket has its marker and, for each pass under way (`PassSound`), that all buckets
before the one it reads are mirrored, and that of this one each row is queued, late or still
to come. The last may fail in one situation, when an insert was refused and the
pass has not looked at the lease again: then no reading it may still make finds it the
leader (`Ousted`), so it does not advance. This is the argument why a `None` that tells a
refusal from an active key by nothing does no harm. `LeastElement` gives the earliest bucket.

* `MirrorTypeCorrect`: `Spec => []MirrorTypeOK`; `NothingSkipped`: `Spec => []MirroredInOrder`;
* `PassesElect`: `Spec => LeaseSpec`, hence `MirrorLeaderUnique` and `MirrorEpochStaysDead`.

**Barrier** (`HandOverProofs`, first part). `AdminTyped` strengthens the types with the soundness of
every proof an operator has read, not only the stored one: the cursor is overwritten
from what a call carries. `LeaversSawPause` says that a call about to leave
which carries the row's present epoch saw the row paused at that epoch.

* `ModeTypeCorrect`: `ModeSpec => []ModeTypeOK`;
* `BarrierHolds`: `ModeSpec => BarrierRequired`;
* `DrainedBeforeLeft`: `ModeSpec => DrainedWhenLeft`, and `EmbeddedAlone`:
  `ModeSpec => []NoLiveBodyUnderEmbedded`. `DrainInv` attaches to every reading, stored or in a
  call's hands, what it is evidence of: an epoch with a zero reading behind it, as long as it
  is the row's and the row is paused, has no body under a held claim. Such a body cannot
  come back in the pause, because bodies are let in under distributed mode only and a claim
  that is over stays over (`NoLiveBodyStays`).

**Due chains** (`DueChainsProofs`). `ChainInv` bounds by *number*, not by naming rows: the ends of
the chain in the table (`Count`) and the body that goes on without its claim are together at most
the forking faults so far, plus one, and *without* the one while a pass under way has seen no
row (`EndsBounded`). The pass may be about to seed the chain anew; without its reservation in
the invariant, a seed would be an end too many. `PassSound` says what an unseen row can be:
it was dead when the pass began, and none is left when the second read found no dead row.
`LostSound` says that the lapse leaves one body at most. Each step replaces, appends,
removes or maps rows, and one lemma for each says what becomes of `Count` (`RowReplaced`,
`RowAppended`, `RowRemoved`, `RowsMapped`).

* `ChainTypeCorrect`: `Spec => []ChainTypeOK`; `ReadsOverlookNothing`: `Spec => []NothingOverlooked`;
* `OnlyFaultsFork`: `Spec => []ForksExplained`.

**Post-turn** (`HandOverProofs`, second part). `TurnInv` relates the enqueuing call to the rows it may have
left (`RowsKnown`: no row before the call; while no try raised, none but the first try's; beside a
fallback only rows of tries that raised under a former epoch), and the runs of the
body to the lapses and what shows that it ran (`RunsCounted`).

* `TurnTypeCorrect`: `TurnSpec => []TurnTypeOK`; `FallbackNeedsBoth`: `TurnSpec => []FallbackExplained`;
* `RerunsBounded`: `TurnSpec => []RerunsExplained`.

**External turn** (`ExternalTurnProofs`). `TurnInv` says beside the types that
a text is in the receipt exactly where its state says so (`RowSound`), that a call
holds no version ahead of the row's and one that is about to answer holds the row's
response (`CallSound`), and that nothing was told but the decision (`Told`). Without the
versions a call that was taken over could still write. One lemma per action; `RowMoves` is
the shared fact that a call keeps sound when the row moves on under it.

* `ExternalTypeCorrect`: `Spec => []ExternalTypeOK`;
* `TurnDecidedOnce`: `Spec => OneOutcome`, the refinement of `TurnOutcome`;
* `ExchangeOnce`: `Spec => []OneExchange`. A keyed append checks the key in the transaction
  that appends, and nothing else writes messages of the turn;
* `ReplyTold`: `Spec => []ReplyExplained`. `ReplyInv` says that versions name one call each
  (`OwnVersion`), that a turn leaves PROCESSING only under the version of the call that is at it
  (`FreshSound`), and that, unless an attempt failed behind its checkpoint, a reply in the thread is the row's checkpointed text
  and a row that is decided has one (`TextHeld`).

**Chat turns** (`ChatTurnsProofs`). `ChatInv` has a part for each property: `CountExact` (a
replica's count is the number of its turns in flight), `LeaseKept` (a turn at work has taken the
lease, and one that took it has it unless a lease lapsed), and for the saves `SnapshotsFit`, `NotYet`
and `ThreadSound`: a snapshot of the present version *is* the row, a message of a writer that
has not come so far is not there yet, and the thread enumerates what was written unless a
save was torn. A merging save keeps the enumeration because the rows it keeps, in their order
(`NthOfFinite`), and the messages it writes are disjoint, which is where the first two enter.

* `ChatTypeCorrect`: `Spec => []ChatTypeOK`; `TurnsExclude`: `Spec => []OneTurnAtATime`;
* `DrainIsSafe`: `Spec => []DrainedIsIdle`; `NoMessageLost`: `Spec => []NothingLost`.

**Undo** (`TurnUndoProofs`). The two properties speak of the end of an undo, and of a summary as it
stands; both have to be strengthened with what is owed by everything that is on the way.

* `UndoTypeCorrect`: `Spec => []UndoTypeOK`, from `UndoTypeInv`. It adds to the types that the thread has no
  more messages than turns were taken, so that a journal's position lies below its turn's number, and that a merge
  in flight has something in its hands and only what was sent (`ReadSome`).
* `SummariesForget`: `Spec => []SummaryForgets`, from `MergesAccounted`: `Spec => []SummaryInv`. A
  checkpoint holds what it covers and nothing else of the thread (`Contiguous`); a merge
  leaves no message out up to the end of its backlog (`Reads`); and a message that a merge
  has counted and that is gone by now is in a named gap, or the compare-and-swap will refuse the
  merge (`Accounted`, `Stopped`). The last is the heart: a merge is not wrong for holding deleted messages,
  only for landing with them, and whether it lands depends on what all *other* merges, rebuilds and guards
  do to cursor and mark before. So every step that writes these must be shown to leave each other merge
  refused or accounted for. `Contiguous` and `Reads` show that a save cannot put a
  cursor back to one that another merge has seen without covering what that merge has.
* `PositionsHold`: `Spec => []PlaceInv`. A message stands at its journal's position as long as it
  stands, and is gone only by its own undo or by one that is recorded to have swept it (`Placed`); an
  undo under way has its tombstone up or failed to raise it (`Aimed`). This is what makes the
  worker's rebuild of a turn's text from the position sound (`OwnTexts`).
* `UndoExact`: `Spec => []UndoIsExact`, from `TracesHold`. `Unslipped` says of a body that has asked
  for its tombstone and not yet written that its turn is no undo's target, or it slipped; `Cleaned` and
  `DigestGone` say of a turn past its deletions that memories, events and digest are gone, and `Spared`
  of all others that theirs are kept. `WrittenLater` is needed for the last: a deletion takes the memories since a
  turn began, and what a body wrote carries no earlier time than its own turn.

`LastIsMax`, that a finite nonempty set of message times has a greatest one, is proved by a least
counterexample, since the library's induction theorems cannot be used.

Only model-checked: the liveness properties (`LeadershipRecovers`, `JobSettles`, `PausedIsLeft`,
`ChainResumes`, `StoppedStops`, `ForksHeal`, `Answered`, `DrainEnds`, `ChargeCloses`, `NeverSilentlyDropped`),
since fairness and ENABLED are outside the prover's reach.

## 6. Observed while modelling

These have no violating run of their own. Where a property would fail for one of these
reasons it names the reason, as `excused`, `torn`, `abandoned`, `late` or a
conjunct, and is checked without any other exception.

*Runtime.* A batch is claimed as a whole, but only running jobs have heartbeats: a job that waits
behind the semaphore longer than its lease is reclaimed elsewhere and starts on both
(`background_shadow_worker.py:266`). An exception out of `complete()` ends the `gather`, and the
other tasks run on beside the next batch (`:285`). A crash between the flip to `paused` and the reset
of the drain cursor leaves a pause that no call of the protocol can leave
(`execution_mode_transition.py:69`). A CLI switch that timed out says "remain paused and retry", but
the retry is refused as `already_paused`. The mirror lists the current bucket as soon
as it has its marker, so rows that a later tick of the same bucket brings are never
mirrored (`late`); a bucket that never gets its marker blocks the mirror by design.
`_still_leader` and the fence of `advance_if_leader` each suffice for `MirroredInOrder`.

*Post-turn.* `enqueue` may commit and raise; a worker completes the row, the retry finds the key
free and inserts a second row: the turn's writes happen twice without any crash of a
worker. `NO_LEADER` promises that no row exists, but a retry fenced out by a takeover returns it while the first
try's row is in the queue.

*External turn.* A failure behind the checkpoint marks the turn retryable, which the receipt accepts in
GENERATED; the next claim runs the model again although a reply may stand in the
thread (`external_chat_turn_service.py:263`; the contract says the model is never re-run). `post_turn_state`
is written once and read nowhere: a crash behind COMMITTED loses the post-turn.

*Chat turns.* The conversation is loaded before the lease and saved after it. A push that loads before a
turn's first save and saves between the turn's two saves displaces the player's
message, and the second save doubles it. Two turns that overlap with one text
at one position are merged. Nothing in a chat turn looks at the loss of its lease. A
cancellation during the release leaves the charge open for the wallet's sweeper.

*Due chains.* `compute()` gets the snapshot the job began with, so a freeze during the run is not seen by its
own advance; the chain ends one link later. With a cadence of several windows two ends
of a forked chain need never meet.

*Undo.* The summary can keep deleted messages where a merge and an undo meet without a latch
between them: the first checkpoint, a rebuild (which clears the latch), messages that an earlier truncation brought back into the tail, a
re-read that takes deleted messages older than all others for scrolled ones. The guard's own
comment claims that no interleaving is left. Besides, the compare-and-swap on cursor and mark
(`sa_dialogue_checkpoint_repository.py:103`) cannot tell that they left and came back: when another merge's save
ends at the very message an older merge has read as its cursor, with the mark
clear again, the older merge lands although the checkpoint it built on was rebuilt
without a deleted message in between. The run's two turns are too few for it: it came up when the proof of `SummaryForgets` failed, for the excuse then named only the save of a
rebuild, and a simulation with four turns, two pushes and two undos confirmed it. `Returns` now names exactly the merges that profit, one
excuse in `Gaps` turned out not to be needed, and `OwnText` holds one phase
longer than had been stated. The window of `MemoryDeleteStep` also deletes what bodies of other
turns wrote since; the truncating save sweeps newer messages. A failing
step is passed over and the journal deleted all the same. The digest's branch for a gate that raises is dead code,
since the gate answers *no* instead of raising.

## 7. Not modelled

See the components with status `not_modelled` or `partly`, each with its reason. Within the
modelled ones: what bodies of jobs write (model calls, record keeping), metrics and logs, SQLite's
coarser locking, clock skew beyond `MaxAge`, and database failover that loses commits;
dry runs in `JobQueue` (they are in `ExecutionMode`); the pairs of social chains; the wallet,
the model gateway and the channel, which are external and appear as their answers. The
larger part of the repository builds prompts, keeps records and renders pages: sequential code over
external services whose state has no invariant across calls that a model would add to its tests.

## 8. Plan

Next, in this order:

1. `FollowUpRelease`: a promised instant, released by an event job or the reconciler,
   with its delivery mark.
2. `RealtimeOutbox`: publish and replay with cursors; `FeedVideo`: an external job with
   submit, poll and fall-back.
3. The studio's and the encounter's lease sessions, over `RuntimeLease`, with an abstract
   lock as their specification.
