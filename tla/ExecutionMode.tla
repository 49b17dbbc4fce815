---------------------------- MODULE ExecutionMode ----------------------------
(***************************************************************************)
(* Who runs the background work: the embedded scheduler or the distributed *)
(* workers.  Operators change the mode row through `paused', where a drain *)
(* proof kept in a cursor row is to show that nobody is at work any more.  *)
(* The calls of ExecutionModeTransitionService are not transactions: each  *)
(* database access is a step of its own, and a caller may die between two. *)
(* Scheduler and workers read the mode first and act on it later.          *)
(*                                                                         *)
(* The queue is reduced to what the barrier reads of it: a row is queued,  *)
(* claimed or done, and the lease of a claim is live or over (module       *)
(* JobQueue has the rest); a worker has one job at a time.                 *)
(***************************************************************************)
EXTENDS Integers

CONSTANTS Admins,    \* operators of the HTTP routes: each call names any epoch
          Clis,      \* runs of switch_background_mode: enter, observe..., leave
          Workers,
          Jobs,
          MaxFlips,  \* bound on the mode epoch
          CrashesAt  \* where in a call an operator may die

ASSUME ModeAssumption ==
  /\ Admins \cap Clis = {}
  /\ MaxFlips \in Nat

Operators == Admins \cup Clis
Modes == {"embedded", "paused", "distributed"}

VARIABLES row,     \* the mode row: [mode, epoch]
          proof,   \* the execution-mode-drain cursor
          call,    \* call[o]: where operator o is in a call, and what it has read
          session, \* session[o]: the paused epoch a CLI run got from its enter, or 0
          jobs,    \* jobs[j]: [status, owner, live]
          work,    \* work[w]: what worker w is doing, with what it read of the mode
          tick,    \* the embedded scheduler: a tick or event dispatch is in flight
          due      \* history: the jobs inserted under distributed mode, not yet run

adminVars == <<row, proof, call, session>>
workVars == <<jobs, work, tick, due>>
modeVars == <<row, proof, call, session, jobs, work, tick, due>>

Epochs == 0..MaxFlips
NoProof == [epoch |-> 0, zeros |-> 0, confirmed |-> FALSE, seen |-> FALSE]
Proofs == [epoch : Epochs, zeros : 0..2, confirmed : BOOLEAN, seen : BOOLEAN]

Idle == [at |-> "idle", epoch |-> 0, to |-> "paused", proof |-> NoProof, zero |-> FALSE]
Calls ==
  [at : {"idle", "pause", "reset", "cursor", "stats", "record", "check", "leave", "clear"},
   epoch : Epochs, to : Modes, proof : Proofs, zero : BOOLEAN]

NoJob == "none"
Free == [status |-> "absent", owner |-> NoJob, live |-> FALSE]
Resting == [at |-> "idle", job |-> NoJob, execute |-> FALSE]

\* What each call carries of the mode row and of the cursor is a mode, an epoch
\* and a proof; a proof that counts as confirmed has two zero readings behind it.
ModeTypeOK ==
  /\ row \in [mode : Modes, epoch : Epochs]
  /\ proof \in Proofs /\ (proof.confirmed => proof.zeros = 2)
  /\ call \in [Operators -> Calls]
  /\ session \in [Operators -> Epochs]
  /\ jobs \in [Jobs -> [status : {"absent", "queued", "claimed", "done"},
                        owner : Workers \cup {NoJob}, live : BOOLEAN]]
  /\ work \in [Workers -> [at : {"idle", "gated", "claimed", "running", "aborted"},
                           job : Jobs \cup {NoJob}, execute : BOOLEAN]]
  /\ tick \in BOOLEAN
  /\ due \subseteq Jobs

\* An absent row reads as ("embedded", 0).
ModeInit ==
  /\ row = [mode |-> "embedded", epoch |-> 0]
  /\ proof = NoProof
  /\ call = [o \in Operators |-> Idle]
  /\ session = [o \in Operators |-> 0]
  /\ jobs = [j \in Jobs |-> Free]
  /\ work = [w \in Workers |-> Resting]
  /\ tick = FALSE
  /\ due = {}
-----------------------------------------------------------------------------
Goes(o, record) == call' = [call EXCEPT ![o] = record]
Returns(o) == Goes(o, Idle)

\* Mutant of FlipWins: the epoch read at the head of the call is trusted.
FlipAlwaysWins(e) == row.epoch >= e

\* flip(): compare-and-swap on the epoch under the row lock.
FlipWins(e) == row.epoch = e
Flipped(mode) == [mode |-> mode, epoch |-> row.epoch + 1]

\* enter_paused(): the row is read, flipped, and the proof started afresh.
EnterPaused(o, expected) ==
  /\ call[o].at = "idle" /\ session[o] = 0
  /\ row.epoch = expected /\ row.mode # "paused"
  /\ Goes(o, [Idle EXCEPT !.at = "pause", !.epoch = expected])
  /\ UNCHANGED <<row, proof, session, workVars>>

Pause(o) ==
  /\ call[o].at = "pause"
  /\ row.epoch < MaxFlips
  /\ \/ /\ FlipWins(call[o].epoch)
        /\ row' = Flipped("paused")
        /\ Goes(o, [Idle EXCEPT !.at = "reset", !.epoch = row'.epoch])
     \/ /\ ~FlipWins(call[o].epoch)
        /\ Returns(o)
        /\ UNCHANGED row
  /\ UNCHANGED <<proof, session, workVars>>

\* Mutant of ResetProof: the proof is started for the epoch before the flip.
ResetProofOldEpoch(o) ==
  /\ call[o].at = "reset"
  /\ proof' = [NoProof EXCEPT !.epoch = call[o].epoch - 1]
  /\ session' = IF o \in Clis THEN [session EXCEPT ![o] = call[o].epoch] ELSE session
  /\ Returns(o)
  /\ UNCHANGED <<row, workVars>>

ResetProof(o) ==
  /\ call[o].at = "reset"
  /\ proof' = [NoProof EXCEPT !.epoch = call[o].epoch]
  /\ session' = IF o \in Clis THEN [session EXCEPT ![o] = call[o].epoch] ELSE session
  /\ Returns(o)
  /\ UNCHANGED <<row, workVars>>

\* observe_drain(): mode row, cursor and queue are read one after the other,
\* then the cursor is overwritten with what follows from these readings.
Observe(o, e) ==
  /\ call[o].at = "idle"
  /\ row.mode = "paused" /\ row.epoch = e
  /\ Goes(o, [Idle EXCEPT !.at = "cursor", !.epoch = e])
  /\ UNCHANGED <<row, proof, session, workVars>>

ReadProof(o) ==
  /\ call[o].at = "cursor"
  /\ IF proof.epoch = call[o].epoch
     THEN Goes(o, [call[o] EXCEPT !.at = "stats", !.proof = proof])
     ELSE Returns(o)
  /\ UNCHANGED <<row, proof, session, workVars>>

Drained == \A j \in Jobs : jobs[j].status # "claimed"

ReadStats(o) ==
  /\ call[o].at = "stats"
  /\ Goes(o, [call[o] EXCEPT !.at = "record", !.zero = Drained])
  /\ UNCHANGED <<row, proof, session, workVars>>

Reading(old, zeros, confirmed) ==
  [epoch |-> old.epoch, zeros |-> zeros, confirmed |-> confirmed, seen |-> TRUE]

OneMore(zeros) == IF zeros < 2 THEN zeros + 1 ELSE 2

\* Mutant of Observed: work that turns up again does not withdraw the proof.
ObservedForgetful(old, zero, spaced) ==
  IF ~zero THEN Reading(old, 0, old.confirmed)
  ELSE IF ~old.seen THEN Reading(old, 1, old.confirmed)
  ELSE IF spaced THEN Reading(old, OneMore(old.zeros), OneMore(old.zeros) >= 2)
  ELSE old

\* spaced: at least min_observation_interval after the last reading.
Observed(old, zero, spaced) ==
  IF ~zero THEN Reading(old, 0, FALSE)
  ELSE IF ~old.seen THEN Reading(old, 1, old.confirmed)
  ELSE IF spaced THEN Reading(old, OneMore(old.zeros), OneMore(old.zeros) >= 2)
  ELSE old

RecordProof(o, spaced) ==
  /\ call[o].at = "record"
  /\ proof' = Observed(call[o].proof, call[o].zero, spaced)
  /\ Returns(o)
  /\ UNCHANGED <<row, session, workVars>>

\* leave_paused(): row and cursor are read, the row flipped, the cursor cleared.
LeavePaused(o, e, to) ==
  /\ call[o].at = "idle"
  /\ row.mode = "paused" /\ row.epoch = e
  /\ Goes(o, [Idle EXCEPT !.at = "check", !.epoch = e, !.to = to])
  /\ UNCHANGED <<row, proof, session, workVars>>

\* Mutant of CheckProof: a proof of any pause is good enough.
CheckProofAnyEpoch(o) ==
  /\ call[o].at = "check"
  /\ IF proof.confirmed THEN Goes(o, [call[o] EXCEPT !.at = "leave"]) ELSE Returns(o)
  /\ UNCHANGED <<row, proof, session, workVars>>

CheckProof(o) ==
  /\ call[o].at = "check"
  /\ IF proof.epoch = call[o].epoch /\ proof.confirmed
     THEN Goes(o, [call[o] EXCEPT !.at = "leave"])
     ELSE Returns(o)
  /\ UNCHANGED <<row, proof, session, workVars>>

Leave(o) ==
  /\ call[o].at = "leave"
  /\ row.epoch < MaxFlips
  /\ \/ /\ FlipWins(call[o].epoch)
        /\ row' = Flipped(call[o].to)
        /\ Goes(o, [Idle EXCEPT !.at = "clear"])
     \/ /\ ~FlipWins(call[o].epoch)
        /\ Returns(o)
        /\ UNCHANGED row
  /\ UNCHANGED <<proof, session, workVars>>

ClearProof(o) ==
  /\ call[o].at = "clear"
  /\ proof' = NoProof
  /\ Returns(o)
  /\ session' = [session EXCEPT ![o] = 0]
  /\ UNCHANGED <<row, workVars>>

\* A CLI run whose drain timeout passes without a confirmation exits.
GiveUp(o) ==
  /\ o \in Clis /\ call[o].at = "idle" /\ session[o] # 0
  /\ ~proof.confirmed
  /\ session' = [session EXCEPT ![o] = 0]
  /\ UNCHANGED <<row, proof, call, workVars>>

\* The caller dies, or a database access of its call fails.
CrashOperator(o) ==
  /\ call[o].at \in CrashesAt
  /\ Returns(o)
  /\ session' = [session EXCEPT ![o] = 0]
  /\ UNCHANGED <<row, proof, workVars>>

\* The epochs an operator can name: those it has been told.
Named(o) == IF o \in Clis THEN {session[o]} ELSE Epochs

OperatorStep(o) ==
  \/ \E e \in Epochs : EnterPaused(o, e)
  \/ Pause(o) \/ ResetProof(o)
  \/ \E e \in Named(o) : Observe(o, e) \/ \E to \in {"embedded", "distributed"} : LeavePaused(o, e, to)
  \/ ReadProof(o) \/ ReadStats(o) \/ (\E spaced \in BOOLEAN : RecordProof(o, spaced))
  \/ CheckProof(o) \/ Leave(o) \/ ClearProof(o)
  \/ GiveUp(o) \/ CrashOperator(o)
-----------------------------------------------------------------------------
Becomes(w, record) == work' = [work EXCEPT ![w] = record]
Rests(w) == Becomes(w, Resting)

Holds(w) ==
  LET j == work[w].job
  IN  jobs[j].status = "claimed" /\ jobs[j].owner = w /\ jobs[j].live

\* run_once() reads the mode; a read that fails means a dry run.
ReadMode(w, answered) ==
  /\ work[w].at = "idle"
  /\ Becomes(w, [Resting EXCEPT !.at = "gated",
                                !.execute = answered /\ row.mode = "distributed"])
  /\ UNCHANGED <<adminVars, jobs, tick, due>>

ClaimJob(w, j) ==
  /\ work[w].at = "gated"
  /\ jobs[j].status = "queued" \/ (jobs[j].status = "claimed" /\ ~jobs[j].live)
  /\ jobs' = [jobs EXCEPT ![j] = [status |-> "claimed", owner |-> w, live |-> TRUE]]
  /\ Becomes(w, [work[w] EXCEPT !.at = "claimed", !.job = j])
  /\ UNCHANGED <<adminVars, tick, due>>

ClaimNothing(w) ==
  /\ work[w].at = "gated"
  /\ Rests(w)
  /\ UNCHANGED <<adminVars, jobs, tick, due>>

\* Mutant of Recheck: the mode read before the claim is trusted.
RecheckSkipped(w, answered) ==
  /\ work[w].at = "claimed" /\ work[w].execute
  /\ Becomes(w, [work[w] EXCEPT !.at = "running"])
  /\ due' = due \ {work[w].job}
  /\ UNCHANGED <<adminVars, jobs, tick>>

\* Just before the body the mode is read again; when it is not distributed any
\* more the claim is left to its lease.
Recheck(w, answered) ==
  /\ work[w].at = "claimed" /\ work[w].execute
  /\ IF answered /\ row.mode = "distributed"
     THEN /\ Becomes(w, [work[w] EXCEPT !.at = "running"])
          /\ due' = due \ {work[w].job}
     ELSE Rests(w) /\ UNCHANGED due
  /\ UNCHANGED <<adminVars, jobs, tick>>

\* A dry run validates and completes.
DryRun(w) ==
  /\ work[w].at = "claimed" /\ ~work[w].execute
  /\ jobs' = IF Holds(w) THEN [jobs EXCEPT ![work[w].job] = [Free EXCEPT !.status = "done"]] ELSE jobs
  /\ Rests(w)
  /\ UNCHANGED <<adminVars, tick, due>>

\* The heartbeat finds the mode changed, or the lease lost.
Abort(w) ==
  /\ work[w].at = "running"
  /\ row.mode # "distributed" \/ ~Holds(w)
  /\ Becomes(w, [work[w] EXCEPT !.at = "aborted"])
  /\ UNCHANGED <<adminVars, jobs, tick, due>>

\* The body ends: an aborted job is abandoned, unless the body raised.
BodyEnds(w, failed) ==
  /\ work[w].at \in {"running", "aborted"}
  /\ jobs' = IF ~Holds(w) \/ (work[w].at = "aborted" /\ ~failed) THEN jobs
             ELSE [jobs EXCEPT ![work[w].job] =
                     [Free EXCEPT !.status = IF failed THEN "queued" ELSE "done"]]
  /\ Rests(w)
  /\ UNCHANGED <<adminVars, tick, due>>

\* The heartbeats of a claim did not come in time, or there were none.
LeaseLapses(j) ==
  /\ jobs[j].status = "claimed" /\ jobs[j].live
  /\ jobs' = [jobs EXCEPT ![j].live = FALSE]
  /\ UNCHANGED <<adminVars, work, tick, due>>

Insert(j) ==
  /\ jobs[j].status = "absent"
  /\ jobs' = [jobs EXCEPT ![j] = [Free EXCEPT !.status = "queued"]]
  /\ due' = IF row.mode = "distributed" THEN due \cup {j} ELSE due
  /\ UNCHANGED <<adminVars, work, tick>>

\* The embedded scheduler reads the mode at the head of a tick or of an event
\* dispatch, and not again before its end.
TickStarts ==
  /\ ~tick /\ row.mode = "embedded"
  /\ tick' = TRUE
  /\ UNCHANGED <<adminVars, jobs, work, due>>

TickEnds ==
  /\ tick /\ tick' = FALSE
  /\ UNCHANGED <<adminVars, jobs, work, due>>

WorkerStep(w) ==
  \/ (\E answered \in BOOLEAN : ReadMode(w, answered) \/ Recheck(w, answered))
  \/ (\E j \in Jobs : ClaimJob(w, j)) \/ ClaimNothing(w) \/ DryRun(w)
  \/ Abort(w) \/ (\E failed \in BOOLEAN : BodyEnds(w, failed))

ModeNext ==
  \/ \E o \in Operators : OperatorStep(o)
  \/ \E w \in Workers : WorkerStep(w)
  \/ \E j \in Jobs : LeaseLapses(j) \/ Insert(j)
  \/ TickStarts \/ TickEnds

ModeSpec == ModeInit /\ [][ModeNext]_modeVars

\* Fairness: calls go on to their end, bodies end, leases of dead claims lapse,
\* workers keep passing; operators try again and again, each with a spaced
\* observation and with whatever epoch they can name.
OperatorFair(o) ==
  /\ WF_modeVars(Pause(o) \/ ResetProof(o) \/ ReadProof(o) \/ ReadStats(o)
                   \/ CheckProof(o) \/ Leave(o) \/ ClearProof(o))
  /\ SF_modeVars(RecordProof(o, TRUE))
  /\ SF_modeVars(\E e \in Epochs : EnterPaused(o, e))
  /\ \A e \in Epochs : SF_modeVars(e \in Named(o) /\ Observe(o, e))
  /\ \A e \in Epochs : SF_modeVars(e \in Named(o) /\ proof.confirmed /\ LeavePaused(o, e, "embedded"))

ModeLiveSpec ==
  /\ ModeSpec
  /\ \A o \in Operators : OperatorFair(o)
  /\ \A w \in Workers :
       /\ WF_modeVars(ReadMode(w, TRUE) \/ ClaimNothing(w) \/ Recheck(w, TRUE) \/ DryRun(w))
       /\ SF_modeVars(DryRun(w) /\ Holds(w))
       /\ WF_modeVars(BodyEnds(w, FALSE))
       /\ \A j \in Jobs : SF_modeVars(ClaimJob(w, j))
  /\ \A j \in Jobs : WF_modeVars(LeaseLapses(j) /\ \A w \in Workers : work[w].job # j)
-----------------------------------------------------------------------------
\* Ownership never goes from one side to the other without the pause between,
\* whatever old readings the operators' calls act on.
BarrierRequired ==
  [][ {row.mode, row'.mode} # {"embedded", "distributed"} ]_modeVars

\* When the pause is left, no body is still running under a lease that is live:
\* two zero readings of the paused epoch stand behind it, and a body that was
\* allowed to run before the pause was counted by them.
LiveBody(w) == work[w].at \in {"running", "aborted"} /\ Holds(w)

DrainedWhenLeft ==
  [][ row.mode = "paused" /\ row'.mode # "paused" => \A w \in Workers : ~LiveBody(w) ]_modeVars

\* A body that is still entitled to go on was let in under distributed mode or
\* in the pause that follows it, never with the embedded scheduler in charge.
NoLiveBodyUnderEmbedded ==
  row.mode = "embedded" => \A w \in Workers : ~LiveBody(w)

\* The embedded scheduler and a worker never execute at the same time.
Executes(w) == work[w].at \in {"running", "aborted"}

NoDualExecution == ~(tick /\ \E w \in Workers : Executes(w))

\* A job that was queued for the distributed workers is not done before it is run.
NothingSwallowed == \A j \in due : jobs[j].status # "done"

\* Operators who keep trying get a paused system out of its pause.
PausedIsLeft ==
  row.mode = "paused" /\ row.epoch < MaxFlips ~> row.mode # "paused"
=============================================================================
