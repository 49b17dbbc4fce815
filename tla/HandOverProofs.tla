----------------------------- MODULE HandOverProofs -----------------------------
(***************************************************************************)
(* Proofs about the two ways in which work is handed over, for any number  *)
(* of operators, workers, jobs, tries, attempts and takeovers.             *)
(*                                                                         *)
(* First ExecutionMode: who owns the background work passes through the    *)
(* pause, and the pause is left only when the workers' claims are drained. *)
(* Then PostTurn: what may make the body of a turn run twice.              *)
(***************************************************************************)
EXTENDS ExecutionMode, PostTurn, TLAPS

\* A proof that an operator has read is as sound as the one it was read from.
Sound(p) == p \in Proofs /\ (p.confirmed => p.zeros = 2 /\ p.seen)

\* One reading keeps a drain proof sound.
LEMMA SoundObserved ==
  ASSUME NEW p, Sound(p), NEW zero \in BOOLEAN, NEW spaced \in BOOLEAN
  PROVE  Sound(Observed(p, zero, spaced))
<1>0. /\ p.epoch \in Epochs /\ p.zeros \in 0..2 /\ p.confirmed \in BOOLEAN
      /\ p.confirmed => p.seen
  BY DEF Sound, Proofs
<1>1. ASSUME NEW zeros \in 0..2, NEW confirmed \in BOOLEAN, confirmed => zeros = 2
      PROVE  Sound(Reading(p, zeros, confirmed))
  BY <1>0, <1>1 DEF Sound, Proofs, Reading
<1>2. OneMore(p.zeros) \in 0..2 /\ (OneMore(p.zeros) >= 2 => OneMore(p.zeros) = 2)
  BY <1>0 DEF OneMore
<1>3. CASE ~zero
  <2>1. Sound(Reading(p, 0, FALSE))
    BY <1>0 DEF Sound, Proofs, Reading
  <2> QED BY <1>3, <2>1 DEF Observed
<1>4. CASE zero /\ ~p.seen
  <2>1. ~p.confirmed
    BY <1>0, <1>4
  <2>2. Sound(Reading(p, 1, p.confirmed))
    BY <1>0, <1>1, <2>1
  <2> QED BY <1>4, <2>2 DEF Observed
<1>5. CASE zero /\ p.seen /\ spaced
  <2> DEFINE confirmed == OneMore(p.zeros) >= 2
  <2>1. confirmed \in BOOLEAN /\ (confirmed => OneMore(p.zeros) = 2)
    BY <1>2
  <2> HIDE DEF confirmed
  <2>2. Sound(Reading(p, OneMore(p.zeros), confirmed))
    BY <1>1, <1>2, <2>1
  <2> QED BY <1>5, <2>2 DEF Observed, confirmed
<1>6. CASE zero /\ p.seen /\ ~spaced
  BY <1>6 DEF Observed
<1> QED
  BY <1>3, <1>4, <1>5, <1>6
-----------------------------------------------------------------------------
\* The records a call goes through are typed.
LEMMA IdleTyped ==
  ASSUME NEW e \in Epochs, NEW to \in Modes
  PROVE  /\ Idle \in Calls /\ Sound(Idle.proof)
         /\ [Idle EXCEPT !.at = "pause", !.epoch = e] \in Calls
         /\ [Idle EXCEPT !.at = "reset", !.epoch = e] \in Calls
         /\ [Idle EXCEPT !.at = "cursor", !.epoch = e] \in Calls
         /\ [Idle EXCEPT !.at = "check", !.epoch = e, !.to = to] \in Calls
         /\ [Idle EXCEPT !.at = "clear"] \in Calls
<1>1. 0 \in Epochs /\ NoProof \in Proofs /\ Sound(NoProof)
  BY ModeAssumption DEF Epochs, NoProof, Proofs, Sound
<1>2. "paused" \in Modes
  BY DEF Modes
<1> QED
  BY <1>1, <1>2 DEF Idle, Calls
\* The operators' half of the state.
AdminTyped ==
  /\ row \in [mode : Modes, epoch : Epochs]
  /\ Sound(proof)
  /\ call \in [Operators -> Calls]
  /\ \A o \in Operators : Sound(call[o].proof)
  /\ session \in [Operators -> Epochs]

\* The workers' half.
JobRecords ==
  [status : {"absent", "queued", "claimed", "done"}, owner : Workers \cup {NoJob}, live : BOOLEAN]

WorkRecords ==
  [at : {"idle", "gated", "claimed", "running", "aborted"}, job : Jobs \cup {NoJob},
   execute : BOOLEAN]

WorkTyped ==
  /\ jobs \in [Jobs -> JobRecords]
  /\ work \in [Workers -> WorkRecords]
  /\ tick \in BOOLEAN
  /\ due \subseteq Jobs

LEMMA FlippedTyped ==
  ASSUME AdminTyped, row.epoch < MaxFlips, NEW mode \in Modes
  PROVE  Flipped(mode) \in [mode : Modes, epoch : Epochs] /\ Flipped(mode).epoch \in Epochs
  BY ModeAssumption DEF AdminTyped, Flipped, Epochs

\* Operators and workers share no variable they write.
LEMMA OperatorFrame ==
  ASSUME NEW o \in Operators, OperatorStep(o)
  PROVE  UNCHANGED workVars
  BY DEF OperatorStep, EnterPaused, Pause, ResetProof, Observe, LeavePaused, ReadProof,
         ReadStats, RecordProof, CheckProof, Leave, ClearProof, GiveUp, CrashOperator

LEMMA WorkerFrame ==
  ASSUME NEW w \in Workers, WorkerStep(w)
  PROVE  UNCHANGED adminVars
  BY DEF WorkerStep, ReadMode, Recheck, ClaimJob, ClaimNothing, DryRun, Abort, BodyEnds

LEMMA OperatorKeepsTypes ==
  ASSUME AdminTyped, NEW o \in Operators, OperatorStep(o)
  PROVE  AdminTyped'
<1> USE DEF AdminTyped
<1>0. /\ call[o] \in Calls /\ Sound(call[o].proof) /\ call[o].epoch \in Epochs
      /\ call[o].to \in Modes /\ 0 \in Epochs /\ row.epoch \in Epochs
  BY ModeAssumption DEF Calls, Epochs
<1>1. ASSUME NEW c \in Calls, Sound(c.proof), Goes(o, c)
      PROVE  call' \in [Operators -> Calls] /\ \A q \in Operators : Sound(call'[q].proof)
  BY <1>1 DEF Goes
<1>2. ASSUME Returns(o)
      PROVE  call' \in [Operators -> Calls] /\ \A q \in Operators : Sound(call'[q].proof)
  BY <1>0, <1>1, <1>2, IdleTyped DEF Returns, Modes
<1>3. ASSUME NEW at \in {"idle", "pause", "reset", "cursor", "stats", "record", "check",
                        "leave", "clear"}
      PROVE  /\ [call[o] EXCEPT !.at = at] \in Calls
             /\ [call[o] EXCEPT !.at = at].proof = call[o].proof
  BY <1>0 DEF Calls
<1>4. ASSUME NEW e \in Epochs, EnterPaused(o, e) PROVE AdminTyped'
  <2> DEFINE c == [Idle EXCEPT !.at = "pause", !.epoch = e]
  <2>1. c \in Calls /\ Sound(c.proof)
    BY IdleTyped, <1>0 DEF Idle
  <2>2. Goes(o, c) /\ UNCHANGED <<row, proof, session>>
    BY <1>4 DEF EnterPaused
  <2> HIDE DEF c
  <2> QED BY <1>1, <2>1, <2>2
<1>5. CASE Pause(o)
  <2>1. CASE Returns(o) /\ UNCHANGED row
    BY <1>2, <1>5, <2>1 DEF Pause
  <2>2. CASE row' = Flipped("paused") /\ Goes(o, [Idle EXCEPT !.at = "reset", !.epoch = row'.epoch])
    <3>1. row' \in [mode : Modes, epoch : Epochs] /\ row'.epoch \in Epochs
      BY <1>5, <2>2, FlippedTyped DEF Pause, Modes
    <3> DEFINE c == [Idle EXCEPT !.at = "reset", !.epoch = row'.epoch]
    <3>2. c \in Calls /\ Sound(c.proof)
      BY <3>1, <1>0, IdleTyped DEF Idle
    <3> HIDE DEF c
    <3> QED BY <1>1, <1>5, <2>2, <3>1, <3>2 DEF Pause, c
  <2> QED BY <1>5, <2>1, <2>2 DEF Pause
<1>6. CASE ResetProof(o)
  <2>1. Sound(proof')
    <3>1. proof' = [epoch |-> call[o].epoch, zeros |-> 0, confirmed |-> FALSE, seen |-> FALSE]
      BY <1>6 DEF ResetProof, NoProof
    <3> QED BY <1>0, <3>1 DEF Sound, Proofs
  <2>2. session' \in [Operators -> Epochs]
    BY <1>0, <1>6 DEF ResetProof
  <2> QED BY <1>2, <1>6, <2>1, <2>2 DEF ResetProof
<1>7. ASSUME NEW e \in Epochs, NEW to \in {"embedded", "distributed"},
             Observe(o, e) \/ LeavePaused(o, e, to)
      PROVE  AdminTyped'
  <2>1. CASE Observe(o, e)
    <3> DEFINE c == [Idle EXCEPT !.at = "cursor", !.epoch = e]
    <3>1. c \in Calls /\ Sound(c.proof)
      BY IdleTyped, <1>0 DEF Idle
    <3>2. Goes(o, c) /\ UNCHANGED <<row, proof, session>>
      BY <2>1 DEF Observe
    <3> HIDE DEF c
    <3> QED BY <1>1, <3>1, <3>2
  <2>2. CASE LeavePaused(o, e, to)
    <3> DEFINE c == [Idle EXCEPT !.at = "check", !.epoch = e, !.to = to]
    <3>1. c \in Calls /\ Sound(c.proof)
      BY IdleTyped DEF Idle, Modes
    <3>2. Goes(o, c) /\ UNCHANGED <<row, proof, session>>
      BY <2>2 DEF LeavePaused
    <3> HIDE DEF c
    <3> QED BY <1>1, <3>1, <3>2
  <2> QED BY <1>7, <2>1, <2>2
<1>8. CASE ReadProof(o)
  <2> DEFINE c == [call[o] EXCEPT !.at = "stats", !.proof = proof]
  <2>1. c \in Calls /\ Sound(c.proof)
    BY <1>0 DEF Calls, Sound
  <2>2. (Goes(o, c) \/ Returns(o)) /\ UNCHANGED <<row, proof, session>>
    BY <1>8 DEF ReadProof
  <2> HIDE DEF c
  <2> QED BY <1>1, <1>2, <2>1, <2>2
<1>9. CASE ReadStats(o)
  <2> DEFINE c == [call[o] EXCEPT !.at = "record", !.zero = Drained]
  <2>1. c \in Calls /\ Sound(c.proof)
    BY <1>0 DEF Calls, Drained
  <2>2. Goes(o, c) /\ UNCHANGED <<row, proof, session>>
    BY <1>9 DEF ReadStats
  <2> HIDE DEF c
  <2> QED BY <1>1, <2>1, <2>2
<1>10. ASSUME NEW spaced \in BOOLEAN, RecordProof(o, spaced) PROVE AdminTyped'
  <2>1. Sound(proof')
    BY <1>0, <1>10, SoundObserved DEF RecordProof, Calls
  <2> QED BY <1>2, <1>10, <2>1 DEF RecordProof
<1>11. CASE CheckProof(o)
  BY <1>0, <1>1, <1>2, <1>3, <1>11 DEF CheckProof
<1>12. CASE Leave(o)
  <2>1. CASE Returns(o) /\ UNCHANGED row
    BY <1>2, <1>12, <2>1 DEF Leave
  <2>2. CASE row' = Flipped(call[o].to) /\ Goes(o, [Idle EXCEPT !.at = "clear"])
    <3>1. row' \in [mode : Modes, epoch : Epochs]
      BY <1>0, <1>12, <2>2, FlippedTyped DEF Leave
    <3> DEFINE c == [Idle EXCEPT !.at = "clear"]
    <3>2. c \in Calls /\ Sound(c.proof)
      BY <1>0, IdleTyped DEF Idle, Modes
    <3> HIDE DEF c
    <3> QED BY <1>1, <1>12, <2>2, <3>1, <3>2 DEF Leave, c
  <2> QED BY <1>12, <2>1, <2>2 DEF Leave
<1>13. CASE ClearProof(o) \/ GiveUp(o) \/ CrashOperator(o)
  <2>1. Sound(NoProof)
    BY <1>0 DEF NoProof, Sound, Proofs
  <2> QED BY <1>0, <1>2, <1>13, <2>1 DEF ClearProof, GiveUp, CrashOperator
<1> QED
  <2>1. Named(o) \subseteq Epochs
    BY DEF Named
  <2> QED
    BY <1>4, <1>5, <1>6, <1>7, <1>8, <1>9, <1>10, <1>11, <1>12, <1>13, <2>1 DEF OperatorStep

LEMMA WorkerKeepsTypes ==
  ASSUME WorkTyped, NEW w \in Workers, WorkerStep(w)
  PROVE  WorkTyped'
<1> USE DEF WorkTyped
<1>0. work[w] \in WorkRecords /\ Resting \in WorkRecords
  BY DEF Resting, WorkRecords
<1>1. ASSUME NEW answered \in BOOLEAN, ReadMode(w, answered) PROVE WorkTyped'
  <2> DEFINE next == [Resting EXCEPT !.at = "gated",
                                     !.execute = answered /\ row.mode = "distributed"]
  <2>1. next \in WorkRecords
    BY DEF Resting, WorkRecords
  <2>2. work' = [work EXCEPT ![w] = next] /\ UNCHANGED <<jobs, tick, due>>
    BY <1>1 DEF ReadMode, Becomes
  <2> HIDE DEF next
  <2> QED BY <2>1, <2>2
<1>2. ASSUME NEW answered \in BOOLEAN, Recheck(w, answered) PROVE WorkTyped'
  <2>1. [work[w] EXCEPT !.at = "running"] \in WorkRecords
    BY <1>0 DEF WorkRecords
  <2> QED BY <1>0, <1>2, <2>1 DEF Recheck, Becomes, Rests
<1>3. ASSUME NEW j \in Jobs, ClaimJob(w, j) PROVE WorkTyped'
  <2>1. [work[w] EXCEPT !.at = "claimed", !.job = j] \in WorkRecords
    BY <1>0 DEF WorkRecords
  <2>2. [status |-> "claimed", owner |-> w, live |-> TRUE] \in JobRecords
    BY DEF JobRecords
  <2> QED BY <1>3, <2>1, <2>2 DEF ClaimJob, Becomes
<1>4. CASE ClaimNothing(w) \/ Abort(w)
  <2>1. [work[w] EXCEPT !.at = "aborted"] \in WorkRecords
    BY <1>0 DEF WorkRecords
  <2> QED BY <1>0, <1>4, <2>1 DEF ClaimNothing, Abort, Rests, Becomes
<1>5. ASSUME NEW status \in {"queued", "done"},
             jobs' = jobs \/ jobs' = [jobs EXCEPT ![work[w].job] = [Free EXCEPT !.status = status]]
      PROVE  jobs' \in [Jobs -> JobRecords]
  <2>1. [Free EXCEPT !.status = status] \in JobRecords
    BY DEF Free, JobRecords
  <2> QED BY <1>5, <2>1
<1>6. CASE DryRun(w)
  <2>1. jobs' \in [Jobs -> JobRecords]
    BY <1>5, <1>6 DEF DryRun
  <2> QED BY <1>0, <1>6, <2>1 DEF DryRun, Rests, Becomes
<1>7. ASSUME NEW failed \in BOOLEAN, BodyEnds(w, failed) PROVE WorkTyped'
  <2>1. jobs' \in [Jobs -> JobRecords]
    <3>1. CASE failed
      BY <1>5, <1>7, <3>1 DEF BodyEnds
    <3>2. CASE ~failed
      BY <1>5, <1>7, <3>2 DEF BodyEnds
    <3> QED BY <3>1, <3>2
  <2> QED BY <1>0, <1>7, <2>1 DEF BodyEnds, Rests, Becomes
<1> QED
  BY <1>1, <1>2, <1>3, <1>4, <1>6, <1>7 DEF WorkerStep

\* The types of the mode, the proof, the calls and the work, for any number of
\* operators, workers and jobs; a confirmed proof has two readings behind it.
LEMMA ModeTyped == ModeSpec => [](AdminTyped /\ WorkTyped)
<1>1. ModeInit => AdminTyped /\ WorkTyped
  <2>1. /\ 0 \in Epochs /\ Sound(NoProof) /\ "embedded" \in Modes
        /\ Free \in JobRecords /\ Resting \in WorkRecords
    BY ModeAssumption
    DEF NoProof, Sound, Proofs, Epochs, Modes, Free, JobRecords, Resting, WorkRecords
  <2>2. Idle \in Calls /\ Sound(Idle.proof)
    BY <2>1, IdleTyped
  <2>3. ASSUME ModeInit PROVE AdminTyped
    <3>1. row \in [mode : Modes, epoch : Epochs]
      BY <2>1, <2>3 DEF ModeInit
    <3>2. call \in [Operators -> Calls] /\ \A o \in Operators : Sound(call[o].proof)
      BY <2>2, <2>3 DEF ModeInit
    <3>3. session \in [Operators -> Epochs]
      BY <2>1, <2>3 DEF ModeInit
    <3>4. Sound(proof)
      BY <2>1, <2>3 DEF ModeInit
    <3> QED BY <3>1, <3>2, <3>3, <3>4 DEF AdminTyped
  <2>4. ASSUME ModeInit PROVE WorkTyped
    <3>1. jobs \in [Jobs -> JobRecords]
      BY <2>1, <2>4 DEF ModeInit
    <3>2. work \in [Workers -> WorkRecords]
      BY <2>1, <2>4 DEF ModeInit
    <3>3. tick \in BOOLEAN /\ due \subseteq Jobs
      BY <2>4 DEF ModeInit
    <3> QED BY <3>1, <3>2, <3>3 DEF WorkTyped
  <2> QED BY <2>3, <2>4
<1>2. AdminTyped /\ WorkTyped /\ [ModeNext]_modeVars => AdminTyped' /\ WorkTyped'
  <2> SUFFICES ASSUME AdminTyped, WorkTyped, [ModeNext]_modeVars
               PROVE  AdminTyped' /\ WorkTyped'
    OBVIOUS
  <2>1. ASSUME UNCHANGED adminVars PROVE AdminTyped'
    BY <2>1 DEF adminVars, AdminTyped
  <2>2. ASSUME UNCHANGED workVars PROVE WorkTyped'
    BY <2>2 DEF workVars, WorkTyped
  <2>3. ASSUME NEW o \in Operators, OperatorStep(o) PROVE AdminTyped' /\ WorkTyped'
    <3>1. UNCHANGED workVars
      BY <2>3, OperatorFrame
    <3> QED BY <2>2, <2>3, <3>1, OperatorKeepsTypes
  <2>4. ASSUME NEW w \in Workers, WorkerStep(w) PROVE AdminTyped' /\ WorkTyped'
    <3>1. UNCHANGED adminVars
      BY <2>4, WorkerFrame
    <3> QED BY <2>1, <2>4, <3>1, WorkerKeepsTypes
  <2>5. ASSUME NEW j \in Jobs, LeaseLapses(j) \/ Insert(j) PROVE AdminTyped' /\ WorkTyped'
    <3>1. WorkTyped'
      <4>1. [Free EXCEPT !.status = "queued"] \in JobRecords
        BY DEF Free, JobRecords
      <4>2. CASE Insert(j)
        BY <4>1, <4>2 DEF Insert, WorkTyped
      <4>3. CASE LeaseLapses(j)
        <5>1. [jobs[j] EXCEPT !.live = FALSE] \in JobRecords
          <6>1. jobs[j] \in JobRecords
            BY DEF WorkTyped
          <6> QED BY <6>1 DEF JobRecords
        <5>2. jobs' = [jobs EXCEPT ![j] = [jobs[j] EXCEPT !.live = FALSE]]
          BY <4>3 DEF LeaseLapses
        <5> QED BY <4>3, <5>1, <5>2 DEF LeaseLapses, WorkTyped
      <4> QED BY <2>5, <4>2, <4>3
    <3> QED BY <2>1, <2>5, <3>1 DEF LeaseLapses, Insert
  <2>6. CASE TickStarts \/ TickEnds
    <3>1. WorkTyped'
      BY <2>6 DEF TickStarts, TickEnds, WorkTyped
    <3> QED BY <2>1, <2>6, <3>1 DEF TickStarts, TickEnds
  <2>7. CASE UNCHANGED modeVars
    BY <2>1, <2>2, <2>7 DEF modeVars, adminVars, workVars
  <2> QED
    BY <2>3, <2>4, <2>5, <2>6, <2>7 DEF ModeNext
<1> QED
  BY <1>1, <1>2, PTL DEF ModeSpec

\* The type invariant of the mode, for every value of the constants; a drain
\* proof that counts as confirmed has two zero readings behind it.
THEOREM ModeTypeCorrect == ModeSpec => []ModeTypeOK
<1>1. AdminTyped /\ WorkTyped => ModeTypeOK
  BY DEF AdminTyped, WorkTyped, JobRecords, WorkRecords, ModeTypeOK, Sound
<1> QED
  BY <1>1, ModeTyped, PTL
-----------------------------------------------------------------------------
\* Why ownership cannot skip the pause: whoever is about to leave has read a
\* paused row at the epoch it will compare, epochs only grow, and only a pause
\* and a leave write the row.
LeaversSawPause ==
  \A o \in Operators :
    /\ call[o].epoch <= row.epoch
    /\ call[o].at \in {"check", "leave"} /\ call[o].epoch = row.epoch => row.mode = "paused"

\* A step that leaves the row alone and moves one call.
LEMMA CallMoves ==
  ASSUME AdminTyped, LeaversSawPause, NEW o \in Operators, NEW c, row' = row,
         Goes(o, c), c.epoch <= row.epoch,
         c.at \in {"check", "leave"} /\ c.epoch = row.epoch => row.mode = "paused"
  PROVE  LeaversSawPause'
<1>1. call'[o] = c /\ \A q \in Operators : q # o => call'[q] = call[q]
  BY DEF Goes, AdminTyped
<1>2. ASSUME NEW q \in Operators
      PROVE  /\ call'[q].epoch <= row'.epoch
             /\ call'[q].at \in {"check", "leave"} /\ call'[q].epoch = row'.epoch
                  => row'.mode = "paused"
  <2>1. CASE q = o
    BY <1>1, <2>1
  <2>2. CASE q # o
    BY <1>1, <2>2 DEF LeaversSawPause
  <2> QED BY <2>1, <2>2
<1> QED BY <1>2 DEF LeaversSawPause

\* A flip and a call that goes on as idle, reset or clear.
LEMMA FlipMoves ==
  ASSUME AdminTyped, LeaversSawPause, NEW o \in Operators, NEW mode, NEW c,
         row' = Flipped(mode), Goes(o, c), c.epoch <= row.epoch + 1, c.at \notin {"check", "leave"}
  PROVE  LeaversSawPause'
<1>1. row.epoch \in Int /\ row'.epoch = row.epoch + 1
  BY ModeAssumption DEF Flipped, AdminTyped, Epochs
<1>2. \A q \in Operators : call[q].epoch \in Int
  BY ModeAssumption DEF AdminTyped, Calls, Epochs
<1>3. call'[o] = c /\ \A q \in Operators : q # o => call'[q] = call[q]
  BY DEF Goes, AdminTyped
<1>4. ASSUME NEW q \in Operators
      PROVE  /\ call'[q].epoch <= row'.epoch
             /\ call'[q].at \in {"check", "leave"} /\ call'[q].epoch = row'.epoch
                  => row'.mode = "paused"
  <2>1. CASE q = o
    BY <1>1, <1>3, <2>1
  <2>2. CASE q # o
    <3>1. call'[q] = call[q] /\ call[q].epoch <= row.epoch
      BY <1>3, <2>2 DEF LeaversSawPause
    <3>2. call[q].epoch < row'.epoch
      BY <1>1, <1>2, <3>1
    <3> QED BY <1>1, <1>2, <3>1, <3>2
  <2> QED BY <2>1, <2>2
<1> QED BY <1>4 DEF LeaversSawPause

LEMMA OperatorKeepsBarrier ==
  ASSUME AdminTyped, LeaversSawPause, NEW o \in Operators, OperatorStep(o)
  PROVE  LeaversSawPause' /\ {row.mode, row'.mode} # {"embedded", "distributed"}
<1>0. /\ row.epoch \in Int /\ 0 <= row.epoch /\ row.mode \in Modes
      /\ call[o].epoch \in Int /\ call[o].epoch <= row.epoch /\ call[o] \in Calls
  BY ModeAssumption DEF AdminTyped, Epochs, Calls, LeaversSawPause
<1>1. ASSUME row' = row PROVE {row.mode, row'.mode} # {"embedded", "distributed"}
  BY <1>1
<1>2. ASSUME row' = row, Returns(o) PROVE LeaversSawPause'
  BY <1>0, <1>2, CallMoves DEF Returns, Idle
<1>3. ASSUME NEW e \in Epochs, NEW to, EnterPaused(o, e) \/ Observe(o, e) \/ LeavePaused(o, e, to)
      PROVE  LeaversSawPause' /\ row' = row
  <2>1. CASE EnterPaused(o, e)
    <3> DEFINE c == [Idle EXCEPT !.at = "pause", !.epoch = e]
    <3>1. c.at = "pause" /\ c.epoch = e
      BY DEF Idle
    <3>2. /\ Goes(o, c) /\ row' = row /\ row.epoch = e
      BY <2>1 DEF EnterPaused
    <3>3. c.epoch <= row.epoch
      BY <1>0, <3>1, <3>2
    <3> HIDE DEF c
    <3> QED BY <3>1, <3>2, <3>3, CallMoves
  <2>2. CASE Observe(o, e)
    <3> DEFINE c == [Idle EXCEPT !.at = "cursor", !.epoch = e]
    <3>1. c.at = "cursor" /\ c.epoch = e
      BY DEF Idle
    <3>2. /\ Goes(o, c) /\ row' = row /\ row.epoch = e
      BY <2>2 DEF Observe
    <3>3. c.epoch <= row.epoch
      BY <1>0, <3>1, <3>2
    <3> HIDE DEF c
    <3> QED BY <3>1, <3>2, <3>3, CallMoves
  <2>3. CASE LeavePaused(o, e, to)
    <3> DEFINE c == [Idle EXCEPT !.at = "check", !.epoch = e, !.to = to]
    <3>1. c.epoch = e
      BY DEF Idle
    <3>2. /\ Goes(o, c) /\ row' = row /\ row.epoch = e /\ row.mode = "paused"
      BY <2>3 DEF LeavePaused
    <3>3. c.epoch <= row.epoch
      BY <1>0, <3>1, <3>2
    <3> HIDE DEF c
    <3> QED BY <3>1, <3>2, <3>3, CallMoves
  <2> QED BY <1>3, <2>1, <2>2, <2>3
<1>4. CASE ReadProof(o)
  <2> DEFINE c == [call[o] EXCEPT !.at = "stats", !.proof = proof]
  <2>1. c.at = "stats" /\ c.epoch = call[o].epoch
    BY <1>0 DEF Calls
  <2>2. row' = row /\ (Goes(o, c) \/ Returns(o))
    BY <1>4 DEF ReadProof
  <2> HIDE DEF c
  <2> QED BY <1>0, <1>1, <1>2, <2>1, <2>2, CallMoves
<1>5. CASE ReadStats(o)
  <2> DEFINE c == [call[o] EXCEPT !.at = "record", !.zero = Drained]
  <2>1. c.at = "record" /\ c.epoch = call[o].epoch
    BY <1>0 DEF Calls
  <2>2. row' = row /\ Goes(o, c)
    BY <1>5 DEF ReadStats
  <2> HIDE DEF c
  <2> QED BY <1>0, <1>1, <2>1, <2>2, CallMoves
<1>6. CASE CheckProof(o)
  <2> DEFINE c == [call[o] EXCEPT !.at = "leave"]
  <2>1. c.at = "leave" /\ c.epoch = call[o].epoch
    BY <1>0 DEF Calls
  <2>2. row' = row /\ call[o].at = "check" /\ (Goes(o, c) \/ Returns(o))
    BY <1>6 DEF CheckProof
  <2>3. c.epoch = row.epoch => row.mode = "paused"
    BY <2>1, <2>2 DEF LeaversSawPause
  <2> HIDE DEF c
  <2> QED BY <1>0, <1>1, <1>2, <2>1, <2>2, <2>3, CallMoves
<1>7. CASE Pause(o)
  <2>1. CASE Returns(o) /\ UNCHANGED row
    BY <1>1, <1>2, <2>1
  <2>2. CASE row' = Flipped("paused") /\ Goes(o, [Idle EXCEPT !.at = "reset", !.epoch = row'.epoch])
    <3> DEFINE c == [Idle EXCEPT !.at = "reset", !.epoch = row'.epoch]
    <3>1. c.at = "reset" /\ c.epoch = row.epoch + 1 /\ row'.mode = "paused"
      BY <2>2 DEF Idle, Flipped
    <3>0. Goes(o, c) /\ row' = Flipped("paused")
      BY <2>2
    <3> HIDE DEF c
    <3>2. LeaversSawPause'
      <4>1. c.epoch <= row.epoch + 1 /\ c.at \notin {"check", "leave"}
        BY <1>0, <3>1
      <4> QED BY <3>0, <4>1, FlipMoves
    <3>3. {row.mode, row'.mode} # {"embedded", "distributed"}
      BY <3>1
    <3> QED BY <3>2, <3>3
  <2> QED BY <1>7, <2>1, <2>2 DEF Pause
<1>8. CASE Leave(o)
  <2>1. CASE Returns(o) /\ UNCHANGED row
    BY <1>1, <1>2, <2>1
  <2>2. CASE /\ FlipWins(call[o].epoch) /\ row' = Flipped(call[o].to)
             /\ Goes(o, [Idle EXCEPT !.at = "clear"])
    <3> DEFINE c == [Idle EXCEPT !.at = "clear"]
    <3>1. c.at = "clear" /\ c.epoch = 0
      BY DEF Idle
    <3>0. Goes(o, c) /\ row' = Flipped(call[o].to)
      BY <2>2
    <3> HIDE DEF c
    <3>2. LeaversSawPause'
      <4>1. c.epoch <= row.epoch + 1 /\ c.at \notin {"check", "leave"}
        BY <1>0, <3>1
      <4> QED BY <3>0, <4>1, FlipMoves
    <3>3. row.mode = "paused"
      BY <1>8, <2>2 DEF Leave, FlipWins, LeaversSawPause
    <3>4. {row.mode, row'.mode} # {"embedded", "distributed"}
      BY <3>3
    <3> QED BY <3>2, <3>4
  <2> QED BY <1>8, <2>1, <2>2 DEF Leave
<1>9. ASSUME NEW spaced, ResetProof(o) \/ RecordProof(o, spaced) \/ ClearProof(o) \/ CrashOperator(o)
      PROVE  LeaversSawPause' /\ row' = row
  BY <1>2, <1>9 DEF ResetProof, RecordProof, ClearProof, CrashOperator
<1>10. CASE GiveUp(o)
  <2>1. row' = row /\ call' = call
    BY <1>10 DEF GiveUp
  <2> QED BY <1>1, <2>1 DEF LeaversSawPause
<1> QED
  <2>1. Named(o) \subseteq Epochs
    BY DEF Named, AdminTyped
  <2> QED
    BY <1>1, <1>3, <1>4, <1>5, <1>6, <1>7, <1>8, <1>9, <1>10, <2>1 DEF OperatorStep

\* Ownership never goes from one side to the other without the pause between,
\* however many operators there are and however old what they have read is.
THEOREM BarrierHolds == ModeSpec => BarrierRequired
<1>1. ModeInit => LeaversSawPause
  BY DEF ModeInit, LeaversSawPause, Idle
<1>2. AdminTyped /\ LeaversSawPause /\ [ModeNext]_modeVars =>
        LeaversSawPause' /\ [{row.mode, row'.mode} # {"embedded", "distributed"}]_modeVars
  <2> SUFFICES ASSUME AdminTyped, LeaversSawPause, [ModeNext]_modeVars
               PROVE  LeaversSawPause' /\ {row.mode, row'.mode} # {"embedded", "distributed"}
    OBVIOUS
  <2>1. ASSUME row' = row, call' = call
        PROVE  LeaversSawPause' /\ {row.mode, row'.mode} # {"embedded", "distributed"}
    BY <2>1 DEF LeaversSawPause
  <2>2. ASSUME NEW w \in Workers, WorkerStep(w) PROVE row' = row /\ call' = call
    BY <2>2, WorkerFrame DEF adminVars
  <2>3. ASSUME NEW o \in Operators, OperatorStep(o)
        PROVE  LeaversSawPause' /\ {row.mode, row'.mode} # {"embedded", "distributed"}
    BY <2>3, OperatorKeepsBarrier
  <2> QED
    BY <2>1, <2>2, <2>3
    DEF ModeNext, LeaseLapses, Insert, TickStarts, TickEnds, adminVars, modeVars
<1> QED
  BY <1>1, <1>2, ModeTyped, PTL DEF ModeSpec, BarrierRequired
-----------------------------------------------------------------------------
(***************************************************************************)
(* The drain. While the mode is not distributed no body is let in, so once *)
(* no live body is there, none appears. A reading of zero claims that was  *)
(* made in the current pause is evidence that this was so; it is carried   *)
(* by calls and by the cursor, under the epoch of the pause.               *)
(***************************************************************************)
NoLiveBody == \A w \in Workers : ~LiveBody(w)

\* Something read at epoch e that, if it was the current pause, shows a drain.
Shows(e, evidence) == row.mode = "paused" /\ e = row.epoch /\ evidence => NoLiveBody

\* What a call may know of the drain, by how far it has come.
CallEvidence(c) ==
  /\ c.epoch <= row.epoch
  /\ c.at \in {"stats", "record"} =>
       c.proof.epoch = c.epoch /\ Shows(c.epoch, c.proof.zeros # 0)
  /\ c.at = "record" => Shows(c.epoch, c.zero)
  /\ c.at = "leave" => Shows(c.epoch, TRUE)

\* Whoever runs a body has claimed its job.
Employed ==
  \A w \in Workers : work[w].at \in {"claimed", "running", "aborted"} => work[w].job \in Jobs

DrainInv ==
  /\ row.mode = "embedded" => NoLiveBody
  /\ proof.epoch <= row.epoch /\ Shows(proof.epoch, proof.zeros # 0)
  /\ \A o \in Operators : CallEvidence(call[o])

\* A body whose claim is over does not get it back: its job is claimed anew by
\* a worker that is free, and bodies are let in under distributed mode only.
LEMMA NoLiveBodyStays ==
  ASSUME WorkTyped, Employed, NoLiveBody, row.mode # "distributed", NEW w \in Workers, WorkerStep(w)
  PROVE  NoLiveBody'
<1>1. ASSUME NEW u \in Workers, NEW next \in WorkRecords, Becomes(w, next),
             next.at \notin {"running", "aborted"}, u = w
      PROVE  ~LiveBody(u)'
  BY <1>1 DEF Becomes, LiveBody, WorkTyped
<1>2. ASSUME NEW u \in Workers, u # w, NEW next, Becomes(w, next),
             NEW j, NEW job, job.owner # u \/ job.status # "claimed",
             jobs' = jobs \/ jobs' = [jobs EXCEPT ![j] = job]
      PROVE  ~LiveBody(u)'
  <2>1. work'[u] = work[u] /\ ~LiveBody(u)
    BY <1>2 DEF Becomes, WorkTyped, NoLiveBody
  <2>2. work[u] \in WorkRecords
    BY DEF WorkTyped
  <2>3. SUFFICES ASSUME work[u].at \in {"running", "aborted"}, Holds(u)'
                 PROVE  FALSE
    BY <2>1 DEF LiveBody
  <2>4. ~Holds(u)
    BY <2>1, <2>3 DEF LiveBody
  <2>5. jobs' # jobs /\ jobs' = [jobs EXCEPT ![j] = job]
    BY <1>2, <2>1, <2>3, <2>4 DEF Holds
  <2>6. work[u].job = j /\ j \in DOMAIN jobs
    <3>1. work[u].job \in Jobs /\ DOMAIN jobs = Jobs
      BY <2>3 DEF Employed, WorkTyped
    <3> QED BY <2>1, <2>3, <2>4, <2>5, <3>1 DEF Holds
  <2>7. jobs'[j] = job
    BY <2>5, <2>6
  <2> QED BY <1>2, <2>1, <2>3, <2>6, <2>7 DEF Holds
<1>3. Resting \in WorkRecords /\ Resting.at = "idle" /\ work[w] \in WorkRecords
  BY DEF Resting, WorkRecords, WorkTyped
<1>4. ASSUME NEW answered \in BOOLEAN, ReadMode(w, answered) PROVE NoLiveBody'
  <2> DEFINE next == [Resting EXCEPT !.at = "gated",
                                     !.execute = answered /\ row.mode = "distributed"]
  <2>1. next \in WorkRecords /\ next.at = "gated"
    BY DEF Resting, WorkRecords
  <2>2. Becomes(w, next) /\ jobs' = jobs
    BY <1>4 DEF ReadMode
  <2> HIDE DEF next
  <2>3. Free.status # "claimed"
    BY DEF Free
  <2> QED BY <1>1, <1>2, <2>1, <2>2, <2>3 DEF NoLiveBody
<1>5. ASSUME NEW j \in Jobs, ClaimJob(w, j) PROVE NoLiveBody'
  <2> DEFINE next == [work[w] EXCEPT !.at = "claimed", !.job = j]
             job == [status |-> "claimed", owner |-> w, live |-> TRUE]
  <2>1. next \in WorkRecords /\ next.at = "claimed"
    BY <1>3 DEF WorkRecords
  <2>2. Becomes(w, next) /\ jobs' = [jobs EXCEPT ![j] = job]
    BY <1>5 DEF ClaimJob
  <2>3. job.owner = w
    OBVIOUS
  <2> HIDE DEF next, job
  <2> QED BY <1>1, <1>2, <2>1, <2>2, <2>3 DEF NoLiveBody
<1>6. ASSUME Rests(w), NEW status \in {"queued", "done"},
             jobs' = jobs \/ jobs' = [jobs EXCEPT ![work[w].job] = [Free EXCEPT !.status = status]]
      PROVE  NoLiveBody'
  <2> DEFINE job == [Free EXCEPT !.status = status]
  <2>1. job.status # "claimed"
    BY DEF Free
  <2>2. Becomes(w, Resting) /\ (jobs' = jobs \/ jobs' = [jobs EXCEPT ![work[w].job] = job])
    BY <1>6 DEF Rests
  <2> HIDE DEF job
  <2> QED BY <1>1, <1>2, <1>3, <2>1, <2>2 DEF NoLiveBody
<1>7. ASSUME NEW answered \in BOOLEAN, Recheck(w, answered) PROVE NoLiveBody'
  <2>1. Rests(w) /\ jobs' = jobs
    BY <1>7 DEF Recheck
  <2> QED BY <1>6, <2>1
<1>8. CASE ClaimNothing(w)
  BY <1>6, <1>8 DEF ClaimNothing
<1>9. CASE DryRun(w)
  BY <1>6, <1>9 DEF DryRun
<1>10. CASE Abort(w)
  <2>1. ASSUME NEW u \in Workers PROVE LiveBody(u)' => LiveBody(u)
    BY <1>10 DEF Abort, Becomes, LiveBody, Holds, WorkTyped, WorkRecords
  <2> QED BY <2>1 DEF NoLiveBody
<1>11. ASSUME NEW failed \in BOOLEAN, BodyEnds(w, failed) PROVE NoLiveBody'
  <2>1. CASE failed
    BY <1>6, <1>11, <2>1 DEF BodyEnds
  <2>2. CASE ~failed
    BY <1>6, <1>11, <2>2 DEF BodyEnds
  <2> QED BY <2>1, <2>2
<1> QED
  BY <1>4, <1>5, <1>7, <1>8, <1>9, <1>10, <1>11 DEF WorkerStep

LEMMA NoLiveBodyLapses ==
  ASSUME WorkTyped, Employed, NoLiveBody, NEW j \in Jobs, LeaseLapses(j) \/ Insert(j)
  PROVE  NoLiveBody'
<1>1. ASSUME NEW u \in Workers PROVE LiveBody(u)' => LiveBody(u)
  <2>1. work'[u] = work[u]
    BY DEF LeaseLapses, Insert
  <2>2. CASE work[u].job # j
    <3>1. work[u].at \in {"running", "aborted"} => work[u].job \in Jobs
      BY DEF Employed
    <3> QED BY <2>1, <2>2, <3>1 DEF LeaseLapses, Insert, LiveBody, Holds, WorkTyped
  <2>3. CASE work[u].job = j
    <3>1. jobs[j] \in JobRecords
      BY DEF WorkTyped
    <3>2. jobs'[j].status # "claimed" \/ ~jobs'[j].live
      BY <3>1 DEF LeaseLapses, Insert, WorkTyped, JobRecords, Free
    <3> QED BY <2>1, <2>3, <3>2 DEF LiveBody, Holds
  <2> QED BY <2>2, <2>3
<1> QED BY <1>1 DEF NoLiveBody

LEMMA EmployedStays ==
  ASSUME WorkTyped, Employed, [ModeNext]_modeVars
  PROVE  Employed'
<1>1. ASSUME work' = work PROVE Employed'
  BY <1>1 DEF Employed
<1>2. ASSUME NEW w \in Workers, NEW next, Becomes(w, next),
             next.at \in {"claimed", "running", "aborted"} => next.job \in Jobs
      PROVE  Employed'
  <2>1. work'[w] = next /\ \A u \in Workers : u # w => work'[u] = work[u]
    BY <1>2 DEF Becomes, WorkTyped
  <2> QED BY <1>2, <2>1 DEF Employed
<1>3. ASSUME NEW w \in Workers, WorkerStep(w) PROVE Employed'
  <2>1. Resting.at = "idle" /\ work[w] \in WorkRecords
    BY DEF Resting, WorkTyped
  <2>2. ASSUME Rests(w) PROVE Employed'
    BY <1>2, <2>1, <2>2 DEF Rests
  <2>3. ASSUME NEW answered \in BOOLEAN, ReadMode(w, answered) PROVE Employed'
    <3> DEFINE next == [Resting EXCEPT !.at = "gated",
                                       !.execute = answered /\ row.mode = "distributed"]
    <3>1. next.at = "gated" /\ Becomes(w, next)
      BY <2>3 DEF Resting, ReadMode
    <3> HIDE DEF next
    <3> QED BY <1>2, <3>1
  <2>4. ASSUME NEW j \in Jobs, ClaimJob(w, j) PROVE Employed'
    <3> DEFINE next == [work[w] EXCEPT !.at = "claimed", !.job = j]
    <3>1. next.job = j /\ Becomes(w, next)
      BY <2>1, <2>4 DEF ClaimJob, WorkRecords
    <3> HIDE DEF next
    <3> QED BY <1>2, <3>1
  <2>5. ASSUME NEW at \in {"running", "aborted"}, Becomes(w, [work[w] EXCEPT !.at = at]),
               work[w].at \in {"claimed", "running"}
        PROVE  Employed'
    <3> DEFINE next == [work[w] EXCEPT !.at = at]
    <3>1. next.job = work[w].job /\ Becomes(w, next)
      BY <2>1, <2>5 DEF WorkRecords
    <3>2. work[w].job \in Jobs
      BY <2>5 DEF Employed
    <3> HIDE DEF next
    <3> QED BY <1>2, <3>1, <3>2
  <2>6. ASSUME NEW answered \in BOOLEAN, Recheck(w, answered) PROVE Employed'
    BY <2>2, <2>5, <2>6 DEF Recheck
  <2>7. CASE ClaimNothing(w) \/ DryRun(w)
    BY <2>2, <2>7 DEF ClaimNothing, DryRun
  <2>8. CASE Abort(w)
    BY <2>5, <2>8 DEF Abort
  <2>9. ASSUME NEW failed \in BOOLEAN, BodyEnds(w, failed) PROVE Employed'
    BY <2>2, <2>9 DEF BodyEnds
  <2> QED BY <1>3, <2>3, <2>4, <2>6, <2>7, <2>8, <2>9 DEF WorkerStep
<1> QED
  <2>1. ASSUME NEW o \in Operators, OperatorStep(o) PROVE work' = work
    BY <2>1, OperatorFrame DEF workVars
  <2> QED BY <1>1, <1>3, <2>1
          DEF ModeNext, LeaseLapses, Insert, TickStarts, TickEnds, modeVars
-----------------------------------------------------------------------------
\* A reading writes a count only if it, or an earlier one, was zero.
LEMMA ObservedShows ==
  ASSUME NEW p \in Proofs, NEW zero \in BOOLEAN, NEW spaced \in BOOLEAN
  PROVE  /\ Observed(p, zero, spaced).epoch = p.epoch
         /\ Observed(p, zero, spaced).zeros # 0 => zero \/ p.zeros # 0
  BY DEF Observed, Reading

\* Nothing but a call moves, or nothing at all.
LEMMA DrainCallMoves ==
  ASSUME AdminTyped, DrainInv, UNCHANGED workVars, NEW o \in Operators, NEW c,
         row' = row, Goes(o, c), CallEvidence(c), proof'.epoch <= row.epoch,
         Shows(proof'.epoch, proof'.zeros # 0)
  PROVE  DrainInv'
<1>1. NoLiveBody' = NoLiveBody
  BY DEF workVars, NoLiveBody, LiveBody, Holds
<1>2. call'[o] = c /\ \A q \in Operators : q # o => call'[q] = call[q]
  BY DEF Goes, AdminTyped
<1>3. ASSUME NEW q \in Operators PROVE CallEvidence(call[q])'
  <2>1. CallEvidence(call'[q])
    BY <1>2 DEF DrainInv
  <2> QED BY <1>1, <2>1 DEF CallEvidence, Shows
<1>4. proof'.epoch <= row'.epoch /\ Shows(proof.epoch, proof.zeros # 0)'
  BY <1>1 DEF Shows
<1>5. row'.mode = "embedded" => NoLiveBody'
  BY <1>1 DEF DrainInv
<1> QED BY <1>3, <1>4, <1>5 DEF DrainInv

\* After a flip nothing that was read before is of the current epoch.
LEMMA DrainFlipMoves ==
  ASSUME AdminTyped, DrainInv, UNCHANGED workVars, NEW o \in Operators, NEW c, NEW mode,
         row' = Flipped(mode), proof' = proof, Goes(o, c), c.epoch <= row.epoch + 1,
         c.at \notin {"stats", "record", "leave"}, mode = "embedded" => NoLiveBody
  PROVE  DrainInv'
<1>1. NoLiveBody' = NoLiveBody
  BY DEF workVars, NoLiveBody, LiveBody, Holds
<1>2. call'[o] = c /\ \A q \in Operators : q # o => call'[q] = call[q]
  BY DEF Goes, AdminTyped
<1>3. row.epoch \in Int /\ row'.epoch = row.epoch + 1 /\ row'.mode = mode
  BY ModeAssumption DEF Flipped, AdminTyped, Epochs
<1>4. proof.epoch \in Int /\ \A q \in Operators : call[q].epoch \in Int
  BY ModeAssumption DEF AdminTyped, Sound, Proofs, Calls, Epochs
<1>5. ASSUME NEW q \in Operators PROVE CallEvidence(call[q])'
  <2>1. CASE q = o
    BY <1>2, <1>3, <2>1 DEF CallEvidence
  <2>2. CASE q # o
    <3>1. call'[q] = call[q] /\ CallEvidence(call[q])
      BY <1>2, <2>2 DEF DrainInv
    <3>2. call[q].epoch <= row.epoch
      BY <3>1 DEF CallEvidence
    <3>3. call[q].epoch <= row'.epoch /\ call[q].epoch # row'.epoch
      BY <1>3, <1>4, <3>2
    <3> QED BY <3>1, <3>3 DEF CallEvidence, Shows
  <2> QED BY <2>1, <2>2
<1>6. proof'.epoch <= row'.epoch /\ Shows(proof.epoch, proof.zeros # 0)'
  <2>1. proof.epoch <= row.epoch
    BY DEF DrainInv
  <2>2. proof.epoch <= row'.epoch /\ proof.epoch # row'.epoch
    BY <1>3, <1>4, <2>1
  <2> QED BY <2>2 DEF Shows
<1>7. row'.mode = "embedded" => NoLiveBody'
  BY <1>1, <1>3
<1> QED BY <1>5, <1>6, <1>7 DEF DrainInv

LEMMA OperatorKeepsDrain ==
  ASSUME AdminTyped, Employed, DrainInv, LeaversSawPause, UNCHANGED workVars,
         NEW o \in Operators, OperatorStep(o)
  PROVE  /\ DrainInv'
         /\ row.mode = "paused" /\ row'.mode # "paused" => NoLiveBody
<1>0. /\ row.epoch \in Int /\ 0 <= row.epoch /\ row.mode \in Modes
      /\ call[o].epoch \in Int /\ call[o].epoch <= row.epoch /\ call[o] \in Calls
      /\ CallEvidence(call[o])
      /\ proof.epoch <= row.epoch /\ Shows(proof.epoch, proof.zeros # 0)
      /\ proof \in Proofs /\ proof.epoch \in Int
  BY ModeAssumption DEF AdminTyped, Epochs, Calls, DrainInv, LeaversSawPause, Sound, Proofs
<1>1. ASSUME row' = row PROVE row.mode = "paused" => row'.mode = "paused"
  BY <1>1
<1>2. CallEvidence(Idle)
  BY <1>0 DEF Idle, CallEvidence
<1>3. ASSUME row' = row, proof' = proof, NEW c, Goes(o, c), CallEvidence(c) PROVE DrainInv'
  BY <1>0, <1>3, DrainCallMoves
<1>4. ASSUME row' = row, proof' = proof, Returns(o) PROVE DrainInv'
  BY <1>2, <1>3, <1>4 DEF Returns
<1>5. ASSUME NEW e \in Epochs, NEW to, EnterPaused(o, e) \/ Observe(o, e) \/ LeavePaused(o, e, to)
      PROVE  DrainInv' /\ row' = row
  <2>1. row' = row /\ proof' = proof /\ row.epoch = e
    BY <1>5 DEF EnterPaused, Observe, LeavePaused
  <2>2. ASSUME NEW c, Goes(o, c), c.at \in {"pause", "cursor", "check"}, c.epoch = e
        PROVE  DrainInv'
    <3>1. CallEvidence(c)
      <4>1. c.epoch <= row.epoch
        BY <1>0, <2>1, <2>2
      <4> QED BY <2>2, <4>1 DEF CallEvidence
    <3> QED BY <1>3, <2>1, <2>2, <3>1
  <2>3. CASE EnterPaused(o, e)
    <3> DEFINE c == [Idle EXCEPT !.at = "pause", !.epoch = e]
    <3>1. c.at = "pause" /\ c.epoch = e
      BY DEF Idle
    <3>2. Goes(o, c)
      BY <2>3 DEF EnterPaused
    <3> HIDE DEF c
    <3> QED BY <2>1, <2>2, <3>1, <3>2
  <2>4. CASE Observe(o, e)
    <3> DEFINE c == [Idle EXCEPT !.at = "cursor", !.epoch = e]
    <3>1. c.at = "cursor" /\ c.epoch = e
      BY DEF Idle
    <3>2. Goes(o, c)
      BY <2>4 DEF Observe
    <3> HIDE DEF c
    <3> QED BY <2>1, <2>2, <3>1, <3>2
  <2>5. CASE LeavePaused(o, e, to)
    <3> DEFINE c == [Idle EXCEPT !.at = "check", !.epoch = e, !.to = to]
    <3>1. c.at = "check" /\ c.epoch = e
      BY DEF Idle
    <3>2. Goes(o, c)
      BY <2>5 DEF LeavePaused
    <3> HIDE DEF c
    <3> QED BY <2>1, <2>2, <3>1, <3>2
  <2> QED BY <1>5, <2>3, <2>4, <2>5
<1>6. CASE ReadProof(o)
  <2>1. row' = row /\ proof' = proof
    BY <1>6 DEF ReadProof
  <2>2. CASE Returns(o)
    BY <1>1, <1>4, <2>1, <2>2
  <2>3. CASE /\ proof.epoch = call[o].epoch
             /\ Goes(o, [call[o] EXCEPT !.at = "stats", !.proof = proof])
    <3> DEFINE c == [call[o] EXCEPT !.at = "stats", !.proof = proof]
    <3>1. c.at = "stats" /\ c.epoch = call[o].epoch /\ c.proof = proof
      BY <1>0 DEF Calls
    <3>2. Goes(o, c)
      BY <2>3
    <3> HIDE DEF c
    <3>3. CallEvidence(c)
      BY <1>0, <2>3, <3>1 DEF CallEvidence, Shows
    <3> QED BY <1>1, <1>3, <2>1, <3>2, <3>3
  <2> QED BY <1>6, <2>2, <2>3 DEF ReadProof
<1>7. CASE ReadStats(o)
  <2> DEFINE c == [call[o] EXCEPT !.at = "record", !.zero = Drained]
  <2>1. c.at = "record" /\ c.epoch = call[o].epoch /\ c.proof = call[o].proof /\ c.zero = Drained
    BY <1>0 DEF Calls
  <2>2. row' = row /\ proof' = proof /\ Goes(o, c) /\ call[o].at = "stats"
    BY <1>7 DEF ReadStats
  <2> HIDE DEF c
  <2>3. Drained => NoLiveBody
    <3> SUFFICES ASSUME Drained, NEW w \in Workers, LiveBody(w) PROVE FALSE
      BY DEF NoLiveBody
    <3>1. jobs[work[w].job].status = "claimed"
      BY DEF LiveBody, Holds
    <3>2. work[w].job \in Jobs
      BY DEF LiveBody, Employed
    <3> QED BY <3>1, <3>2 DEF Drained
  <2>4. CallEvidence(c)
    BY <1>0, <2>1, <2>2, <2>3 DEF CallEvidence, Shows
  <2> QED BY <1>1, <1>3, <2>2, <2>4
<1>8. ASSUME NEW spaced \in BOOLEAN, RecordProof(o, spaced) PROVE DrainInv' /\ row' = row
  <2> DEFINE c == call[o]
  <2>1. c.proof \in Proofs /\ c.zero \in BOOLEAN
    BY <1>0 DEF Calls
  <2>2. /\ proof' = Observed(c.proof, c.zero, spaced) /\ row' = row /\ Goes(o, Idle)
        /\ c.at = "record"
    BY <1>8 DEF RecordProof, Returns
  <2>3. c.proof.epoch = c.epoch /\ Shows(c.epoch, c.proof.zeros # 0) /\ Shows(c.epoch, c.zero)
    BY <1>0, <2>2 DEF CallEvidence
  <2>4. proof'.epoch = c.epoch /\ (proof'.zeros # 0 => c.zero \/ c.proof.zeros # 0)
    BY <2>1, <2>2, <2>3, ObservedShows
  <2>5. proof'.epoch <= row.epoch /\ Shows(proof'.epoch, proof'.zeros # 0)
    BY <1>0, <2>3, <2>4 DEF Shows
  <2> QED BY <1>2, <2>2, <2>5, DrainCallMoves
<1>9. CASE CheckProof(o)
  <2>1. row' = row /\ proof' = proof
    BY <1>9 DEF CheckProof
  <2>2. CASE Returns(o)
    BY <1>1, <1>4, <2>1, <2>2
  <2>3. CASE /\ proof.epoch = call[o].epoch /\ proof.confirmed
             /\ Goes(o, [call[o] EXCEPT !.at = "leave"])
    <3> DEFINE c == [call[o] EXCEPT !.at = "leave"]
    <3>1. c.at = "leave" /\ c.epoch = call[o].epoch
      BY <1>0 DEF Calls
    <3>2. Goes(o, c)
      BY <2>3
    <3> HIDE DEF c
    <3>3. proof.zeros # 0
      BY <2>3 DEF AdminTyped, Sound
    <3>4. CallEvidence(c)
      BY <1>0, <2>3, <3>1, <3>3 DEF CallEvidence, Shows
    <3> QED BY <1>1, <1>3, <2>1, <3>2, <3>4
  <2> QED BY <1>9, <2>2, <2>3 DEF CheckProof
<1>10. CASE Pause(o)
  <2>1. proof' = proof /\ row'.mode \in {row.mode, "paused"}
    BY <1>10 DEF Pause, Flipped
  <2>2. CASE Returns(o) /\ UNCHANGED row
    BY <1>1, <1>4, <2>1, <2>2
  <2>3. CASE row' = Flipped("paused") /\ Goes(o, [Idle EXCEPT !.at = "reset", !.epoch = row'.epoch])
    <3> DEFINE c == [Idle EXCEPT !.at = "reset", !.epoch = row'.epoch]
    <3>1. c.at = "reset" /\ c.epoch = row.epoch + 1
      BY <2>3 DEF Idle, Flipped
    <3>2. Goes(o, c) /\ row' = Flipped("paused")
      BY <2>3
    <3> HIDE DEF c
    <3>3. c.epoch <= row.epoch + 1 /\ c.at \notin {"stats", "record", "leave"}
      BY <1>0, <3>1
    <3>4. DrainInv'
      BY <2>1, <3>2, <3>3, DrainFlipMoves
    <3> QED BY <3>2, <3>4 DEF Flipped
  <2> QED BY <1>10, <2>2, <2>3 DEF Pause
<1>11. CASE Leave(o)
  <2>1. proof' = proof
    BY <1>11 DEF Leave
  <2>2. CASE Returns(o) /\ UNCHANGED row
    BY <1>1, <1>4, <2>1, <2>2
  <2>3. CASE /\ FlipWins(call[o].epoch) /\ row' = Flipped(call[o].to)
             /\ Goes(o, [Idle EXCEPT !.at = "clear"])
    <3> DEFINE c == [Idle EXCEPT !.at = "clear"]
    <3>1. c.at = "clear" /\ c.epoch = 0
      BY DEF Idle
    <3>2. Goes(o, c) /\ row' = Flipped(call[o].to)
      BY <2>3
    <3> HIDE DEF c
    <3>3. c.epoch <= row.epoch + 1 /\ c.at \notin {"stats", "record", "leave"}
      BY <1>0, <3>1
    <3>4. call[o].epoch = row.epoch /\ row.mode = "paused" /\ call[o].at = "leave"
      BY <1>11, <2>3 DEF Leave, FlipWins, LeaversSawPause
    <3>5. NoLiveBody
      BY <1>0, <3>4 DEF CallEvidence, Shows
    <3>6. DrainInv'
      BY <2>1, <3>2, <3>3, <3>5, DrainFlipMoves
    <3> QED BY <3>5, <3>6
  <2> QED BY <1>11, <2>2, <2>3 DEF Leave
<1>12. CASE ResetProof(o) \/ ClearProof(o)
  <2>1. row' = row /\ Goes(o, Idle) /\ proof'.zeros = 0 /\ proof'.epoch <= row.epoch
    BY <1>0, <1>12 DEF ResetProof, ClearProof, NoProof, Returns
  <2>2. Shows(proof'.epoch, proof'.zeros # 0)
    BY <2>1 DEF Shows
  <2> QED BY <1>1, <1>2, <2>1, <2>2, DrainCallMoves
<1>13. CASE CrashOperator(o)
  BY <1>1, <1>4, <1>13 DEF CrashOperator
<1>14. CASE GiveUp(o)
  <2>1. row' = row /\ proof' = proof /\ call' = call
    BY <1>14 DEF GiveUp
  <2>2. NoLiveBody' = NoLiveBody
    BY DEF workVars, NoLiveBody, LiveBody, Holds
  <2> QED BY <1>1, <2>1, <2>2 DEF DrainInv, CallEvidence, Shows
<1> QED
  <2>1. Named(o) \subseteq Epochs
    BY DEF Named, AdminTyped
  <2> QED
    BY <1>1, <1>5, <1>6, <1>7, <1>8, <1>9, <1>10, <1>11, <1>12, <1>13, <1>14, <2>1
    DEF OperatorStep

\* The drain invariant and what it gives: a pause is left only when no body that
\* holds its lease is running.
LEMMA DrainStays ==
  ASSUME AdminTyped, WorkTyped, Employed, LeaversSawPause, DrainInv, [ModeNext]_modeVars
  PROVE  /\ DrainInv'
         /\ row.mode = "paused" /\ row'.mode # "paused" => NoLiveBody
<1>1. ASSUME UNCHANGED adminVars, row.mode # "distributed" /\ NoLiveBody => NoLiveBody'
      PROVE  DrainInv' /\ row' = row
  BY <1>1 DEF adminVars, DrainInv, CallEvidence, Shows
<1>2. ASSUME NEW o \in Operators, OperatorStep(o)
      PROVE  DrainInv' /\ (row.mode = "paused" /\ row'.mode # "paused" => NoLiveBody)
  <2>1. UNCHANGED workVars
    BY <1>2, OperatorFrame
  <2> QED BY <1>2, <2>1, OperatorKeepsDrain
<1>3. ASSUME NEW w \in Workers, WorkerStep(w) PROVE DrainInv' /\ row' = row
  <2>1. UNCHANGED adminVars
    BY <1>3, WorkerFrame
  <2> QED BY <1>1, <1>3, <2>1, NoLiveBodyStays
<1>4. ASSUME NEW j \in Jobs, LeaseLapses(j) \/ Insert(j) PROVE DrainInv' /\ row' = row
  <2>1. UNCHANGED adminVars
    BY <1>4 DEF LeaseLapses, Insert
  <2> QED BY <1>1, <1>4, <2>1, NoLiveBodyLapses
<1>5. CASE TickStarts \/ TickEnds \/ UNCHANGED modeVars
  <2>1. UNCHANGED adminVars /\ NoLiveBody' = NoLiveBody
    BY <1>5 DEF TickStarts, TickEnds, modeVars, adminVars, NoLiveBody, LiveBody, Holds
  <2> QED BY <1>1, <2>1
<1> QED
  BY <1>2, <1>3, <1>4, <1>5 DEF ModeNext

LEMMA DrainHolds ==
  ModeSpec => /\ [](Employed /\ DrainInv)
              /\ [][row.mode = "paused" /\ row'.mode # "paused" => NoLiveBody]_modeVars
<1>1. ModeInit => LeaversSawPause
  BY DEF ModeInit, LeaversSawPause, Idle
<1>2. ModeInit => Employed /\ DrainInv
  <2>1. ModeInit => Employed
    BY DEF ModeInit, Employed, Resting
  <2>2. ASSUME ModeInit PROVE NoLiveBody
    BY <2>2 DEF ModeInit, NoLiveBody, LiveBody, Resting
  <2>3. ASSUME ModeInit PROVE DrainInv
    <3>1. /\ row.epoch = 0 /\ row.mode = "embedded" /\ proof = NoProof
          /\ \A o \in Operators : call[o] = Idle
      BY <2>3 DEF ModeInit
    <3>2. NoProof.epoch = 0 /\ Idle.at = "idle" /\ Idle.epoch = 0
      BY DEF NoProof, Idle
    <3> QED BY <2>2, <2>3, <3>1, <3>2 DEF DrainInv, CallEvidence, Shows
  <2> QED BY <2>1, <2>3
<1>3. AdminTyped /\ LeaversSawPause /\ [ModeNext]_modeVars => LeaversSawPause'
  <2> SUFFICES ASSUME AdminTyped, LeaversSawPause, [ModeNext]_modeVars PROVE LeaversSawPause'
    OBVIOUS
  <2>1. CASE \E o \in Operators : OperatorStep(o)
    BY <2>1, OperatorKeepsBarrier
  <2>2. ASSUME row' = row, call' = call PROVE LeaversSawPause'
    BY <2>2 DEF LeaversSawPause
  <2>3. ASSUME NEW w \in Workers, WorkerStep(w) PROVE row' = row /\ call' = call
    BY <2>3, WorkerFrame DEF adminVars
  <2> QED
    BY <2>1, <2>2, <2>3
    DEF ModeNext, LeaseLapses, Insert, TickStarts, TickEnds, adminVars, modeVars
<1>4. AdminTyped /\ WorkTyped /\ LeaversSawPause /\ Employed /\ DrainInv /\ [ModeNext]_modeVars =>
        /\ Employed' /\ DrainInv'
        /\ [row.mode = "paused" /\ row'.mode # "paused" => NoLiveBody]_modeVars
  BY EmployedStays, DrainStays
<1> QED
  BY <1>1, <1>2, <1>3, <1>4, ModeTyped, PTL DEF ModeSpec

\* The pause is left only when no body that holds its lease is running, for any
\* number of operators, workers and jobs: the two zero readings of the code are
\* enough for claims, however their calls interleave and crash.
THEOREM DrainedBeforeLeft == ModeSpec => DrainedWhenLeft
<1>1. (row.mode = "paused" /\ row'.mode # "paused" => NoLiveBody) =>
        (row.mode = "paused" /\ row'.mode # "paused" => \A w \in Workers : ~LiveBody(w))
  BY DEF NoLiveBody
<1> QED
  BY <1>1, DrainHolds, PTL DEF DrainedWhenLeft

\* With the embedded scheduler in charge no worker runs a body under a live
\* lease.
THEOREM EmbeddedAlone == ModeSpec => []NoLiveBodyUnderEmbedded
<1>1. DrainInv => NoLiveBodyUnderEmbedded
  BY DEF DrainInv, NoLiveBody, NoLiveBodyUnderEmbedded
<1> QED
  BY <1>1, DrainHolds, PTL

-------------------------------------------------------------------------------
(***************************************************************************)
(* The hand-over of a turn's post-processing from the API to the queue.    *)
(***************************************************************************)

NoRows == \A r \in Tries : rows[r].status = "absent"

\* A try is left to a call that tries, a call has an epoch that the lease has
\* reached, and a lease that was live at the call's instant stays so.
CallKnown ==
  /\ api.at = "trying" => api.tries < MaxTries
  /\ api.epoch <= lease.epoch
  /\ api.at \notin {"start", "no_leader", "gone"} => lease.live
  /\ api.ran => api.at = "no_leader"

\* Rows come from the tries of the call: there is none before it, none but the
\* one it was told of while no try raised, and beside a fallback only those of a
\* former epoch's tries that raised.
RowsKnown ==
  /\ api.at = "start" => NoRows /\ api.tries = 0
  /\ api.tries = 0 /\ api.at # "inserted" => NoRows
  /\ api.tries = 0 => \A r \in Tries \ {1} : rows[r].status = "absent"
  /\ api.at = "no_leader" => NoRows \/ (api.tries > 0 /\ api.epoch < lease.epoch)

\* What a run of the body that no lapse accounts for has left behind.
After == {"running", "done", "dead"}
RunShows == api.ran \/ rows[1].status \in After

\* As long as no try raised, there is at most one run more than lapsed claims, and
\* it shows.
RunsCounted == api.tries = 0 => bodies <= lapses + (IF RunShows THEN 1 ELSE 0)

TurnInv == TurnTypeOK /\ CallKnown /\ RowsKnown /\ RunsCounted
-----------------------------------------------------------------------------
\* The first row is the row of the first try; a settled row had been inserted.
LEMMA FirstTry == 1 \in Tries
  BY PostTurnAssumption DEF Tries

LEMMA InitialTurn == TurnInit => TurnInv
<1> SUFFICES ASSUME TurnInit PROVE TurnInv
  OBVIOUS
<1>1. TurnTypeOK /\ NoRows
  <2>1. lease \in [epoch : 0..MaxEpoch, live : BOOLEAN]
    <3>1. 0 \in 0..MaxEpoch /\ 1 \in 0..MaxEpoch
      BY PostTurnAssumption
    <3>2. \A epoch \in 0..MaxEpoch, live \in BOOLEAN :
            [epoch |-> epoch, live |-> live] \in [epoch : 0..MaxEpoch, live : BOOLEAN]
      OBVIOUS
    <3>3. \/ lease = [epoch |-> 0, live |-> FALSE]
          \/ lease = [epoch |-> 1, live |-> FALSE]
          \/ lease = [epoch |-> 1, live |-> TRUE]
      BY Zenon DEF TurnInit
    <3> QED
      BY <3>1, <3>2, <3>3
  <2>2. api \in [at : {"start", "trying", "unsure", "inserted", "already_active",
                     "no_leader", "ambiguous", "gone"},
               epoch : 0..MaxEpoch, tries : 0..MaxTries, ran : BOOLEAN]
    BY PostTurnAssumption DEF TurnInit
  <2>3. 0 \in 0..MaxAttempts
    BY PostTurnAssumption
  <2> QED
    BY <2>1, <2>2, <2>3 DEF TurnInit, TurnTypeOK, NoRows
<1>2. CallKnown /\ RowsKnown /\ RunsCounted
  BY <1>1 DEF TurnInit, CallKnown, RowsKnown, RunsCounted, NoRows
<1> QED
  BY <1>1, <1>2 DEF TurnInv

\* A row changes its status only if there is such a row; what is known of the rows
\* of a call says only which ones there are.
LEMMA PresentRow ==
  ASSUME TurnInv, NEW r \in Tries, rows[r].status # "absent", NEW new,
         new.status # "absent", rows' = [rows EXCEPT ![r] = new],
         UNCHANGED <<api, lease>>
  PROVE  CallKnown' /\ RowsKnown'
<1>1. DOMAIN rows = Tries /\ \A s \in Tries \ {r} : rows'[s] = rows[s]
  BY DEF TurnInv, TurnTypeOK
<1>2. ~NoRows
  BY DEF NoRows
<1>3. CallKnown'
  BY DEF TurnInv, CallKnown
<1>4. RowsKnown'
  BY <1>1, <1>2 DEF TurnInv, RowsKnown
<1> QED
  BY <1>3, <1>4

\* Such a step keeps the count of the runs, if it adds no run that does not show.
LEMMA CountedRow ==
  ASSUME TurnInv, NEW r \in Tries, rows[r].status # "absent", NEW new,
         rows' = [rows EXCEPT ![r] = new], UNCHANGED api,
         NEW more \in Int, NEW fewer \in Int, bodies' = bodies + more, lapses' = lapses + fewer,
         rows[r].status \in After /\ new.status \notin After => more + 1 <= fewer,
         rows[r].status \notin After /\ new.status \in After => more <= fewer + 1,
         (rows[r].status \in After <=> new.status \in After) => more <= fewer
  PROVE  RunsCounted'
<1> SUFFICES ASSUME api.tries = 0
             PROVE  bodies' <= lapses' + (IF RunShows' THEN 1 ELSE 0)
  BY DEF RunsCounted
<1>1. r = 1
  BY DEF TurnInv, RowsKnown
<1>2. ~api.ran
  BY DEF TurnInv, CallKnown, RowsKnown, NoRows
<1>3. rows'[1] = new
  BY <1>1 DEF TurnInv, TurnTypeOK
<1>4. RunShows <=> rows[r].status \in After
  BY <1>1, <1>2 DEF RunShows
<1>5. RunShows' <=> new.status \in After
  BY <1>2, <1>3 DEF RunShows
<1>6. bodies <= lapses + (IF RunShows THEN 1 ELSE 0) /\ bodies \in Nat /\ lapses \in Nat
  BY DEF TurnInv, RunsCounted, TurnTypeOK
<1> QED
  <2>1. CASE RunShows /\ ~RunShows'
    BY <1>4, <1>5, <1>6, <2>1
  <2>2. CASE ~RunShows /\ RunShows'
    BY <1>4, <1>5, <1>6, <2>2
  <2>3. CASE RunShows <=> RunShows'
    BY <1>4, <1>5, <1>6, <2>3
  <2> QED
    BY <2>1, <2>2, <2>3

LEMMA RowsMove ==
  ASSUME TurnInv, NEW r \in Tries, RowStep(r) \/ Fails(r) \/ Lapses(r)
  PROVE  TurnInv'
<1> USE DEF ActiveRow, InHand
<1>1. rows[r] \in [status : {"absent", "done", "dead"} \cup ActiveRow, attempt : 0..MaxAttempts]
  BY DEF TurnInv, TurnTypeOK
<1>2. bodies \in Nat /\ lapses \in Nat /\ DOMAIN rows = Tries
  BY DEF TurnInv, TurnTypeOK
<1>3. CASE Claim(r)
  <2> DEFINE new == IF Exhausted(r) THEN [rows[r] EXCEPT !.status = "dead"]
                    ELSE [status |-> "claimed", attempt |-> rows[r].attempt + 1]
  <2>1. /\ rows' = [rows EXCEPT ![r] = new] /\ UNCHANGED <<lease, api, bodies, lapses>>
        /\ rows[r].status \in {"queued", "lapsed"}
    BY <1>2, <1>3 DEF Claim, Claimable
  <2>2. /\ new \in [status : {"absent", "done", "dead"} \cup ActiveRow, attempt : 0..MaxAttempts]
        /\ new.status \in {"dead", "claimed"}
    BY <1>1, PostTurnAssumption DEF Exhausted
  <2> HIDE DEF new
  <2>3. TurnTypeOK'
    BY <2>1, <2>2 DEF TurnInv, TurnTypeOK
  <2>4. CallKnown' /\ RowsKnown'
    BY <2>1, <2>2, PresentRow
  <2>5. RunsCounted'
    <3> DEFINE none == 0
    <3>1. /\ none \in Int /\ bodies' = bodies + none /\ lapses' = lapses + none
          /\ none <= none /\ none <= none + 1
      BY <1>2, <2>1
    <3>2. rows[r].status \notin After /\ rows[r].status # "absent"
      BY <2>1 DEF After
    <3> HIDE DEF none
    <3> QED
      BY <2>1, <3>1, <3>2, CountedRow
  <2> QED
    BY <2>3, <2>4, <2>5 DEF TurnInv
<1>4. ASSUME NEW status \in {"running", "done", "dead", "queued", "lapsed"}, TryBecomes(r, status),
             rows[r].status \in InHand, UNCHANGED <<lease, api>>,
             bodies' = IF status = "running" THEN bodies + 1 ELSE bodies,
             lapses' = IF status = "lapsed" THEN lapses + 1 ELSE lapses,
             status # "running" /\ status # "done" /\ status # "lapsed" => rows[r].status = "claimed",
             status = "running" => rows[r].status = "claimed"
      PROVE  TurnInv'
  <2> DEFINE new == [rows[r] EXCEPT !.status = status]
  <2>1. rows' = [rows EXCEPT ![r] = new]
    BY <1>4 DEF TryBecomes
  <2>2. /\ new \in [status : {"absent", "done", "dead"} \cup ActiveRow, attempt : 0..MaxAttempts]
        /\ new.status = status
    BY <1>1
  <2> HIDE DEF new
  <2>3. TurnTypeOK'
    BY <1>4, <2>1, <2>2 DEF TurnInv, TurnTypeOK
  <2>4. CallKnown' /\ RowsKnown'
    BY <1>4, <2>1, <2>2, PresentRow
  <2>5. RunsCounted'
    <3> DEFINE more == IF status = "running" THEN 1 ELSE 0
               fewer == IF status = "lapsed" THEN 1 ELSE 0
    <3>1. bodies' = bodies + more /\ lapses' = lapses + fewer /\ more \in Int /\ fewer \in Int
      BY <1>2, <1>4
    <3>2. /\ rows[r].status \in After /\ new.status \notin After => more + 1 <= fewer
          /\ rows[r].status \notin After /\ new.status \in After => more <= fewer + 1
          /\ (rows[r].status \in After <=> new.status \in After) => more <= fewer
      BY <1>4, <2>2 DEF After
    <3> HIDE DEF more, fewer
    <3> QED
      BY <1>4, <2>1, <2>2, <3>1, <3>2, CountedRow
  <2> QED
    BY <2>3, <2>4, <2>5 DEF TurnInv
<1>5. CASE BodyBegins(r)
  BY <1>4, <1>5 DEF BodyBegins
<1>6. CASE Completes(r)
  BY <1>4, <1>6 DEF Completes
<1>7. CASE Fails(r)
  BY <1>4, <1>7 DEF Fails
<1>8. CASE Lapses(r)
  BY <1>4, <1>8 DEF Lapses
<1> QED
  BY <1>3, <1>5, <1>6, <1>7, <1>8 DEF RowStep
-----------------------------------------------------------------------------
\* A try finds its own place in the table empty only if the key is free; the row
\* it inserts is of no run.
LEMMA InsertedRow ==
  ASSUME TurnInv, api.at = "trying", InsertTry, UNCHANGED <<bodies, lapses>>
  PROVE  /\ rows' \in [Tries -> [status : {"absent", "done", "dead"} \cup ActiveRow,
                                 attempt : 0..MaxAttempts]]
         /\ api.tries = 0 => /\ bodies <= lapses
                             /\ \A r \in Tries \ {1} : rows'[r].status = "absent"
<1>1. api.tries + 1 \in Tries /\ api.tries \in Nat
  BY PostTurnAssumption DEF TurnInv, TurnTypeOK, CallKnown, Tries
<1>2. /\ rows \in [Tries -> [status : {"absent", "done", "dead"} \cup ActiveRow,
                             attempt : 0..MaxAttempts]]
      /\ "queued" \in ActiveRow
  BY DEF TurnInv, TurnTypeOK, ActiveRow
<1>3. rows' \in [Tries -> [status : {"absent", "done", "dead"} \cup ActiveRow,
                           attempt : 0..MaxAttempts]]
  BY <1>1, <1>2 DEF InsertTry
<1>4. ASSUME api.tries = 0
      PROVE  bodies <= lapses /\ \A r \in Tries \ {1} : rows'[r].status = "absent"
  <2>1. \A r \in Tries : rows[r].status = "absent"
    BY <1>4 DEF TurnInv, RowsKnown, NoRows
  <2>2. ~RunShows
    BY <2>1, FirstTry DEF TurnInv, CallKnown, RunShows, After
  <2>3. bodies <= lapses
    BY <1>4, <2>2 DEF TurnInv, RunsCounted, TurnTypeOK
  <2> QED
    BY <1>2, <1>4, <2>1, <2>3 DEF InsertTry
<1> QED
  BY <1>3, <1>4

\* A step of the call that leaves the rows and the runs alone.
LEMMA EnqueueMoves ==
  ASSUME TurnInv, TurnTypeOK', CallKnown', UNCHANGED <<rows, bodies, lapses>>,
         api'.tries = 0 => api.tries = 0, ~api'.ran \/ api.ran,  api.ran => api'.ran,
         api'.at # "start", api'.tries >= api.tries,
         api.at = "inserted" => api'.at = "inserted",
         api'.at = "no_leader" => NoRows \/ (api'.tries > 0 /\ api'.epoch < lease'.epoch)
  PROVE  TurnInv'
<1>1. NoRows' = NoRows /\ RunShows' = RunShows
  BY DEF NoRows, RunShows
<1>2. RowsKnown'
  BY <1>1 DEF TurnInv, RowsKnown
<1>3. RunsCounted'
  BY <1>1 DEF TurnInv, RunsCounted
<1> QED
  BY <1>2, <1>3 DEF TurnInv

LEMMA CallStepsKept ==
  ASSUME TurnInv, ApiStep \/ (\E committed \in BOOLEAN : TryRaises(committed)) \/ ApiDies
  PROVE  TurnInv'
<1>1. /\ lease \in [epoch : 0..MaxEpoch, live : BOOLEAN]
      /\ api \in [at : {"start", "trying", "unsure", "inserted", "already_active",
                        "no_leader", "ambiguous", "gone"},
                  epoch : 0..MaxEpoch, tries : 0..MaxTries, ran : BOOLEAN]
      /\ bodies \in Nat /\ lapses \in Nat /\ MaxTries \in Nat \ {0} /\ MaxEpoch \in Nat
  BY PostTurnAssumption DEF TurnInv, TurnTypeOK
<1>2. ASSUME NEW answered \in BOOLEAN, ReadEpoch(answered)
      PROVE  TurnInv'
  <2>1. /\ api.at = "start" /\ api.tries = 0 /\ NoRows /\ ~api.ran
        /\ api'.tries = 0 /\ ~api'.ran /\ UNCHANGED <<lease, rows, bodies, lapses>>
        /\ \/ api'.at = "trying" /\ api'.epoch = lease.epoch /\ lease.live
           \/ api'.at = "no_leader" /\ api'.epoch = api.epoch
    BY <1>1, <1>2 DEF ReadEpoch, Outcome, TurnInv, RowsKnown, CallKnown
  <2>2. api' \in [at : {"start", "trying", "unsure", "inserted", "already_active",
                        "no_leader", "ambiguous", "gone"},
                  epoch : 0..MaxEpoch, tries : 0..MaxTries, ran : BOOLEAN]
    BY <1>1, <1>2 DEF ReadEpoch, Outcome
  <2>3. CallKnown'
    BY <1>1, <2>1 DEF TurnInv, CallKnown
  <2>4. TurnTypeOK'
    BY <2>1, <2>2 DEF TurnInv, TurnTypeOK
  <2> QED
    BY <2>1, <2>3, <2>4, EnqueueMoves
<1>3. ASSUME NEW answered \in BOOLEAN, ClassifyNone(answered)
      PROVE  TurnInv'
  <2>1. /\ api.at = "unsure" /\ lease.live /\ ~api.ran
        /\ api'.tries = api.tries /\ ~api'.ran /\ api'.epoch = api.epoch
        /\ UNCHANGED <<lease, rows, bodies, lapses>>
        /\ api'.at \in {"ambiguous", "already_active", "no_leader"}
        /\ api'.at = "no_leader" => lease.epoch # api.epoch
    BY <1>1, <1>3 DEF ClassifyNone, Outcome, TurnInv, CallKnown
  <2>2. TurnTypeOK' /\ CallKnown'
    BY <1>1, <1>3, <2>1 DEF ClassifyNone, Outcome, TurnInv, TurnTypeOK, CallKnown
  <2>3. api'.at = "no_leader" => NoRows \/ (api'.tries > 0 /\ api'.epoch < lease'.epoch)
    BY <1>1, <2>1 DEF TurnInv, CallKnown, RowsKnown
  <2> QED
    BY <1>1, <2>1, <2>2, <2>3, EnqueueMoves
<1>4. CASE TryAnswered
  <2>1. CASE Admits
    <3>1. /\ api' = [api EXCEPT !.at = "inserted"] /\ InsertTry /\ lease.live
          /\ api.at = "trying" /\ ~api.ran /\ UNCHANGED <<lease, bodies, lapses>>
      BY <1>4, <2>1 DEF TryAnswered, Outcome, Admits, TurnInv, CallKnown
    <3>2. TurnTypeOK' /\ CallKnown'
      BY <1>1, <3>1, InsertedRow DEF TurnInv, TurnTypeOK, CallKnown
    <3>3. RowsKnown' /\ RunsCounted'
      BY <1>1, <3>1, InsertedRow DEF RowsKnown, RunsCounted
    <3> QED
      BY <3>2, <3>3 DEF TurnInv
  <2>2. CASE ~Admits
    <3>1. /\ api' = [api EXCEPT !.at = "unsure"] /\ lease.live
          /\ api.at = "trying" /\ ~api.ran /\ UNCHANGED <<lease, rows, bodies, lapses>>
      BY <1>4, <2>2 DEF TryAnswered, Outcome, TurnInv, CallKnown
    <3>2. TurnTypeOK' /\ CallKnown'
      BY <1>1, <3>1 DEF TurnInv, TurnTypeOK, CallKnown
    <3> QED
      BY <1>1, <3>1, <3>2, EnqueueMoves
  <2> QED
    BY <2>1, <2>2
<1>5. ASSUME NEW committed \in BOOLEAN, TryRaises(committed)
      PROVE  TurnInv'
  <2>1. /\ api.at = "trying" /\ api.tries < MaxTries /\ ~api.ran /\ lease.live
        /\ api'.tries = api.tries + 1 /\ ~api'.ran /\ api'.epoch = api.epoch
        /\ api'.at = (IF api.tries + 1 = MaxTries THEN "ambiguous" ELSE "trying")
        /\ InsertTry \/ UNCHANGED rows
        /\ UNCHANGED <<lease, bodies, lapses>>
    BY <1>1, <1>5 DEF TryRaises, TurnInv, CallKnown
  <2>2. api' \in [at : {"start", "trying", "unsure", "inserted", "already_active",
                        "no_leader", "ambiguous", "gone"},
                  epoch : 0..MaxEpoch, tries : 0..MaxTries, ran : BOOLEAN]
    <3> DEFINE phase == IF api.tries + 1 = MaxTries THEN "ambiguous" ELSE api.at
               tries == api.tries + 1
    <3>1. api' = [api EXCEPT !.tries = tries, !.at = phase]
      BY <1>5 DEF TryRaises
    <3>2. tries \in 0..MaxTries /\ phase \in {"ambiguous", "trying"}
      BY <1>1, <2>1
    <3> HIDE DEF tries, phase
    <3> QED
      BY <1>1, <3>1, <3>2
  <2>3. rows' \in [Tries -> [status : {"absent", "done", "dead"} \cup ActiveRow,
                             attempt : 0..MaxAttempts]]
    BY <2>1, InsertedRow DEF TurnInv, TurnTypeOK
  <2>4. TurnTypeOK'
    BY <1>1, <2>1, <2>2, <2>3 DEF TurnTypeOK
  <2>5. CallKnown'
    BY <1>1, <2>1 DEF TurnInv, CallKnown
  <2>6. api'.tries # 0 /\ api'.at \notin {"start", "no_leader"}
    BY <1>1, <2>1
  <2>7. RowsKnown' /\ RunsCounted'
    BY <2>6 DEF RowsKnown, RunsCounted
  <2> QED
    BY <2>4, <2>5, <2>7 DEF TurnInv
<1>6. CASE RunInProcess
  <2>1. /\ api.at = "no_leader" /\ ~api.ran /\ bodies' = bodies + 1
        /\ api' = [api EXCEPT !.ran = TRUE] /\ UNCHANGED <<lease, rows, lapses>>
    BY <1>6 DEF RunInProcess, ShouldFallback
  <2>2. /\ api' \in [at : {"start", "trying", "unsure", "inserted", "already_active",
                           "no_leader", "ambiguous", "gone"},
                     epoch : 0..MaxEpoch, tries : 0..MaxTries, ran : BOOLEAN]
        /\ api'.at = "no_leader" /\ api'.ran /\ api'.tries = api.tries /\ api'.epoch = api.epoch
    BY <1>1, <2>1
  <2>3. TurnTypeOK' /\ CallKnown'
    BY <1>1, <2>1, <2>2 DEF TurnInv, TurnTypeOK, CallKnown
  <2>4. RowsKnown'
    BY <2>1, <2>2 DEF TurnInv, RowsKnown, NoRows
  <2>5. ASSUME api.tries = 0
        PROVE  bodies' <= lapses' + 1
    <3>1. rows[1].status = "absent"
      BY <2>1, <2>5, FirstTry DEF TurnInv, RowsKnown, NoRows
    <3>2. ~RunShows
      BY <2>1, <3>1 DEF RunShows, After
    <3>3. bodies <= lapses
      BY <1>1, <2>5, <3>2 DEF TurnInv, RunsCounted
    <3> QED
      BY <1>1, <2>1, <3>3
  <2>6. RunsCounted'
    BY <2>2, <2>5 DEF RunsCounted, RunShows
  <2> QED
    BY <2>3, <2>4, <2>6 DEF TurnInv
<1>7. CASE ApiDies
  <2>1. /\ api' = [api EXCEPT !.at = "gone"] /\ ~api.ran /\ api.at # "inserted"
        /\ UNCHANGED <<lease, rows, bodies, lapses>>
    BY <1>7 DEF ApiDies, Outcome, ShouldFallback, TurnInv, CallKnown
  <2>2. TurnTypeOK' /\ CallKnown'
    BY <1>1, <2>1 DEF TurnInv, TurnTypeOK, CallKnown
  <2> QED
    BY <1>1, <2>1, <2>2, EnqueueMoves
<1> QED
  BY <1>2, <1>3, <1>4, <1>5, <1>6, <1>7 DEF ApiStep

LEMMA TakeoverKept == TurnInv /\ Takeover => TurnInv'
<1> SUFFICES ASSUME TurnInv, Takeover PROVE TurnInv'
  OBVIOUS
<1>1. /\ lease \in [epoch : 0..MaxEpoch, live : BOOLEAN] /\ lease.epoch < MaxEpoch
      /\ lease' = [epoch |-> lease.epoch + 1, live |-> TRUE]
      /\ UNCHANGED <<api, rows, bodies, lapses>>
      /\ MaxEpoch \in Nat /\ api.epoch \in Nat
  BY PostTurnAssumption DEF Takeover, TurnInv, TurnTypeOK
<1>2. lease' \in [epoch : 0..MaxEpoch, live : BOOLEAN] /\ lease'.live /\ lease'.epoch > lease.epoch
  BY <1>1
<1>3. TurnTypeOK' /\ CallKnown'
  BY <1>1, <1>2 DEF TurnInv, TurnTypeOK, CallKnown
<1>4. RowsKnown' /\ RunsCounted'
  BY <1>1, <1>2 DEF TurnInv, RowsKnown, RunsCounted, NoRows, RunShows
<1> QED
  BY <1>3, <1>4 DEF TurnInv

\* The inductive invariant of the hand-over, for any number of tries, attempts and
\* takeovers (enqueue() and its retries, the fallback, the worker's settlement).
THEOREM TurnInvariant == TurnSpec => []TurnInv
<1>1. TurnInv /\ [TurnNext]_turnVars => TurnInv'
  <2> SUFFICES ASSUME TurnInv, [TurnNext]_turnVars PROVE TurnInv'
    OBVIOUS
  <2>1. CASE UNCHANGED turnVars
    BY <2>1 DEF turnVars, TurnInv, TurnTypeOK, CallKnown, RowsKnown, RunsCounted, NoRows, RunShows
  <2> QED
    BY <2>1, CallStepsKept, TakeoverKept, RowsMove DEF TurnNext
<1> QED
  BY <1>1, InitialTurn, PTL DEF TurnSpec
-----------------------------------------------------------------------------
\* The enqueuing call ends in one of its outcomes within its tries, and no row is
\* charged more attempts than its budget.
THEOREM TurnTypeCorrect == TurnSpec => []TurnTypeOK
<1>1. TurnInv => TurnTypeOK
  BY DEF TurnInv
<1> QED
  BY <1>1, TurnInvariant, PTL

\* The API process runs a turn that has a row in the queue only if a call raised
\* and a new leader came.
THEOREM FallbackNeedsBoth == TurnSpec => []FallbackExplained
<1>1. TurnInv => FallbackExplained
  <2> SUFFICES ASSUME TurnInv, api.ran, \E r \in Tries : rows[r].status # "absent"
               PROVE  api.tries > 0 /\ lease.epoch # api.epoch
    BY DEF FallbackExplained
  <2>1. api.tries > 0 /\ api.epoch < lease.epoch
    BY DEF TurnInv, CallKnown, RowsKnown, NoRows
  <2> QED
    BY <2>1 DEF TurnInv, TurnTypeOK
<1> QED
  BY <1>1, TurnInvariant, PTL

\* As long as no call of the queue has raised, the body runs once and once more
\* for each claim that ran out, in whatever process.
THEOREM RerunsBounded == TurnSpec => []RerunsExplained
<1>1. TurnInv => RerunsExplained
  BY DEF TurnInv, TurnTypeOK, RunsCounted, RerunsExplained
<1> QED
  BY <1>1, TurnInvariant, PTL

===============================================================================
