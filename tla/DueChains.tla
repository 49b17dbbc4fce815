----------------------------- MODULE DueChains -----------------------------
(***************************************************************************)
(* One self-continuing chain of due jobs: the jobs of one (kind, character) *)
(* pair.  A claimed job runs its step and then enqueues its own successor,  *)
(* under the fencing epoch it was enqueued with itself; a chain that broke  *)
(* is reseeded by the coordinator's reconciler, unless it is dead-lettered. *)
(*                                                                         *)
(* The clock counts windows, the base grid to which idempotency keys are    *)
(* quantised.  `due' and `win' (the window of the key) are relative to the  *)
(* current window and floored where nothing here looks further back.  Of    *)
(* JobQueue's leases and attempts only the outcomes are kept: a claim       *)
(* lapses, a job is retried or buried.  `cur' says that an epoch is still   *)
(* the coordinator lease's.                                                 *)
(***************************************************************************)
EXTENDS Integers, Sequences, FiniteSets

CONSTANTS Multiplier,    \* cadence in windows: the account's multiplier
          Precise,       \* windows at which an explicit instant may lie
          MaxFaults      \* bound on the faults of a behaviour

ASSUME ChainAssumption ==
  /\ Multiplier \in Nat \ {0}
  /\ Precise \subseteq 0..Multiplier
  /\ MaxFaults \in Nat

VARIABLES rows,     \* the chain's rows, active or dead, in the order of insertion
          lost,     \* bodies that go on after their claim has lapsed
          rec,      \* the reconciler's pass
          frozen,   \* the character is frozen, locked or dormant
          led,      \* some coordinator's lease is live
          used      \* the faults that have happened

vars == <<rows, lost, rec, frozen, led, used>>

\* A claimed row's status is the phase of the body that holds it.
Held == {"claimed", "stepping", "ended"}
Active == {"queued", "lapsed"} \cup Held
Dues == -Multiplier..Multiplier

\* kept is history: the row was there at the first read of the pass under way.
ChainRows ==
  [status : Active \cup {"dead"}, win : -1..Multiplier, due : Dues,
   cur : BOOLEAN, kept : BOOLEAN]

LostRuns == [status : {"claimed", "stepping"}, due : Dues, cur : BOOLEAN]

Passes == [at : {"idle", "reading", "listing"}, seen : BOOLEAN, cur : BOOLEAN, late : BOOLEAN]

NoPass == [at |-> "idle", seen |-> FALSE, cur |-> FALSE, late |-> FALSE]

Faults == {"retry", "lapse", "takeover", "redrive"}

\* A fault happens once at most, and MaxFaults of them in one behaviour.
Fault(kind) ==
  /\ kind \notin used /\ Cardinality(used) < MaxFaults
  /\ used' = used \cup {kind}

\* Keys and instants stay within the windows that matter, and no body outlives
\* its claim without one of the bounded lapses.
ChainTypeOK ==
  /\ rows \in Seq(ChainRows)
  /\ lost \subseteq LostRuns /\ (lost # {} => "lapse" \in used)
  /\ rec \in Passes
  /\ frozen \in BOOLEAN /\ led \in BOOLEAN
  /\ used \subseteq Faults

Init ==
  /\ rows = <<>> /\ lost = {}
  /\ rec = NoPass
  /\ frozen = FALSE /\ led = TRUE
  /\ used = {}
-----------------------------------------------------------------------------
In(statuses) == {i \in DOMAIN rows : rows[i].status \in statuses}

Becomes(i, status) == rows' = [rows EXCEPT ![i].status = status]

\* The table once row i is done or pruned.
Without(i) ==
  [j \in 1..Len(rows) - 1 |-> IF j < i THEN rows[j] ELSE rows[j + 1]]

\* The partial unique index on active rows.
KeyFree(win) == \A i \in In(Active) : rows[i].win # win

\* Mutant of Admitted: without the unique index.
AdmittedTwice(cur, win) == led /\ cur

\* enqueue(): refused without a live lease of the spec's epoch, and while the
\* key is active.
Admitted(cur, win) == led /\ cur /\ KeyFree(win)

\* The table after an enqueue() that commits, or not.
Enqueued(due, cur, committed) ==
  IF committed /\ Admitted(cur, due)
  THEN Append(rows, [status |-> "queued", win |-> due, due |-> due, cur |-> cur, kept |-> FALSE])
  ELSE rows

\* _candidate_due(): one interval after the anchor, or after now once that has
\* passed; an anchor at its floor leaves open whether it has.
CadenceDue(due) == IF due + Multiplier > 0 THEN {due + Multiplier} ELSE {0, Multiplier}

\* compute(): explicit instants (beats, scene timeouts, the feed's floor retry)
\* take the place of the cadence.
NextDues(due) == CadenceDue(due) \cup Precise

\* Mutant of Claimable: a job is claimed before it is due.
ClaimableEarly(i) == rows[i].status \in {"queued", "lapsed"}

\* Mutant of Claimable: a claim that lapsed is not taken up again.
ClaimableQueued(i) == rows[i].status = "queued" /\ rows[i].due <= 0

Claimable(i) ==
  \/ rows[i].status = "queued" /\ rows[i].due <= 0
  \/ rows[i].status = "lapsed"

\* claim(), whatever a tenant's single flight and the caps may forbid.
Claim(i) ==
  /\ Claimable(i)
  /\ Becomes(i, "claimed")
  /\ UNCHANGED <<lost, rec, frozen, led, used>>

\* claim() of a lapsed row that has no attempt left.
Bury(i) ==
  /\ rows[i].status = "lapsed"
  /\ Becomes(i, "dead")
  /\ UNCHANGED <<lost, rec, frozen, led, used>>

\* Mutant of Entered: no pre-flight guard.
EnteredAnyway == "stepping"

\* The pre-flight guard of handle(): a stopped character's job ends here, its
\* step not run and its chain not continued.
Entered == IF frozen THEN "ended" ELSE "stepping"

Begin(i) ==
  /\ rows[i].status = "claimed"
  /\ Becomes(i, Entered)
  /\ UNCHANGED <<lost, rec, frozen, led, used>>

\* Mutant of MayFail: an error after the successor's enqueue escapes too.
MayFailLate(i) == rows[i].status \in {"stepping", "ended"}

\* The step raises, or the computation of the next due instant does: nothing
\* was enqueued when the exception escapes.
MayFail(i) == rows[i].status = "stepping"

\* fail() with an attempt left: queued again after a backoff.
Retry(i, delay) ==
  /\ MayFail(i)
  /\ Fault("retry")
  /\ rows' = [rows EXCEPT ![i].status = "queued", ![i].due = delay]
  /\ UNCHANGED <<lost, rec, frozen, led>>

\* fail() of the last attempt.
FailDead(i) ==
  /\ MayFail(i)
  /\ Becomes(i, "dead")
  /\ UNCHANGED <<lost, rec, frozen, led, used>>

\* _advance_chain() after the step, to a due instant of NextDues.  The freeze was
\* read into the character before the step and is not read again; dormancy is.
\* An enqueue that raises is swallowed, committed or not.
Advance(i, due, dormant, committed) ==
  /\ rows[i].status = "stepping"
  /\ dormant => frozen
  /\ LET after == Enqueued(due, rows[i].cur, ~dormant /\ committed)
     IN rows' = [after EXCEPT ![i].status = "ended"]
  /\ UNCHANGED <<lost, rec, frozen, led, used>>

\* complete().
Complete(i) ==
  /\ rows[i].status = "ended"
  /\ rows' = Without(i)
  /\ UNCHANGED <<lost, rec, frozen, led, used>>

\* The claim runs out.  Its body, unless that died with its worker, is not
\* stopped: the abort flag is looked at only after it.
Lapse(i, dies) ==
  /\ rows[i].status \in Held
  /\ Fault("lapse")
  /\ Becomes(i, "lapsed")
  /\ lost' = IF dies \/ rows[i].status = "ended" THEN lost
             ELSE lost \cup {[status |-> rows[i].status, due |-> rows[i].due, cur |-> rows[i].cur]}
  /\ UNCHANGED <<rec, frozen, led>>

\* A body without its claim passes the same steps, but settles nothing.
LostBegins(r) ==
  /\ r \in lost /\ r.status = "claimed"
  /\ lost' = (lost \ {r}) \cup (IF Entered = "ended" THEN {} ELSE {[r EXCEPT !.status = Entered]})
  /\ UNCHANGED <<rows, rec, frozen, led, used>>

LostAdvances(r, due, committed) ==
  /\ r \in lost /\ r.status = "stepping"
  /\ rows' = Enqueued(due, r.cur, committed)
  /\ lost' = lost \ {r}
  /\ UNCHANGED <<rec, frozen, led, used>>
-----------------------------------------------------------------------------
Kept == [i \in DOMAIN rows |-> [rows[i] EXCEPT !.kept = TRUE]]

\* Mutant of ReadOrder: the dead rows are read first.
ReadOrderSwapped == <<{"dead"}, Active>>

\* What the pass's two reads look for: a dead row counts as present.
ReadOrder == <<Active, {"dead"}>>

\* run_once() of the leader: now and epoch are read, then active_chain_keys().
FirstRead ==
  /\ rec.at = "idle" /\ led
  /\ rec' = [at |-> "reading", seen |-> In(ReadOrder[1]) # {}, cur |-> TRUE, late |-> FALSE]
  /\ rows' = Kept
  /\ UNCHANGED <<lost, frozen, led, used>>

\* dead_chain_keys().
SecondRead ==
  /\ rec.at = "reading"
  /\ rec' = [rec EXCEPT !.at = "listing", !.seen = @ \/ In(ReadOrder[2]) # {}]
  /\ UNCHANGED <<rows, lost, frozen, led, used>>

Unkept(table) == [i \in DOMAIN table |-> [table[i] EXCEPT !.kept = FALSE]]

\* list_active(), compute() and enqueue(), at now plus a jitter within one
\* window, now being that of the pass's start.  A stop after the listing is as
\* good as one after the enqueue.
Seed(jitter, committed) ==
  /\ rec.at = "listing"
  /\ LET due == IF rec.late THEN jitter - 1 ELSE jitter
     IN rows' = Unkept(Enqueued(due, rec.cur, ~rec.seen /\ ~frozen /\ committed))
  /\ rec' = NoPass
  /\ UNCHANGED <<lost, frozen, led, used>>

\* A read of the pass fails, or its process dies.
PassEnds ==
  /\ rec.at # "idle"
  /\ rec' = NoPass /\ rows' = Unkept(rows)
  /\ UNCHANGED <<lost, frozen, led, used>>
-----------------------------------------------------------------------------
\* An administrator revives a dead row, under its old key, epoch and due.  A
\* window at its floor may be any, so the index cannot be asked about it.
Redrive(i) ==
  /\ rows[i].status = "dead" /\ (rows[i].win = -1 \/ KeyFree(rows[i].win))
  /\ Fault("redrive")
  /\ rows' = [rows EXCEPT ![i].status = "queued", ![i].kept = FALSE]
  /\ UNCHANGED <<lost, rec, frozen, led>>

\* prune() of a dead row.
Prune(i) ==
  /\ rows[i].status = "dead"
  /\ rows' = Without(i)
  /\ UNCHANGED <<lost, rec, frozen, led, used>>

\* The stop conditions come and go.
Freeze ==
  /\ frozen' = ~frozen
  /\ UNCHANGED <<rows, lost, rec, led, used>>

\* The coordinator lease runs out; the next holder's epoch leaves every earlier
\* one behind.
LeaseEnds ==
  /\ led /\ Fault("takeover")
  /\ led' = FALSE
  /\ UNCHANGED <<rows, lost, rec, frozen>>

Takeover ==
  /\ ~led /\ led' = TRUE
  /\ rows' = [i \in DOMAIN rows |-> [rows[i] EXCEPT !.cur = FALSE]]
  /\ lost' = {[r EXCEPT !.cur = FALSE] : r \in lost}
  /\ rec' = [rec EXCEPT !.cur = FALSE]
  /\ UNCHANGED <<frozen, used>>

Earlier(n, floor) == IF n > floor THEN n - 1 ELSE n

\* The clock enters the next window.  A body that has come to its end settles
\* within the window, or lapses: this bounds the rows.
WindowPasses ==
  /\ In({"ended"}) = {}
  /\ rows' = [i \in DOMAIN rows |->
                [rows[i] EXCEPT !.win = Earlier(@, -1), !.due = Earlier(@, -Multiplier)]]
  /\ lost' = {[r EXCEPT !.due = Earlier(@, -Multiplier)] : r \in lost}
  /\ rec' = [rec EXCEPT !.late = rec.at # "idle"]
  /\ UNCHANGED <<frozen, led, used>>

RowStep(i) ==
  \/ Claim(i) \/ Bury(i) \/ Begin(i) \/ Complete(i) \/ Redrive(i) \/ Prune(i)
  \/ FailDead(i) \/ \E delay \in 0..1 : Retry(i, delay)
  \/ \E due \in NextDues(rows[i].due), dormant, committed \in BOOLEAN : Advance(i, due, dormant, committed)
  \/ \E dies \in BOOLEAN : Lapse(i, dies)

LostStep(r) ==
  LostBegins(r) \/ \E due \in NextDues(r.due), committed \in BOOLEAN : LostAdvances(r, due, committed)

Reconcile ==
  \/ FirstRead \/ SecondRead \/ PassEnds
  \/ \E jitter \in 0..1, committed \in BOOLEAN : Seed(jitter, committed)

Next ==
  \/ \E i \in DOMAIN rows : RowStep(i)
  \/ \E r \in lost : LostStep(r)
  \/ Reconcile
  \/ Freeze \/ LeaseEnds \/ Takeover \/ WindowPasses

Spec == Init /\ [][Next]_vars

\* Workers claim what is due, bodies come to their end, the reconciler's passes
\* come round and get through from time to time, and a coordinator takes over.
Proceeds(i) ==
  Begin(i) \/ Complete(i) \/ \E due \in NextDues(rows[i].due) : Advance(i, due, FALSE, TRUE)

LiveSpec ==
  /\ Spec
  /\ SF_vars(WindowPasses) /\ WF_vars(Takeover)
  /\ WF_vars(\E i \in DOMAIN rows : Claim(i))
  /\ WF_vars(\E i \in DOMAIN rows : Proceeds(i))
  /\ WF_vars(FirstRead) /\ SF_vars(SecondRead)
  /\ SF_vars(\E jitter \in 0..1 : Seed(jitter, TRUE))
-----------------------------------------------------------------------------
\* The rows whose successor is still to be enqueued: the ends of the chain.
Heads == In(Active \ {"ended"})

\* A pass's two reads are no snapshot, but a row that was there through both is
\* never overlooked, whatever its status became in between: a chain that dies
\* meanwhile is not reseeded beside its dead letter.
NothingOverlooked ==
  rec.at = "listing" /\ ~rec.seen => \A i \in DOMAIN rows : ~rows[i].kept

\* Only a lost claim or an administrator's redrive makes two ends of one chain:
\* retries, takeovers, raising enqueues and the reconciler never fork it.
ForksExplained == Cardinality(Heads) <= 1 + Cardinality(used \cap {"lapse", "redrive"})

\* As long as the character is not stopped and a leader is there, the step runs
\* again and again, whatever broke the chain before; only a dead letter ends it.
ChainResumes ==
  <>[](~frozen /\ led) => []<>(In({"stepping"}) # {}) \/ <>[](In({"dead"}) # {})

\* A character that stays stopped has no job left in the end, though links and
\* seeds decided before the stop are still to come.
StoppedStops == <>[]frozen => <>[](In(Active) = {})

\* With the cadence on the key grid (Multiplier = 1), a chain that forked grows
\* together again while its jobs are claimed in their windows: both ends come
\* to the same key.
OnTime == \A i \in In(Active) : rows[i].due >= 0
ForksHeal == <>[]OnTime => <>[](Cardinality(Heads) <= 1)
=============================================================================
