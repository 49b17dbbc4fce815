------------------------------- MODULE PostTurn -------------------------------
(***************************************************************************)
(* The post-turn job of one chat turn.  The API process that served the    *)
(* turn tries to hand its post-processing to the queue and runs it itself  *)
(* when it believes that no worker will; the body's emotion, promise and   *)
(* schedule writes are not idempotent.  A call of the queue may raise      *)
(* before or after its commit; leadership may change between any two       *)
(* calls; workers take the row up as soon as it is there.                  *)
(*                                                                         *)
(* `now' is read once, at the head of the call, so a lease that was live   *)
(* at this instant stays so: `live' is lease_until >= now.                 *)
(***************************************************************************)
EXTENDS Integers

CONSTANTS MaxTries,     \* _ENQUEUE_MAX_ATTEMPTS
          MaxAttempts,  \* max_attempts of a row
          MaxEpoch      \* bound on the takeovers

ASSUME PostTurnAssumption ==
  /\ MaxTries \in Nat \ {0} /\ MaxAttempts \in Nat \ {0} /\ MaxEpoch \in Nat \ {0}

VARIABLES lease,   \* the coordinator row: [epoch, live]
          api,     \* the enqueuing call: where it is, its epoch, its failed tries
          rows,    \* rows[r]: the row the r-th try inserted
          bodies,  \* how often the body was begun, wherever it ran
          lapses   \* how many claims ran out

turnVars == <<lease, api, rows, bodies, lapses>>

Tries == 1..MaxTries
InHand == {"claimed", "running"}
ActiveRow == {"queued", "lapsed"} \cup InHand

\* The call ends in an outcome of the enqueuer, after MaxTries tries at most, and
\* no row is charged more attempts than its budget.
TurnTypeOK ==
  /\ lease \in [epoch : 0..MaxEpoch, live : BOOLEAN]
  /\ api \in [at : {"start", "trying", "unsure", "inserted", "already_active",
                    "no_leader", "ambiguous", "gone"},
              epoch : 0..MaxEpoch, tries : 0..MaxTries, ran : BOOLEAN]
  /\ rows \in [Tries -> [status : {"absent", "done", "dead"} \cup ActiveRow,
                         attempt : 0..MaxAttempts]]
  /\ bodies \in Nat /\ lapses \in Nat

TurnInit ==
  /\ lease \in {[epoch |-> 0, live |-> FALSE], [epoch |-> 1, live |-> FALSE],
                [epoch |-> 1, live |-> TRUE]}
  /\ api = [at |-> "start", epoch |-> 0, tries |-> 0, ran |-> FALSE]
  /\ rows = [r \in Tries |-> [status |-> "absent", attempt |-> 0]]
  /\ bodies = 0 /\ lapses = 0
-----------------------------------------------------------------------------
Outcome(at) == api' = [api EXCEPT !.at = at]

\* _live_epoch(): a read that fails counts as no leader.
ReadEpoch(answered) ==
  /\ api.at = "start"
  /\ IF answered /\ lease.live
     THEN api' = [api EXCEPT !.at = "trying", !.epoch = lease.epoch]
     ELSE Outcome("no_leader")
  /\ UNCHANGED <<lease, rows, bodies, lapses>>

KeyFree == \A r \in Tries : rows[r].status \notin ActiveRow
Admits == lease.live /\ lease.epoch = api.epoch /\ KeyFree
InsertTry == rows' = [rows EXCEPT ![api.tries + 1].status = "queued"]

\* enqueue() of the queue, answered: a row, or None.
TryAnswered ==
  /\ api.at = "trying"
  /\ IF Admits THEN InsertTry /\ Outcome("inserted") ELSE Outcome("unsure") /\ UNCHANGED rows
  /\ UNCHANGED <<lease, bodies, lapses>>

\* The same call raising: the row may be in the table or not.
TryRaises(committed) ==
  /\ api.at = "trying"
  /\ IF committed /\ Admits THEN InsertTry ELSE UNCHANGED rows
  /\ api' = [api EXCEPT !.tries = @ + 1,
                        !.at = IF api.tries + 1 = MaxTries THEN "ambiguous" ELSE @]
  /\ UNCHANGED <<lease, bodies, lapses>>

\* Mutant of ClassifyNone: None is taken for a collision whatever the lease says.
ClassifyAsActive(answered) ==
  /\ api.at = "unsure"
  /\ Outcome(IF answered THEN "already_active" ELSE "ambiguous")
  /\ UNCHANGED <<lease, rows, bodies, lapses>>

\* _classify_none(): the lease is read again, some time after the refusal.
ClassifyNone(answered) ==
  /\ api.at = "unsure"
  /\ Outcome(IF ~answered THEN "ambiguous"
             ELSE IF lease.live /\ lease.epoch = api.epoch THEN "already_active"
             ELSE "no_leader")
  /\ UNCHANGED <<lease, rows, bodies, lapses>>

\* Mutant of ShouldFallback: the former boolean, FALSE for all but an insert.
FallbackUnlessInserted == api.at \in {"already_active", "no_leader", "ambiguous"}

ShouldFallback == api.at = "no_leader"

RunInProcess ==
  /\ ShouldFallback /\ ~api.ran
  /\ api' = [api EXCEPT !.ran = TRUE]
  /\ bodies' = bodies + 1
  /\ UNCHANGED <<lease, rows, lapses>>

\* The API process dies with the call, or with the task it has not begun yet.
ApiDies ==
  /\ api.at \in {"start", "trying", "unsure"} \/ (ShouldFallback /\ ~api.ran)
  /\ Outcome("gone")
  /\ UNCHANGED <<lease, rows, bodies, lapses>>

Takeover ==
  /\ lease.epoch < MaxEpoch
  /\ lease' = [epoch |-> lease.epoch + 1, live |-> TRUE]
  /\ UNCHANGED <<api, rows, bodies, lapses>>
-----------------------------------------------------------------------------
TryBecomes(r, status) == rows' = [rows EXCEPT ![r].status = status]

\* Mutant of Claimable: a claim does not look at the lease of the row.
ClaimableAnyway(r) == rows[r].status \in ActiveRow

Claimable(r) == rows[r].status \in {"queued", "lapsed"}

\* Mutant of Exhausted: one more attempt than the row has.
ExhaustedLate(r) == rows[r].attempt > MaxAttempts

Exhausted(r) == rows[r].attempt >= MaxAttempts

\* claim(): another attempt, or the end of a row that has used up its own.
Claim(r) ==
  /\ Claimable(r)
  /\ rows' = [rows EXCEPT ![r] =
       IF Exhausted(r) THEN [@ EXCEPT !.status = "dead"]
       ELSE [status |-> "claimed", attempt |-> @.attempt + 1]]
  /\ UNCHANGED <<lease, api, bodies, lapses>>

\* The handler passes its checks and the body begins.
BodyBegins(r) ==
  /\ rows[r].status = "claimed"
  /\ TryBecomes(r, "running")
  /\ bodies' = bodies + 1
  /\ UNCHANGED <<lease, api, lapses>>

\* The body is over (it lets no error out), or the handler skips the turn of a
\* character or conversation that is gone: complete().
Completes(r) ==
  /\ rows[r].status \in InHand
  /\ TryBecomes(r, "done")
  /\ UNCHANGED <<lease, api, bodies, lapses>>

\* An error before the body: fail() with a retry.
Fails(r) ==
  /\ rows[r].status = "claimed"
  /\ TryBecomes(r, IF Exhausted(r) THEN "dead" ELSE "queued")
  /\ UNCHANGED <<lease, api, bodies, lapses>>

\* The claim runs out: its worker died, its heartbeats failed, its turn in the
\* batch came too late or its complete() did not get through.
Lapses(r) ==
  /\ rows[r].status \in InHand
  /\ TryBecomes(r, "lapsed")
  /\ lapses' = lapses + 1
  /\ UNCHANGED <<lease, api, bodies>>

ApiStep ==
  \/ \E answered \in BOOLEAN : ReadEpoch(answered) \/ ClassifyNone(answered)
  \/ TryAnswered \/ RunInProcess

RowStep(r) == Claim(r) \/ BodyBegins(r) \/ Completes(r)

TurnNext ==
  \/ ApiStep \/ (\E committed \in BOOLEAN : TryRaises(committed))
  \/ ApiDies \/ Takeover
  \/ \E r \in Tries : RowStep(r) \/ Fails(r) \/ Lapses(r)

TurnSpec == TurnInit /\ [][TurnNext]_turnVars

\* The call and the in-process task go on; workers keep claiming and running.
TurnLiveSpec ==
  /\ TurnSpec
  /\ WF_turnVars(ApiStep)
  /\ \A r \in Tries : WF_turnVars(RowStep(r))
-----------------------------------------------------------------------------
\* Work is not dropped silently: unless the API process dies or its outcome stays
\* ambiguous, the turn is run, or a worker settles its row.
NeverSilentlyDropped ==
  <>( \/ bodies > 0
      \/ api.at \in {"ambiguous", "gone"}
      \/ \E r \in Tries : rows[r].status \in {"done", "dead"} )

\* The API process runs a turn that has a row in the queue only when a call raised
\* and, besides, a new leader came: neither alone makes both sides run it.
FallbackExplained ==
  api.ran /\ (\E r \in Tries : rows[r].status # "absent")
    => api.tries > 0 /\ lease.epoch # api.epoch

\* As long as no call of the queue has raised, each further run of the body
\* follows a claim that ran out.
RerunsExplained == api.tries = 0 => bodies <= 1 + lapses
=============================================================================
