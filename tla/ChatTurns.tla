------------------------------ MODULE ChatTurns ------------------------------
(***************************************************************************)
(* The turns of one web conversation, on several replicas of the API.  A   *)
(* turn is admitted and counted by its replica, loads the conversation,    *)
(* is charged, takes the conversation's lease under an owner of its own,   *)
(* saves the player's message, lets the model answer, saves the reply, and *)
(* gives back charge, lease and its place in the count.  A scene appends to *)
(* the conversation, the proactive dispatcher loads and saves it, and a     *)
(* deployment drains a replica and waits for its count.                     *)
(*                                                                         *)
(* `live' of the lease is lease_until > now.  A charge is an open           *)
(* reservation at the wallet; the wallet itself is external.               *)
(***************************************************************************)
EXTENDS Conversation, FiniteSets

CONSTANTS Turns,      \* requests for a turn
          Replicas,
          HomeOf,     \* the replica that serves a request
          Billed,     \* the requests whose tier is charged for a turn
          Others,     \* writers of one message each that are not turns
          NoOwner,
          MaxFaults   \* bound on the faults of a behaviour

ASSUME ChatAssumption ==
  /\ HomeOf \in [Turns -> Replicas] /\ NoOwner \notin Turns /\ Billed \subseteq Turns
  /\ MaxFaults \in Nat

VARIABLES turn,      \* where each turn is
          other,     \* where each other writer is
          lease,     \* the lease row of the conversation
          gauge,     \* active_turns of a replica
          draining,  \* the replicas that drain
          written,   \* the messages written so far
          torn,      \* a save did not find what its writer had read and saved
          lapsed,    \* the lease of a turn at work has run out
          faults

row == <<thread, version, written, torn>>
slots == <<gauge, draining>>
holds == <<lease, lapsed>>
vars == <<thread, version, turn, other, lease, gauge, draining, written, torn, lapsed, faults>>

Message == [by : Turns \cup Others, part : {"user", "reply", "note"}]

\* In flight, and holding the lease as far as the turn knows.
Admitted == {"entered", "loaded", "charged", "leased", "said", "answered", "landed", "ending"}
Working == {"leased", "said", "answered"}
Phases == Admitted \cup {"idle", "left", "dead"}

Snapshots == [seen : Seq(Message), version : Nat]
NoSnapshot == [seen |-> <<>>, version |-> 0]

\* served: the gateway has covered a call under the charge.
TurnType ==
  [at : Phases, held : BOOLEAN, snap : Snapshots, served : BOOLEAN,
   charge : {"none", "open", "retrying", "abandoned", "settled", "refunded"}]

\* A count is the number of turns in flight on its replica, and no snapshot is
\* newer than the row.
ChatTypeOK ==
  /\ thread \in Seq(Message) /\ version \in Nat
  /\ turn \in [Turns -> TurnType]
  /\ other \in [Others -> [at : {"idle", "loaded", "done"}, snap : Snapshots]]
  /\ lease \in [owner : Turns \cup {NoOwner}, live : BOOLEAN]
  /\ draining \subseteq Replicas
  /\ written \subseteq Message /\ torn \in BOOLEAN /\ lapsed \in BOOLEAN /\ faults \in 0..MaxFaults
  /\ \A r \in Replicas :
       gauge[r] = Cardinality({t \in Turns : HomeOf[t] = r /\ turn[t].at \in Admitted})
  /\ \A t \in Turns : turn[t].snap.version <= version

Init ==
  /\ thread = <<>> /\ version = 0 /\ written = {} /\ torn = FALSE
  /\ turn = [t \in Turns |-> [at |-> "idle", held |-> FALSE, snap |-> NoSnapshot,
                              served |-> FALSE, charge |-> "none"]]
  /\ other = [w \in Others |-> [at |-> "idle", snap |-> NoSnapshot]]
  /\ lease = [owner |-> NoOwner, live |-> FALSE] /\ lapsed = FALSE
  /\ gauge = [r \in Replicas |-> 0] /\ draining = {}
  /\ faults = 0
-----------------------------------------------------------------------------
At(t, phase) == turn[t].at = phase
Goes(t, phase) == turn' = [turn EXCEPT ![t].at = phase]
\* A turn whose saves are over, for good or ill, has no use for its snapshot.
Ends(t, phase, served) ==
  turn' = [turn EXCEPT ![t].at = phase, ![t].snap = NoSnapshot, ![t].served = served]
Fault == faults < MaxFaults /\ faults' = faults + 1

\* Mutant of Counted: the turn is counted with its lease, as it once was.
CountedLate(t, phase) == phase = "leased"

\* The step at which a turn is counted.
Counted(t, phase) == phase = "entered"

Counts(t, phase) ==
  gauge' = IF Counted(t, phase) THEN [gauge EXCEPT ![HomeOf[t]] = @ + 1] ELSE gauge

\* Mutant of Uncounts: a turn that failed is not taken out.
UncountsLanded(t) ==
  gauge' = IF At(t, "landed") THEN [gauge EXCEPT ![HomeOf[t]] = @ - 1] ELSE gauge

\* ActiveTurn.release(), of a handle that has not been released.
Uncounts(t) == gauge' = [gauge EXCEPT ![HomeOf[t]] = IF @ > 0 THEN @ - 1 ELSE 0]

\* _begin_turn(): try_enter_turn() refuses (503) or counts, in one step.
Enter(t) ==
  /\ At(t, "idle") /\ HomeOf[t] \notin draining
  /\ Goes(t, "entered") /\ Counts(t, "entered")
  /\ UNCHANGED <<row, other, holds, draining, faults>>

\* _resolve_turn_prelude() loads the conversation, which is not loaded again.
Load(t) ==
  /\ At(t, "entered")
  /\ turn' = [turn EXCEPT ![t].at = "loaded", ![t].snap = Snapshot]
  /\ UNCHANGED <<row, other, holds, slots, faults>>

\* begin(): a tier without charges and a wallet out of reach give none.
Charge(t, charge) ==
  /\ At(t, "loaded") /\ charge \in {"none", "open"} /\ (charge = "open" => t \in Billed)
  /\ turn' = [turn EXCEPT ![t].at = "charged", ![t].charge = charge]
  /\ UNCHANGED <<row, other, holds, slots, faults>>

\* Mutant of Free: a lease of the same replica is renewed.
FreeHere(t) ==
  ~lease.live \/ (lease.owner # NoOwner /\ HomeOf[lease.owner] = HomeOf[t])

\* No other turn's lease is live.
Free(t) == ~lease.live

\* ChatTurnLease.acquire() does not wait.
Acquire(t) ==
  /\ At(t, "charged")
  /\ IF Free(t)
     THEN /\ lease' = [owner |-> t, live |-> TRUE]
          /\ turn' = [turn EXCEPT ![t].at = "leased", ![t].held = TRUE]
          /\ Counts(t, "leased")
     ELSE Ends(t, "ending", FALSE) /\ UNCHANGED <<lease, gauge>>
  /\ UNCHANGED <<row, other, lapsed, draining, faults>>
-----------------------------------------------------------------------------
\* save() of a new message by a writer that has saved `before' already.
Saves(snap, before, new) ==
  LET known == snap.seen \o before
  IN /\ Save(snap, Append(known, new))
     /\ written' = written \cup {new}
     /\ torn' = (torn \/ ~Intact(known))

User(t) == [by |-> t, part |-> "user"]
Reply(t) == [by |-> t, part |-> "reply"]
Note(w) == [by |-> w, part |-> "note"]

Say(t) ==
  /\ At(t, "leased") /\ Goes(t, "said")
  /\ Saves(turn[t].snap, <<>>, User(t))
  /\ UNCHANGED <<other, holds, slots, faults>>

Answer(t, served) ==
  /\ At(t, "said") /\ (served => turn[t].charge = "open")
  /\ turn' = [turn EXCEPT ![t].at = "answered", ![t].served = served]
  /\ UNCHANGED <<row, other, holds, slots, faults>>

\* The second save has the snapshot of the first.
Land(t) ==
  /\ At(t, "answered") /\ Ends(t, "landed", turn[t].served)
  /\ Saves(turn[t].snap, <<User(t)>>, Reply(t))
  /\ UNCHANGED <<other, holds, slots, faults>>

\* Whatever raises in the prelude, and whatever raises or is cancelled at work,
\* perhaps after covered calls.
Fail(t, served) ==
  /\ turn[t].at \in {"entered", "loaded", "charged"} \cup Working
  /\ turn[t].served => served
  /\ served => turn[t].served \/ (At(t, "said") /\ turn[t].charge = "open")
  /\ Ends(t, "ending", served)
  /\ UNCHANGED <<row, other, holds, slots, faults>>
-----------------------------------------------------------------------------
\* settle() refunds what the gateway never covered, release() settles what it did.
Outcome(t) == IF turn[t].served THEN "settled" ELSE "refunded"

\* Mutant of Closable: only a turn that had worked closes its charge.
ClosableAfterWork(t) == At(t, "landed") \/ (At(t, "ending") /\ User(t) \in written)

\* Whether the reply has landed or the turn has failed: the finalizer closes the
\* charge ahead of the lease, the other paths behind it.
Closable(t) == At(t, "landed") \/ At(t, "ending")

\* A wallet out of reach is asked again later.
CloseCharge(t, reached) ==
  /\ turn[t].charge = "open" /\ Closable(t)
  /\ turn' = [turn EXCEPT ![t].charge = IF reached THEN Outcome(t) ELSE "retrying"]
  /\ IF reached THEN UNCHANGED faults ELSE Fault
  /\ UNCHANGED <<row, other, holds, slots>>

\* _retry_close(), which in the end leaves the reservation to the wallet's sweeper.
RetryClose(t, reached) ==
  /\ turn[t].charge = "retrying" /\ ~At(t, "dead")
  /\ turn' = [turn EXCEPT ![t].charge = IF reached THEN Outcome(t) ELSE "abandoned"]
  /\ UNCHANGED <<row, other, holds, slots, faults>>

\* release() deletes the lease of its owner; a call that fails is logged.
Released(t, reached) ==
  lease' = IF reached /\ lease.owner = t THEN [owner |-> NoOwner, live |-> FALSE] ELSE lease

ReleaseLease(t, reached) ==
  /\ turn[t].held
  /\ At(t, "ending") \/ At(t, "landed")
  /\ turn' = [turn EXCEPT ![t].held = FALSE]
  /\ Released(t, reached)
  /\ IF reached THEN UNCHANGED faults ELSE Fault
  /\ UNCHANGED <<row, other, lapsed, slots>>

\* The turn leaves the count, last of all.
Leave(t) ==
  /\ At(t, "ending") \/ At(t, "landed")
  /\ ~turn[t].held /\ turn[t].charge # "open"
  /\ Goes(t, "left") /\ Uncounts(t)
  /\ UNCHANGED <<row, other, holds, draining, faults>>

\* The watchdog of a detached stream cancels its clean-up: the count is given
\* back, the charge is not, and the lease perhaps.
CutShort(t, reached) ==
  /\ At(t, "ending") /\ turn[t].held
  /\ Fault
  /\ turn' = [turn EXCEPT ![t].at = "left", ![t].held = FALSE]
  /\ Released(t, reached) /\ Uncounts(t)
  /\ UNCHANGED <<row, other, lapsed, draining>>
-----------------------------------------------------------------------------
Done == [at |-> "done", snap |-> NoSnapshot]

\* A beat of a story scene is appended.
SceneAppends(w) ==
  /\ other[w].at = "idle" /\ other' = [other EXCEPT ![w] = Done]
  /\ AppendTail(Note(w)) /\ written' = written \cup {Note(w)}
  /\ UNCHANGED <<torn, turn, holds, slots, faults>>

\* The proactive dispatcher loads the conversation and saves it with a message,
\* under no lease.
PushLoad(w) ==
  /\ other[w].at = "idle"
  /\ other' = [other EXCEPT ![w] = [at |-> "loaded", snap |-> Snapshot]]
  /\ UNCHANGED <<row, turn, holds, slots, faults>>

PushSave(w) ==
  /\ other[w].at = "loaded" /\ other' = [other EXCEPT ![w] = Done]
  /\ Saves(other[w].snap, <<>>, Note(w))
  /\ UNCHANGED <<turn, holds, slots, faults>>

\* begin_drain(), which is never taken back.
BeginDrain(r) ==
  /\ r \notin draining /\ draining' = draining \cup {r}
  /\ UNCHANGED <<row, turn, other, holds, gauge, faults>>

\* The process dies with the turns on it; another takes its place.
Crash(r) ==
  /\ gauge[r] > 0
  /\ Fault
  /\ turn' = [t \in Turns |-> IF HomeOf[t] = r /\ turn[t].at \in Admitted
                              THEN [turn[t] EXCEPT !.at = "dead", !.held = FALSE, !.snap = NoSnapshot]
                              ELSE turn[t]]
  /\ gauge' = [gauge EXCEPT ![r] = 0] /\ draining' = draining \ {r}
  /\ UNCHANGED <<row, other, holds>>

\* The lease of a turn that no longer renews it runs out, ...
Expire ==
  /\ lease.live /\ ~turn[lease.owner].held
  /\ lease' = [lease EXCEPT !.live = FALSE]
  /\ UNCHANGED <<row, turn, other, lapsed, slots, faults>>

\* ... and one whose renewals fail or come late: nothing stops the turn.
Lapse ==
  /\ lease.live /\ turn[lease.owner].held /\ Fault
  /\ lease' = [lease EXCEPT !.live = FALSE] /\ lapsed' = TRUE
  /\ UNCHANGED <<row, turn, other, slots>>

Finish(t) ==
  \/ Load(t) \/ (\E charge \in {"none", "open"} : Charge(t, charge)) \/ Acquire(t)
  \/ Say(t) \/ (\E served \in BOOLEAN : Answer(t, served)) \/ Land(t)
  \/ CloseCharge(t, TRUE) \/ ReleaseLease(t, TRUE) \/ Leave(t)

TurnStep(t) ==
  \/ Enter(t) \/ Finish(t)
  \/ (\E reached \in BOOLEAN : RetryClose(t, reached) \/ CutShort(t, reached))
  \/ (\E served \in BOOLEAN : Fail(t, served))
  \/ CloseCharge(t, FALSE) \/ ReleaseLease(t, FALSE)

Next ==
  \/ \E t \in Turns : TurnStep(t)
  \/ \E w \in Others : SceneAppends(w) \/ PushLoad(w) \/ PushSave(w)
  \/ \E r \in Replicas : BeginDrain(r) \/ Crash(r)
  \/ Expire \/ Lapse

Spec == Init /\ [][Next]_vars

\* Turns go on, the model's calls have timeouts, and a lease nobody renews runs
\* out.
LiveSpec == Spec /\ (\A t \in Turns : WF_vars(Finish(t))) /\ WF_vars(Expire)
-----------------------------------------------------------------------------
\* At most one turn at a time works on the conversation, on whatever replica,
\* unless a lease ran out under a turn.
OneTurnAtATime ==
  ~lapsed => \A t, u \in Turns : turn[t].at \in Working /\ turn[u].at \in Working => t = u

\* When a draining replica counts no turn, the deployment stops it: no turn is
\* in flight then, admitted though it may be by a check before the drain.
DrainedIsIdle ==
  \A r \in draining :
    gauge[r] = 0 => \A t \in Turns : HomeOf[t] = r => turn[t].at \notin Admitted

\* Each message that was written stands in the thread, once, however appends and
\* saves of several writers fall between the load and the saves of a turn: it is
\* lost or doubled only after a save whose writer's own rows, or the rows it had
\* read, another save had moved or replaced.
Places(m) == {i \in DOMAIN thread : thread[i] = m}

NothingLost == ~torn => \A m \in written : Cardinality(Places(m)) = 1

\* A reservation does not stay open: without a fault each charge is closed, on
\* whatever path its turn ends, and kept exactly if the gateway covered a call.
ChargeCloses ==
  \A t \in Turns : turn[t].charge = "open" ~> turn[t].charge = Outcome(t) \/ faults > 0

\* A replica that drains is drained in the end.
DrainEnds == \A r \in Replicas : r \in draining ~> gauge[r] = 0
=============================================================================
