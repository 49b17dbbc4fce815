------------------------------ MODULE TurnUndo ------------------------------
(***************************************************************************)
(* The undo of a chat turn against the background work of the turns: the  *)
(* tombstone and the questions a post-turn body asks it, the rows a body  *)
(* leaves, the dialogue checkpoint it folds old messages into, and the    *)
(* material digest it leaves for the next prompt.  Nothing locks: an undo *)
(* goes step by step beside bodies, new turns and other undos.            *)
(***************************************************************************)
EXTENDS Naturals, FiniteSets, FiniteSetsExt

CONSTANTS MaxTurns,   \* turns the player takes
          MaxPushes,  \* messages of the character's other conversations
          Tail,       \* PROMPT_RAW_TAIL_MESSAGES
          Undoers,    \* undo requests that may be in flight at once
          MaxFaults   \* failing steps, unanswered gates, dying processes

ASSUME UndoAssumption ==
  /\ MaxTurns \in Nat \ {0} /\ MaxPushes \in Nat
  /\ Tail \in Nat \ {0} /\ MaxFaults \in Nat

VARIABLES
  rows,        \* the messages of the character, over all its conversations
  sent,        \* how many were ever appended: the clock of their times
  index,       \* turn -> the length of the conversation it found
  taken,       \* the last turn taken
  open,        \* its journal is not persisted yet
  journals,    \* the turns that can be undone
  tombstones,  \* the turns that were reversed
  body,        \* turn -> its post-turn body
  memories,    \* the turns whose memories are stored
  written,     \* turn -> the last turn begun when its memories were written
  events,      \* the turns whose emotion events are stored
  checkpoint,  \* the pair's dialogue checkpoint
  digest,      \* the pair's material digest
  undo,        \* undoer -> what it is at
  faults,
  undone,      \* observer: turns that some undo took back to its last step
  excused      \* observer: what a property does not ask for, and why

threadVars == <<rows, sent, index, taken, open>>
traceVars == <<memories, written, events>>
vars == <<threadVars, journals, tombstones, body, traceVars, checkpoint,
          digest, undo, faults, undone, excused>>

Turns == 1..MaxTurns
LastRow == MaxTurns + MaxPushes
Elsewhere == 0
Rows == [at : 1..LastRow, turn : 0..MaxTurns]

\* upto is the time of the newest message absorbed, which is also its key.
Checkpoints == [upto : 0..LastRow, holds : SUBSET Rows, stale : BOOLEAN]
NoCheckpoint == [upto |-> 0, holds |-> {}, stale |-> FALSE]
Exists(c) == c.upto > 0
Covers(c, r) == r.at <= c.upto

Phases == {"none", "queued", "extracting", "cleared", "wrote",
           "merging", "checked", "distilled", "stored", "done"}
Written == {"wrote", "merging", "checked", "distilled", "stored"}
Bodies == [at : Phases, text : 0..MaxTurns, seen : Checkpoints,
           backlog : SUBSET Rows, stamp : Nat]
At(phase) ==
  [at |-> phase, text |-> 0, seen |-> NoCheckpoint, backlog |-> {}, stamp |-> 0]

\* asked: its author has asked for the tombstone after storing it.
NoDigest == [by |-> 0, stamp |-> 0, asked |-> FALSE]

UndoSteps == {"guard", "truncate", "traces", "digest"}
Undos == [at : UndoSteps \cup {"idle"}, turn : 0..MaxTurns,
          owed : SUBSET Rows]
Idle == [at |-> "idle", turn |-> 0, owed |-> {}]

\* Nothing is stored of a turn whose body has not come to its writes, and no
\* checkpoint covers a message that was never sent.
UndoTypeOK ==
  /\ rows \subseteq Rows /\ sent \in 0..LastRow
  /\ \A r \in rows : r.at <= sent
  /\ taken \in 0..MaxTurns /\ open \in BOOLEAN
  /\ index \in [Turns -> Nat] /\ \A k \in Turns : index[k] < k
  /\ journals \subseteq 1..taken /\ tombstones \subseteq 1..taken
  /\ body \in [Turns -> Bodies]
  /\ \A k \in Turns : body[k].at = "none" <=> k > taken
  /\ written \in [Turns -> 0..taken]
  /\ memories \cup events \subseteq {k \in Turns : written[k] # 0}
  /\ checkpoint \in Checkpoints /\ checkpoint.upto <= sent
  /\ digest \in [by : 0..taken, stamp : Nat, asked : BOOLEAN]
  /\ undo \in [Undoers -> Undos]
  /\ faults \in 0..MaxFaults
  /\ undone \subseteq 1..taken

Init ==
  /\ rows = {} /\ sent = 0 /\ taken = 0 /\ open = FALSE
  /\ index = [k \in Turns |-> 0]
  /\ journals = {} /\ tombstones = {}
  /\ body = [k \in Turns |-> At("none")]
  /\ memories = {} /\ written = [k \in Turns |-> 0] /\ events = {}
  /\ checkpoint = NoCheckpoint /\ digest = NoDigest
  /\ undo = [u \in Undoers |-> Idle]
  /\ faults = 0 /\ undone = {} /\ excused = {}
-----------------------------------------------------------------------------
(* Turns and other messages *)

Thread == {r \in rows : r.turn # Elsewhere}
Position(r) == Cardinality({q \in Thread : q.at < r.at})
Newest(R, n) == {r \in R : Cardinality({q \in R : q.at > r.at}) < n}

\* Mutant of Length: the messages of all conversations are counted.
LengthOfAll == Cardinality(rows)

\* turn_index: the messages of this conversation.
Length == Cardinality(Thread)

Append(turn) ==
  /\ rows' = rows \cup {[at |-> sent + 1, turn |-> turn]}
  /\ sent' = sent + 1

\* A turn up to the hand-over of its post-turn. Its messages are one row here.
\* The turns of a conversation exclude each other.
TakeTurn ==
  /\ taken < MaxTurns /\ ~open
  /\ taken' = taken + 1 /\ open' = TRUE
  /\ index' = [index EXCEPT ![taken'] = Length]
  /\ Append(taken')
  /\ body' = [body EXCEPT ![taken'] = At("queued")]
  /\ UNCHANGED <<journals, tombstones, traceVars, checkpoint, digest,
                 undo, faults, undone, excused>>

\* The journal of a turn comes after the hand-over.
PersistJournal ==
  /\ open
  /\ open' = FALSE
  /\ journals' = journals \cup {taken}
  /\ UNCHANGED <<rows, sent, index, taken, tombstones, body, traceVars,
                 checkpoint, digest, undo, faults, undone, excused>>

\* The character speaks in another of its conversations, here not before the
\* first turn.
Push ==
  /\ sent - taken < MaxPushes /\ taken > 0
  /\ Append(Elsewhere)
  /\ UNCHANGED <<index, taken, open, journals, tombstones, body, traceVars,
                 checkpoint, digest, undo, faults, undone, excused>>
-----------------------------------------------------------------------------
(* The post-turn body *)

Goes(k, b) == body' = [body EXCEPT ![k] = b]
Moves(k, phase) == Goes(k, [body[k] EXCEPT !.at = phase])

\* UndoneTurnGate.is_undone: a question that cannot be answered is a no.
Undone(k) == k \in tombstones

Asks(k, answer) ==
  \/ answer = Undone(k) /\ UNCHANGED <<faults, excused>>
  \/ /\ Undone(k) /\ ~answer /\ faults < MaxFaults
     /\ faults' = faults + 1
     /\ excused' = excused \cup {<<"unasked", k>>}

\* The worker rebuilds the turn from the position of its reply, where by now
\* another turn's may stand, and asks for the first time.
Enter(k) ==
  /\ body[k].at = "queued"
  /\ LET found == {r \in Thread : Position(r) = index[k]} IN
       IF found = {} THEN Goes(k, At("done")) /\ UNCHANGED <<faults, excused>>
       ELSE \E r \in found, answer \in BOOLEAN :
              /\ Asks(k, answer)
              /\ Goes(k, IF answer THEN At("done")
                         ELSE [At("extracting") EXCEPT !.text = r.turn])
  /\ UNCHANGED <<threadVars, journals, tombstones, traceVars, checkpoint,
                 digest, undo, undone>>

\* Mutant of Clear: the question on entry is the only one.
ClearUnasked(k) ==
  /\ body[k].at = "extracting"
  /\ Moves(k, "cleared")
  /\ UNCHANGED <<threadVars, journals, tombstones, traceVars, checkpoint,
                 digest, undo, faults, undone, excused>>

\* The question behind the extraction, which guards the writes. An extraction
\* that raises ends the body, which is not told apart from one that takes for
\* ever.
Clear(k) ==
  /\ body[k].at = "extracting"
  /\ \E answer \in BOOLEAN :
       /\ Asks(k, answer)
       /\ IF answer THEN Goes(k, At("done")) ELSE Moves(k, "cleared")
  /\ UNCHANGED <<threadVars, journals, tombstones, traceVars, checkpoint,
                 digest, undo, undone>>

Write(k) ==
  /\ body[k].at = "cleared"
  /\ Moves(k, "wrote")
  /\ memories' = memories \cup {k}
  /\ written' = [written EXCEPT ![k] = taken]
  /\ events' = events \cup {k}
  /\ UNCHANGED <<threadVars, journals, tombstones, checkpoint, digest,
                 undo, faults, undone, excused>>

\* The stamp of a digest, taken when its material is read, right behind the
\* merge: later than every stamp that is in use.
Now == 1 + Max({digest.stamp} \cup {body[k].stamp : k \in Turns})

Distilled == [At("distilled") EXCEPT !.stamp = Now]

\* split_window: what lies between the coverage and the raw tail.
Middle(c) ==
  LET uncovered == {r \in rows : ~Covers(c, r)}
  IN  uncovered \ Newest(uncovered, Tail)

\* The checkpoint and the window are read. Whether the backlog is worth a merge
\* is left open; a stale checkpoint is rebuilt from the whole window.
MergeReads(k) ==
  /\ body[k].at = "wrote"
  /\ LET c == checkpoint
         backlog == Middle(IF c.stale THEN NoCheckpoint ELSE c)
     IN  \/ /\ backlog # {}
            /\ Goes(k, [At("merging") EXCEPT !.seen = c, !.backlog = backlog])
         \/ Goes(k, Distilled)
  /\ UNCHANGED <<threadVars, journals, tombstones, traceVars, checkpoint,
                 digest, undo, faults, undone, excused>>

\* _backlog_still_exists: a message that is gone counts as deleted unless it is
\* older than all that are left.
Scrolled(r) == \A q \in rows : r.at < q.at
StillExists(backlog) ==
  /\ rows # {}
  /\ \A r \in backlog \ rows : Scrolled(r)

MergeChecks(k) ==
  /\ body[k].at = "merging"
  /\ IF StillExists(body[k].backlog)
     THEN /\ Moves(k, "checked")
          /\ LET missed == {r \in body[k].backlog \ rows : Scrolled(r)}
             IN  excused' = excused \cup {<<"gap", r.at>> : r \in missed}
     ELSE Goes(k, Distilled) /\ UNCHANGED excused
  /\ UNCHANGED <<threadVars, journals, tombstones, traceVars, checkpoint,
                 digest, undo, faults, undone>>

\* Mutant of Unmoved: the mark is not compared.
UnmovedKey(seen) == checkpoint.upto = seen.upto

\* save: an insert when no checkpoint was seen, else an update of the row that
\* still has the key and the mark that were read.
Unmoved(seen) ==
  /\ checkpoint.upto = seen.upto
  /\ checkpoint.stale = seen.stale

Merged(seen, backlog) ==
  [upto |-> Max({r.at : r \in backlog}), stale |-> FALSE,
   holds |-> backlog \cup (IF seen.stale THEN {} ELSE seen.holds)]

\* Messages deleted since an older merge counted them, which a save that ends
\* at the message that merge has read as the cursor lets in: the key and the
\* mark are again what it has seen.
Returns(k) ==
  {r \in Rows \ rows : \E j \in Turns :
     /\ ~body[j].seen.stale
     /\ body[j].seen.upto = Max({q.at : q \in body[k].backlog})
     /\ \/ body[j].at \in {"merging", "checked"} /\ r \in body[j].seen.holds
        \/ body[j].at = "checked" /\ r \in body[j].backlog}

MergeSaves(k) ==
  /\ body[k].at = "checked"
  /\ IF Unmoved(body[k].seen)
     THEN /\ checkpoint' = Merged(body[k].seen, body[k].backlog)
          /\ excused' = excused \cup {<<"gap", r.at>> : r \in Returns(k)}
     ELSE UNCHANGED <<checkpoint, excused>>
  /\ Goes(k, Distilled)
  /\ UNCHANGED <<threadVars, journals, tombstones, traceVars, digest,
                 undo, faults, undone>>

Withdrawn(stamp) == IF digest.stamp <= stamp THEN NoDigest ELSE digest

\* A digest lands unless a later read has; with nothing to say the body takes
\* back what is not newer than its read.
DigestSaves(k) ==
  /\ body[k].at = "distilled"
  /\ LET stamp == body[k].stamp IN
       \/ /\ digest.stamp <= stamp
          /\ digest' = [by |-> k, stamp |-> stamp, asked |-> FALSE]
          /\ Moves(k, "stored")
       \/ /\ digest.stamp > stamp
          /\ Goes(k, At("done")) /\ UNCHANGED digest
       \/ /\ digest' = Withdrawn(stamp)
          /\ Goes(k, At("done"))
  /\ UNCHANGED <<threadVars, journals, tombstones, traceVars, checkpoint,
                 undo, faults, undone, excused>>

\* _withdraw_if_undone: the third question, behind the write.
Validate(k) ==
  /\ body[k].at = "stored"
  /\ \E answer \in BOOLEAN :
       /\ Asks(k, answer)
       /\ digest' = IF answer THEN Withdrawn(body[k].stamp)
                    ELSE [digest EXCEPT !.asked = @ \/ digest.by = k]
  /\ Goes(k, At("done"))
  /\ UNCHANGED <<threadVars, journals, tombstones, traceVars, checkpoint,
                 undo, undone>>

\* The worker dies; the job is claimed again and runs from its start. A death
\* before the first write is not told apart from a job that waits.
BodyDies(k) ==
  /\ body[k].at \in Written /\ faults < MaxFaults
  /\ faults' = faults + 1
  /\ Goes(k, At("queued"))
  /\ UNCHANGED <<threadVars, journals, tombstones, traceVars, checkpoint,
                 digest, undo, undone, excused>>
-----------------------------------------------------------------------------
(* The undo *)

Proceeds(u, step) == undo' = [undo EXCEPT ![u].at = step]

\* get_latest orders the journals by turn_index, then by time.
Latest(k) ==
  /\ k \in journals
  /\ \A j \in journals : index[j] < index[k] \/ (index[j] = index[k] /\ j <= k)

\* The tombstone goes up before anything is deleted; to fail to raise it does
\* not stop the undo.
Begin(u) ==
  /\ undo[u].at = "idle"
  /\ \E k \in journals :
       /\ Latest(k)
       /\ undo' = [undo EXCEPT ![u] = [Idle EXCEPT !.at = "guard", !.turn = k]]
       /\ \/ /\ tombstones' = tombstones \cup {k}
             /\ excused' = excused \cup
                  {<<"slipped", j>> : j \in {i \in {k} : body[i].at = "cleared"}}
             /\ UNCHANGED faults
          \/ /\ faults < MaxFaults
             /\ faults' = faults + 1
             /\ excused' = excused \cup {<<"tombstone", k>>}
             /\ UNCHANGED tombstones
  /\ UNCHANGED <<threadVars, journals, body, traceVars, checkpoint, digest, undone>>

\* messages[turn_index:]
Reverted(k) == {r \in Thread : Position(r) >= index[k]}

\* A message is covered already, or lies behind the raw tail, where a merge in
\* flight may hold it.
Behind(r) == Covers(checkpoint, r) \/ r \notin Newest(rows, Tail)

InReach(k) == \E r \in Reverted(k) : Behind(r)

\* The guard and its mark_stale, which asks nothing of the row it marks.
Guard(u) ==
  /\ undo[u].at = "guard"
  /\ LET reverted == Reverted(undo[u].turn)
         latches == Exists(checkpoint) /\ InReach(undo[u].turn)
     IN  /\ checkpoint' = [checkpoint EXCEPT !.stale = @ \/ latches]
         /\ undo' = [undo EXCEPT ![u] = [@ EXCEPT !.at = "truncate",
                                         !.owed = IF latches THEN reverted ELSE {}]]
  /\ UNCHANGED <<threadVars, journals, tombstones, body, traceVars, digest,
                 faults, undone, excused>>

\* Messages dropped while a merge holds them that has counted them as present
\* or has landed since, where no latch is between: no checkpoint yet, a rebuild,
\* a latch a rebuild has cleared, a message of the raw tail or one that came
\* after the guard.
Latched(u, r) == r \in undo[u].owed /\ checkpoint.stale

Gaps(u, dropped) ==
  {r \in dropped :
     \/ r \in checkpoint.holds /\ ~Latched(u, r)
     \/ \E k \in Turns :
          /\ body[k].at = "checked" /\ r \in body[k].backlog
          /\ ~Latched(u, r) \/ body[k].seen.stale}

Truncate(u) ==
  /\ undo[u].at = "truncate"
  /\ undo' = [undo EXCEPT ![u] = [@ EXCEPT !.at = "traces", !.owed = {}]]
  /\ LET k == undo[u].turn
         dropped == Reverted(k)
     IN  /\ rows' = rows \ dropped
         /\ excused' = excused
              \cup {<<"gap", r.at>> : r \in Gaps(u, dropped)}
              \cup {<<"swept", r.turn>> : r \in {q \in dropped : q.turn # k}}
  /\ UNCHANGED <<sent, index, taken, open, journals, tombstones, body,
                 traceVars, checkpoint, digest, faults, undone>>

\* delete_created_since(turn_started_at)
Since(k) == {j \in memories : written[j] >= k}

\* The memories and, two steps later, the emotion events.
DeleteTraces(u) ==
  /\ undo[u].at = "traces"
  /\ Proceeds(u, "digest")
  /\ memories' = memories \ Since(undo[u].turn)
  /\ events' = events \ {undo[u].turn}
  /\ UNCHANGED <<threadVars, journals, tombstones, body, written, checkpoint,
                 digest, faults, undone, excused>>

\* The digest goes last, and then the journal.
Finish(u) ==
  /\ undo[u].at = "digest"
  /\ undo' = [undo EXCEPT ![u] = Idle]
  /\ digest' = NoDigest
  /\ journals' = journals \ {undo[u].turn}
  /\ undone' = undone \cup {undo[u].turn}
  /\ UNCHANGED <<threadVars, tombstones, body, traceVars, checkpoint,
                 faults, excused>>

\* A step that raises is logged and passed over, the last one too.
After(step) ==
  CASE step = "guard" -> "truncate"
    [] step = "truncate" -> "traces"
    [] step = "traces" -> "digest"

StepFails(u) ==
  /\ undo[u].at # "idle" /\ faults < MaxFaults
  /\ faults' = faults + 1
  /\ LET k == undo[u].turn IN
       \/ /\ undo[u].at # "digest"
          /\ undo' = [undo EXCEPT ![u].at = After(@)]
          /\ UNCHANGED <<journals, undone>>
       \/ /\ undo[u].at = "digest"
          /\ undo' = [undo EXCEPT ![u] = Idle]
          /\ journals' = journals \ {k}
          /\ undone' = undone \cup {k}
  /\ excused' = excused \cup
       {<<step, undo[u].turn>> : step \in {undo[u].at} \cap {"traces", "digest"}}
  /\ UNCHANGED <<threadVars, tombstones, body, traceVars, checkpoint, digest>>

\* The API process dies within an undo, or the journal cannot be deleted: the
\* turn can be undone again.
UndoDies(u) ==
  /\ undo[u].at # "idle" /\ faults < MaxFaults
  /\ faults' = faults + 1
  /\ undo' = [undo EXCEPT ![u] = Idle]
  /\ UNCHANGED <<threadVars, journals, tombstones, body, traceVars, checkpoint,
                 digest, undone, excused>>
-----------------------------------------------------------------------------
BodyStep(k) ==
  \/ Enter(k) \/ Clear(k) \/ Write(k)
  \/ MergeReads(k) \/ MergeChecks(k) \/ MergeSaves(k)
  \/ DigestSaves(k) \/ Validate(k) \/ BodyDies(k)

UndoStep(u) ==
  \/ Begin(u) \/ Guard(u) \/ Truncate(u)
  \/ DeleteTraces(u) \/ Finish(u)
  \/ StepFails(u) \/ UndoDies(u)

Next ==
  \/ TakeTurn \/ PersistJournal \/ Push
  \/ \E k \in Turns : BodyStep(k)
  \/ \E u \in Undoers : UndoStep(u)

Spec == Init /\ [][Next]_vars
-----------------------------------------------------------------------------
(***************************************************************************)
(* What a property does not ask for is named by its cause.  Of a turn:    *)
(*   slipped     its tombstone went up between the question that guards   *)
(*               the writes and the writes                                 *)
(*   unasked     the gate could not answer, which counts as a no          *)
(*   tombstone, traces, digest     that step of its undo failed           *)
(*   swept       its messages were dropped by the undo of another turn    *)
(* and of a message, gap: see Gaps, Returns and MergeChecks.               *)
(***************************************************************************)
Excuse(k, why) == \E w \in why : <<w, k>> \in excused
Targeted(k) == k \in tombstones \/ Excuse(k, {"tombstone"})

\* A turn that was undone leaves no memory, no emotion event and no digest, but
\* for a digest its body has not asked about since it was stored.
NothingLeft(k) ==
  /\ k \in events => Excuse(k, {"slipped", "tombstone", "unasked", "traces"})
  /\ k \in memories => Excuse(k, {"slipped", "tombstone", "unasked", "traces"})
  /\ digest.by = k =>
       ~digest.asked \/ Excuse(k, {"tombstone", "unasked", "digest"})

\* A turn nobody undid keeps its events, and its memories unless they are later
\* than the begin of a turn that was undone.
AllKept(k) ==
  written[k] # 0 =>
    /\ k \in events
    /\ k \in memories \/ \E j \in 1..written[k] : Targeted(j)

\* The body of a turn writes about its own messages, although the worker
\* rebuilds them from positions another turn may stand at by now.
OwnText(k) ==
  body[k].at \in {"extracting", "cleared", "wrote"} /\ body[k].text # k =>
    Excuse(k, {"tombstone", "unasked", "swept"})

\* Whatever the order in which bodies, new turns and undos interleave, an undo
\* takes back what its turn left behind, takes it back for good, and takes
\* nothing of another turn: the tombstone with its three questions against the
\* deletions, and a position in the journal against a thread that moves.
UndoIsExact ==
  \A k \in Turns :
    /\ k \in undone => NothingLeft(k)
    /\ ~Targeted(k) => AllKept(k)
    /\ OwnText(k)

\* A summary that the next prompt may read holds no message that was taken out
\* of the conversation: the guard latches the checkpoint before it truncates,
\* and a merge in flight is stopped by its re-read or by its compare-and-swap.
SummaryForgets ==
  ~checkpoint.stale =>
    \A r \in checkpoint.holds \ rows : <<"gap", r.at>> \in excused
=============================================================================
