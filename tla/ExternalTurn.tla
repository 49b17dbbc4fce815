----------------------------- MODULE ExternalTurn -----------------------------
(***************************************************************************)
(* One turn of the external chat: a request of the channel, delivered      *)
(* again and again until it has a final answer.  A durable receipt carries *)
(* the turn through PROCESSING, GENERATED and COMMITTED to COMPLETED; every *)
(* change of it is fenced on the version and the lease of the delivery's    *)
(* claim.  The conversation is appended to at an expected position, under  *)
(* a key of the turn; others append to it as well.                         *)
(*                                                                         *)
(* Each run of the language model makes another text, named by its number; *)
(* 0 is no text.  `live' is lease_until >= the database's clock.  A        *)
(* delivery with another payload is refused by its hash and leaves no      *)
(* trace; one that finds the turn in progress (202) does not either.       *)
(***************************************************************************)
EXTENDS Integers, Sequences, FiniteSets

CONSTANTS Deliveries,  \* calls of execute() for the one request
          MaxFaults,   \* bound on the faults of a behaviour
          MaxOthers    \* bound on the messages of other writers

ASSUME ExternalAssumption == MaxFaults \in Nat /\ MaxOthers \in Nat

VARIABLES receipt,   \* the receipt row
          thread,    \* the conversation's messages
          calls,     \* where each delivery is
          answers,   \* the final answers given
          runs,      \* how often the language model has run
          abandoned, \* an attempt has failed although its text was checkpointed
          faults     \* how many faults have happened

vars == <<receipt, thread, calls, answers, runs, abandoned, faults>>

\* The answer that is no text.
Refused == -1

\* ExternalChatTurnState; "absent" is no row yet.
States == {"absent", "processing", "generated", "committed", "completed", "retryable", "terminal"}

\* Where a call of the full drive can stand before its commit.
Driving == {"claimed", "loaded", "recording", "persisted", "made", "checkpointed", "replied"}
Recovering == {"recover", "reloaded", "reappended"}
Phases == {"idle", "committed", "closing", "ousted", "failing", "answered"} \cup Driving \cup Recovering

\* pos is the position its next message is expected at; user says that the
\* claim's receipt named the user row.
CallType == [at : Phases, version : Nat, user : BOOLEAN, pos : Nat, text : Nat]
Idle == [at |-> "idle", version |-> 0, user |-> FALSE, pos |-> 0, text |-> 0]

ReceiptType ==
  [state : States, version : Nat, live : BOOLEAN, conversation : BOOLEAN, user : BOOLEAN,
   generated : Nat, response : Nat]

Message == [from : {"user", "reply", "other"}, text : Nat]

\* A response exists exactly in the states behind the commit, a call that has
\* not claimed holds no version newer than the row's, and a lease is live in
\* active states only.
ExternalTypeOK ==
  /\ receipt \in ReceiptType
  /\ thread \in Seq(Message)
  /\ calls \in [Deliveries -> CallType]
  /\ answers \subseteq {Refused} \cup 1..runs
  /\ runs \in Nat /\ abandoned \in BOOLEAN /\ faults \in 0..MaxFaults
  /\ receipt.response # 0 <=> receipt.state \in {"committed", "completed"}
  /\ \A d \in Deliveries : calls[d].version <= receipt.version
  /\ receipt.state \in {"absent", "retryable", "terminal"} => ~receipt.live

Init ==
  /\ receipt = [state |-> "absent", version |-> 0, live |-> FALSE, conversation |-> FALSE,
                user |-> FALSE, generated |-> 0, response |-> 0]
  /\ thread = <<>>
  /\ calls = [d \in Deliveries |-> Idle]
  /\ answers = {} /\ runs = 0 /\ abandoned = FALSE /\ faults = 0
-----------------------------------------------------------------------------
At(d, phase) == calls[d].at = phase
Goes(d, phase) == calls' = [calls EXCEPT ![d].at = phase]

\* A call that has no final answer is delivered again.
Ends(d) == calls' = [calls EXCEPT ![d] = Idle]

Fault == faults < MaxFaults /\ faults' = faults + 1

\* An answer, which the channel receives or not.
Answer(d, what, received) ==
  /\ answers' = answers \cup {what}
  /\ IF received THEN calls' = [calls EXCEPT ![d] = [Idle EXCEPT !.at = "answered"]] /\ UNCHANGED faults
     ELSE Ends(d) /\ Fault

\* Mutant of Takeable: an expired lease stays a reason to wait.
TakeableReleased == receipt.state \in {"absent", "committed", "retryable"}

\* _decide_existing(): the rows that change hands.  A committed row does so
\* whatever its lease.
Takeable ==
  \/ receipt.state \in {"absent", "committed", "retryable"}
  \/ receipt.state \in {"processing", "generated"} /\ ~receipt.live

\* execute(): what is left to do for whoever takes the row.
ClaimedAt ==
  CASE receipt.state = "committed" -> "closing"
    [] receipt.state = "generated" -> "recover"
    [] OTHER -> "claimed"

\* claim_or_get() of a new, an expired or a failed turn.
Claim(d) ==
  /\ At(d, "idle") /\ Takeable
  /\ receipt' = [receipt EXCEPT
       !.state = IF @ \in {"absent", "retryable"} THEN "processing" ELSE @,
       !.version = @ + 1, !.live = TRUE]
  /\ calls' = [calls EXCEPT ![d] =
       [at |-> ClaimedAt, version |-> receipt.version + 1, user |-> receipt.user, pos |-> 0,
        text |-> CASE receipt.state = "committed" -> receipt.response
                   [] receipt.state = "generated" -> receipt.generated
                   [] OTHER -> 0]]
  /\ UNCHANGED <<thread, answers, runs, abandoned, faults>>

\* claim_or_get() of a turn that is over: the stored answer.
Replay(d, received) ==
  /\ At(d, "idle")
  /\ \/ receipt.state = "completed" /\ Answer(d, receipt.response, received)
     \/ receipt.state = "terminal" /\ Answer(d, Refused, received)
  /\ UNCHANGED <<receipt, thread, runs, abandoned>>
-----------------------------------------------------------------------------
\* _fenced_update(): the owner's version, a live lease and an allowed state.
Fenced(d, from) ==
  receipt.version = calls[d].version /\ receipt.live /\ receipt.state \in from

\* A fenced update that answers, or commits and raises all the same.  A row it
\* does not match fails the attempt (TurnFencingStale).
Updates(d, from, changed, next, raises) ==
  /\ receipt' = IF Fenced(d, from) THEN changed ELSE receipt
  /\ Goes(d, IF Fenced(d, from) /\ ~raises THEN next ELSE "failing")
  /\ IF raises THEN Fault ELSE UNCHANGED faults

Rows(from) == {i \in DOMAIN thread : thread[i].from = from}

\* Mutant of Known: the key of an earlier append is not looked for.
KnownNever(from) == FALSE

\* append_messages(): a message under the same key is there already.
Known(from) == Rows(from) # {}

\* Mutant of Landed: a conflict is taken for an append.
LandedAnyway(from, pos) == TRUE

\* AppendResult.ok.
Landed(from, pos) == Known(from) \/ Len(thread) = pos

\* append_messages(): the tail must be where the writer expects it.
Appended(from, text, pos) ==
  IF ~Known(from) /\ Len(thread) = pos
  THEN Append(thread, [from |-> from, text |-> text]) ELSE thread

\* The position behind the message that is there, or now there.
Behind(from, pos) == IF Known(from) THEN CHOOSE i \in Rows(from) : TRUE ELSE pos + 1

\* The append of a message of the turn.
Appends(d, from, next, raises) ==
  /\ thread' = Appended(from, calls[d].text, calls[d].pos)
  /\ LET lands == Landed(from, calls[d].pos)
     IN calls' = [calls EXCEPT ![d].at = IF lands /\ ~raises THEN next ELSE "failing",
                               ![d].pos = IF lands THEN Behind(from, @) ELSE @]
  /\ IF raises THEN Fault ELSE UNCHANGED faults

\* _resolve_conversation(), which records the conversation unless an attempt
\* before has, and the turn's own load of it.
Load(d) ==
  /\ At(d, "claimed")
  /\ LET ok == receipt.conversation \/ Fenced(d, {"processing"})
     IN /\ receipt' = IF ok THEN [receipt EXCEPT !.conversation = TRUE] ELSE receipt
        /\ calls' = [calls EXCEPT ![d].at = IF ok THEN "loaded" ELSE "failing",
                                  ![d].pos = Len(thread)]
  /\ UNCHANGED <<thread, answers, runs, abandoned, faults>>

\* persist_user_turn() of an attempt whose receipt names the row: it takes the
\* last message loaded for it.
FindUser(d) ==
  /\ At(d, "loaded") /\ calls[d].user
  /\ Goes(d, "persisted")
  /\ UNCHANGED <<receipt, thread, answers, runs, abandoned, faults>>

AppendUser(d, raises) ==
  /\ At(d, "loaded") /\ ~calls[d].user
  /\ Appends(d, "user", "recording", raises)
  /\ UNCHANGED <<receipt, answers, runs, abandoned>>

RecordUser(d, raises) ==
  /\ At(d, "recording")
  /\ Updates(d, {"processing"}, [receipt EXCEPT !.user = TRUE], "persisted", raises)
  /\ UNCHANGED <<thread, answers, runs, abandoned>>

\* heartbeat(), then the language model (the reply, or the brief one of a busy
\* character), whose run is cut short when a heartbeat fails.
Generate(d) ==
  /\ At(d, "persisted")
  /\ IF Fenced(d, {"processing", "generated", "committed"})
     THEN /\ runs' = runs + 1
          /\ calls' = [calls EXCEPT ![d].at = "made", ![d].text = runs + 1]
     ELSE Goes(d, "failing") /\ UNCHANGED runs
  /\ UNCHANGED <<receipt, thread, answers, abandoned, faults>>

\* mark_generated().
Checkpoint(d, raises) ==
  /\ At(d, "made")
  /\ Updates(d, {"processing"},
             [receipt EXCEPT !.state = "generated", !.generated = calls[d].text],
             "checkpointed", raises)
  /\ UNCHANGED <<thread, answers, runs, abandoned>>

AppendReply(d, raises) ==
  /\ At(d, "checkpointed")
  /\ Appends(d, "reply", "replied", raises)
  /\ UNCHANGED <<receipt, answers, runs, abandoned>>

\* Mutant of Uncommitted: a commit may come after a commit.
UncommittedLate == {"processing", "generated", "committed", "completed"}

Uncommitted == {"processing", "generated"}

\* mark_committed(): the response is built from the text in hand.
Commit(d, raises) ==
  /\ At(d, "replied")
  /\ Updates(d, Uncommitted,
             [receipt EXCEPT !.state = "committed", !.response = calls[d].text],
             "committed", raises)
  /\ UNCHANGED <<thread, answers, runs, abandoned>>

\* _complete_from_committed() reads the receipt once more; 503 unless it is still
\* committed.
Reread(d) ==
  /\ At(d, "committed")
  /\ IF receipt.state = "committed"
     THEN calls' = [calls EXCEPT ![d].at = "closing", ![d].text = receipt.response]
     ELSE Ends(d)
  /\ UNCHANGED <<receipt, thread, answers, runs, abandoned, faults>>

\* mark_completed(), whose outcome nobody looks at, and the answer.
Close(d, received) ==
  /\ At(d, "closing")
  /\ receipt' = IF Fenced(d, {"committed"}) THEN [receipt EXCEPT !.state = "completed"] ELSE receipt
  /\ Answer(d, calls[d].text, received)
  /\ UNCHANGED <<thread, runs, abandoned>>
-----------------------------------------------------------------------------
\* _finalize_generated(): the conversation is loaded for its length.
Reload(d) ==
  /\ At(d, "recover")
  /\ calls' = [calls EXCEPT ![d].at = "reloaded", ![d].pos = Len(thread)]
  /\ UNCHANGED <<receipt, thread, answers, runs, abandoned, faults>>

\* Its append of the checkpointed text, under the driver's key.
Reappend(d) ==
  /\ At(d, "reloaded")
  /\ Appends(d, "reply", "reappended", FALSE)
  /\ UNCHANGED <<receipt, answers, runs, abandoned>>

Recommit(d) ==
  /\ At(d, "reappended")
  /\ Updates(d, Uncommitted,
             [receipt EXCEPT !.state = "committed", !.response = calls[d].text],
             "closing", FALSE)
  /\ UNCHANGED <<thread, answers, runs, abandoned>>
-----------------------------------------------------------------------------
\* A guard of the drive, or the model's size limit: mark_failed() for good.  A
\* call that was ousted meanwhile looks at the row again.
Refuse(d, received) ==
  /\ calls[d].at \in {"claimed", "loaded", "persisted"}
  /\ IF Fenced(d, Uncommitted)
     THEN /\ receipt' = [receipt EXCEPT !.state = "terminal", !.live = FALSE]
          /\ Answer(d, Refused, received)
     ELSE Goes(d, "ousted") /\ UNCHANGED <<receipt, answers, faults>>
  /\ UNCHANGED <<thread, runs, abandoned>>

\* _respond_from_current_state().
RespondOusted(d, received) ==
  /\ At(d, "ousted")
  /\ CASE receipt.state = "completed" -> Answer(d, receipt.response, received)
       [] receipt.state = "terminal" -> Answer(d, Refused, received)
       [] OTHER -> Ends(d) /\ UNCHANGED <<answers, faults>>
  /\ UNCHANGED <<receipt, thread, runs, abandoned>>

\* _fail_retryable(): a fenced mark_failed(), and a 503.
FailRetryable(d) ==
  /\ At(d, "failing")
  /\ IF Fenced(d, Uncommitted)
     THEN /\ receipt' = [receipt EXCEPT !.state = "retryable", !.live = FALSE]
          /\ abandoned' = (abandoned \/ receipt.state = "generated")
     ELSE UNCHANGED <<receipt, abandoned>>
  /\ Ends(d)
  /\ UNCHANGED <<thread, answers, runs, faults>>

\* A call of the drive raises without an effect; a recovery finds no character
\* to present.
Raise(d) ==
  /\ calls[d].at \in Driving \cup {"recover"}
  /\ Fault /\ Goes(d, "failing")
  /\ UNCHANGED <<receipt, thread, answers, runs, abandoned>>

\* The process dies, or an error comes out of the handler: nothing is marked.
Crash(d) ==
  /\ calls[d].at \notin {"idle", "answered"}
  /\ Fault /\ Ends(d)
  /\ UNCHANGED <<receipt, thread, answers, runs, abandoned>>

\* The lease of a claim whose owner is gone runs out ...
Expire ==
  /\ receipt.live
  /\ \A d \in Deliveries : calls[d].version # receipt.version
  /\ receipt' = [receipt EXCEPT !.live = FALSE]
  /\ UNCHANGED <<thread, calls, answers, runs, abandoned, faults>>

\* ... and so may one whose owner is slow: only a run of the model is renewed.
Lapse ==
  /\ receipt.live /\ Fault
  /\ receipt' = [receipt EXCEPT !.live = FALSE]
  /\ UNCHANGED <<thread, calls, answers, runs, abandoned>>

\* The recorder of proactive messages appends to the same conversation.
OtherAppends ==
  /\ Cardinality(Rows("other")) < MaxOthers
  /\ thread' = Append(thread, [from |-> "other", text |-> 0])
  /\ UNCHANGED <<receipt, calls, answers, runs, abandoned, faults>>

\* What a call does when no call of its own raises.
Proceed(d) ==
  \/ Claim(d) \/ Replay(d, TRUE)
  \/ Load(d) \/ FindUser(d) \/ AppendUser(d, FALSE) \/ RecordUser(d, FALSE) \/ Generate(d)
  \/ Checkpoint(d, FALSE) \/ AppendReply(d, FALSE) \/ Commit(d, FALSE) \/ Reread(d) \/ Close(d, TRUE)
  \/ Reload(d) \/ Reappend(d) \/ Recommit(d)
  \/ RespondOusted(d, TRUE) \/ FailRetryable(d)

Raised(d) ==
  \/ AppendUser(d, TRUE) \/ RecordUser(d, TRUE) \/ Checkpoint(d, TRUE) \/ AppendReply(d, TRUE)
  \/ Commit(d, TRUE) \/ Raise(d) \/ Crash(d)

Unheard(d) == Replay(d, FALSE) \/ Close(d, FALSE) \/ Refuse(d, FALSE) \/ RespondOusted(d, FALSE)

Next ==
  \/ \E d \in Deliveries : Proceed(d) \/ Refuse(d, TRUE) \/ Raised(d) \/ Unheard(d)
  \/ Expire \/ Lapse \/ OtherAppends

Spec == Init /\ [][Next]_vars

\* The channel delivers again until it has an answer, calls go on, and a lease
\* that nobody renews runs out.
LiveSpec ==
  /\ Spec
  /\ \A d \in Deliveries : WF_vars(Proceed(d))
  /\ WF_vars(Expire)
-----------------------------------------------------------------------------
\* The turn as the channel sees it: decided by the commit or a refusal.
Outcome ==
  CASE receipt.state = "terminal" -> Refused
    [] receipt.state \in {"committed", "completed"} -> receipt.response
    [] OTHER -> 0

Promise ==
  INSTANCE TurnOutcome
  WITH Outcomes <- (Nat \ {0}) \cup {Refused}, Open <- 0, outcome <- Outcome, told <- answers

\* However deliveries, takeovers, retries and lost answers interleave, the turn
\* is decided once and every final answer tells that decision.
OneOutcome == Promise!Spec

\* However often it is delivered, a request leaves at most one message of the
\* player and one reply in the conversation.
OneExchange == Cardinality(Rows("user")) <= 1 /\ Cardinality(Rows("reply")) <= 1

\* The reply the channel was given is the one in the conversation, and a
\* refused turn has none, unless an attempt failed behind its checkpoint.
ReplyStands ==
  /\ receipt.state \in {"committed", "completed"} =>
       \E i \in Rows("reply") : thread[i].text = receipt.response
  /\ receipt.state = "terminal" => Rows("reply") = {}

ReplyExplained == abandoned \/ ReplyStands

\* A delivery that is repeated until it is answered is answered.
Answered == \A d \in Deliveries : <>At(d, "answered")
=============================================================================
