-------------------------- MODULE ExternalTurnProofs --------------------------
(***************************************************************************)
(* Proofs about the external chat turn, for any number of deliveries,      *)
(* faults and other messages: the types, and that the deliveries together  *)
(* decide the turn once, tell nothing but that decision, leave at most one *)
(* exchange in the conversation, and tell the reply that stands there.     *)
(***************************************************************************)
EXTENDS ExternalTurn, FiniteSetTheorems, TLAPS

Typed ==
  /\ receipt \in ReceiptType
  /\ thread \in Seq(Message)
  /\ calls \in [Deliveries -> CallType]
  /\ answers \subseteq {Refused} \cup 1..runs
  /\ runs \in Nat /\ abandoned \in BOOLEAN /\ faults \in 0..MaxFaults

Decided == {"committed", "completed"}

\* The row in itself: texts are those of runs, a text is checkpointed in
\* GENERATED, a response is there exactly from the commit on.
RowSound ==
  /\ receipt.generated <= runs /\ receipt.response <= runs
  /\ receipt.state = "generated" => receipt.generated # 0
  /\ receipt.response # 0 <=> receipt.state \in Decided
  /\ receipt.state \in {"absent", "retryable", "terminal"} => ~receipt.live

\* Phases in which a call has a text in hand.
Texted ==
  {"made", "checkpointed", "replied", "recover", "reloaded", "reappended", "closing"}

\* A call beside the row: one that is about to answer holds the response.
CallSound(d) ==
  /\ calls[d].version <= receipt.version /\ calls[d].text <= runs
  /\ calls[d].at \in Texted => calls[d].text # 0
  /\ calls[d].at = "closing" => receipt.state \in Decided /\ calls[d].text = receipt.response

\* What was answered is what was decided; before that nothing was.
Told == \A a \in answers : a = Outcome

TurnInv == Typed /\ RowSound /\ (\A d \in Deliveries : CallSound(d)) /\ Told
-----------------------------------------------------------------------------
\* What the calls rely on when another one, or the environment, takes a step.
RowKept ==
  /\ receipt.version <= receipt'.version /\ runs <= runs'
  /\ receipt.state \in Decided =>
       receipt'.state \in Decided /\ receipt'.response = receipt.response

\* A step of one call does not disturb what holds of the others.
LEMMA OthersSound ==
  ASSUME Typed, Typed', RowKept, NEW d \in Deliveries, CallSound(d), calls'[d] = calls[d]
  PROVE  CallSound(d)'
<1>1. /\ calls[d].version \in Nat /\ calls[d].text \in Nat /\ runs \in Nat /\ runs' \in Nat
      /\ receipt.version \in Nat /\ receipt'.version \in Nat
  BY DEF Typed, CallType, ReceiptType
<1> QED
  BY <1>1 DEF RowKept, CallSound

\* A call that goes on, fails or is over.
LEMMA CallGoes ==
  ASSUME Typed, NEW d \in Deliveries, NEW phase \in Phases, Goes(d, phase)
  PROVE  /\ calls' \in [Deliveries -> CallType]
         /\ calls'[d].at = phase /\ calls'[d].version = calls[d].version
         /\ calls'[d].text = calls[d].text
         /\ \A e \in Deliveries : e # d => calls'[e] = calls[e]
  BY DEF Typed, Goes, CallType

LEMMA CallEnds ==
  ASSUME Typed, NEW d \in Deliveries, Ends(d)
  PROVE  /\ calls' \in [Deliveries -> CallType] /\ calls'[d] = Idle
         /\ \A e \in Deliveries : e # d => calls'[e] = calls[e]
  BY DEF Typed, Ends, Idle, CallType, Phases

LEMMA FaultTyped ==
  ASSUME Typed, Fault \/ UNCHANGED faults
  PROVE  faults' \in 0..MaxFaults
  BY ExternalAssumption DEF Typed, Fault

\* An answer leaves the call idle or answered, without a text.
LEMMA CallAnswers ==
  ASSUME Typed, NEW d \in Deliveries, NEW what, NEW received \in BOOLEAN, Answer(d, what, received)
  PROVE  /\ calls' \in [Deliveries -> CallType]
         /\ calls'[d].at \in {"idle", "answered"} /\ calls'[d].version = 0 /\ calls'[d].text = 0
         /\ \A e \in Deliveries : e # d => calls'[e] = calls[e]
         /\ answers' = answers \cup {what} /\ faults' \in 0..MaxFaults
<1>1. CASE received
  <2>1. [Idle EXCEPT !.at = "answered"] \in CallType
    BY DEF Idle, CallType, Phases
  <2>2. calls' = [calls EXCEPT ![d] = [Idle EXCEPT !.at = "answered"]] /\ UNCHANGED faults
    BY <1>1 DEF Answer
  <2>3. calls'[d] = [Idle EXCEPT !.at = "answered"]
    BY <2>2 DEF Typed
  <2> QED
    BY <2>1, <2>2, <2>3, FaultTyped DEF Typed, Answer, Idle
<1>2. CASE ~received
  BY <1>2, CallEnds, FaultTyped DEF Answer, Idle
<1> QED
  BY <1>1, <1>2
-----------------------------------------------------------------------------
\* What each action of a call has to show: the row and the call are sound
\* again, and the other calls are where they were.
StepSound(d) ==
  /\ Typed' /\ RowSound' /\ RowKept /\ CallSound(d)'
  /\ \A e \in Deliveries : e # d => calls'[e] = calls[e]

\* What the channel sees of a step.
Seen == [Promise!Next]_<<Outcome, answers>>

\* The row does not change, and nothing is told.
LEMMA RowUntouched ==
  ASSUME TurnInv, receipt' = receipt, runs' = runs, answers' = answers
  PROVE  RowSound' /\ RowKept /\ Seen
<1>1. receipt.version \in Nat /\ runs \in Nat
  BY DEF TurnInv, Typed, ReceiptType
<1>2. Outcome' = Outcome
  BY DEF Outcome
<1> QED
  BY <1>1, <1>2 DEF TurnInv, RowSound, RowKept, Seen

\* A call that only moves, without gaining a text.
LEMMA MovesSound ==
  ASSUME TurnInv, NEW d \in Deliveries, NEW phase \in Phases, Goes(d, phase),
         phase \in Texted => calls[d].at \in Texted, phase # "closing",
         receipt' \in ReceiptType, thread' \in Seq(Message), RowKept, runs' = runs,
         answers' = answers, abandoned' \in BOOLEAN, faults' \in 0..MaxFaults
  PROVE  Typed' /\ CallSound(d)' /\ \A e \in Deliveries : e # d => calls'[e] = calls[e]
<1>1. /\ calls' \in [Deliveries -> CallType]
      /\ calls'[d].at = phase /\ calls'[d].version = calls[d].version
      /\ calls'[d].text = calls[d].text
      /\ \A e \in Deliveries : e # d => calls'[e] = calls[e]
  BY CallGoes DEF TurnInv
<1>2. Typed'
  BY <1>1 DEF TurnInv, Typed
<1>3. /\ calls[d].version \in Nat /\ receipt.version \in Nat /\ receipt'.version \in Nat
  BY DEF TurnInv, Typed, CallType, ReceiptType
<1>4. CallSound(d)'
  BY <1>1, <1>3 DEF TurnInv, CallSound, RowKept
<1> QED
  BY <1>1, <1>2, <1>4

\* A call that ends.
LEMMA EndsSound ==
  ASSUME TurnInv, NEW d \in Deliveries, Ends(d),
         receipt' \in ReceiptType, UNCHANGED thread, UNCHANGED runs,
         answers' = answers, abandoned' \in BOOLEAN, faults' \in 0..MaxFaults
  PROVE  Typed' /\ CallSound(d)' /\ \A e \in Deliveries : e # d => calls'[e] = calls[e]
<1>1. /\ calls' \in [Deliveries -> CallType] /\ calls'[d] = Idle
      /\ \A e \in Deliveries : e # d => calls'[e] = calls[e]
  BY CallEnds DEF TurnInv
<1>2. Typed'
  BY <1>1 DEF TurnInv, Typed
<1>3. runs \in Nat /\ receipt'.version \in Nat
  BY DEF TurnInv, Typed, ReceiptType
<1>4. CallSound(d)'
  BY <1>1, <1>3 DEF CallSound, Idle, Texted
<1> QED
  BY <1>1, <1>2, <1>4

\* A call that answers with what is decided.
LEMMA AnswersSound ==
  ASSUME TurnInv, NEW d \in Deliveries, NEW what, NEW received \in BOOLEAN,
         Answer(d, what, received), what \in {Refused} \cup 1..runs,
         receipt' \in ReceiptType, UNCHANGED <<thread, runs, abandoned>>
  PROVE  Typed' /\ CallSound(d)' /\ \A e \in Deliveries : e # d => calls'[e] = calls[e]
<1>1. /\ calls' \in [Deliveries -> CallType]
      /\ calls'[d].at \in {"idle", "answered"} /\ calls'[d].version = 0 /\ calls'[d].text = 0
      /\ \A e \in Deliveries : e # d => calls'[e] = calls[e]
      /\ answers' = answers \cup {what} /\ faults' \in 0..MaxFaults
  BY CallAnswers DEF TurnInv
<1>2. Typed'
  BY <1>1 DEF TurnInv, Typed
<1>3. runs \in Nat /\ receipt'.version \in Nat
  BY DEF TurnInv, Typed, ReceiptType
<1>4. CallSound(d)'
  BY <1>1, <1>3 DEF CallSound, Texted
<1> QED
  BY <1>1, <1>2, <1>4
-----------------------------------------------------------------------------
\* The fields of the row.
LEMMA RowFields ==
  ASSUME TurnInv
  PROVE  /\ receipt.state \in States /\ receipt.version \in Nat /\ receipt.live \in BOOLEAN
         /\ receipt.generated \in Nat /\ receipt.response \in Nat /\ runs \in Nat
  BY DEF TurnInv, Typed, ReceiptType

LEMMA CallFields ==
  ASSUME TurnInv, NEW d \in Deliveries
  PROVE  /\ calls[d].at \in Phases /\ calls[d].version \in Nat /\ calls[d].user \in BOOLEAN
         /\ calls[d].pos \in Nat /\ calls[d].text \in Nat /\ CallSound(d)
  BY DEF TurnInv, Typed, CallType

\* The outcome by the state of the row.
LEMMA OutcomeByState ==
  ASSUME TurnInv
  PROVE  /\ receipt.state = "terminal" => Outcome = Refused
         /\ receipt.state \in Decided =>
              Outcome = receipt.response /\ Outcome \in 1..runs
         /\ receipt.state \notin Decided \cup {"terminal"} => Outcome = 0 /\ answers = {}
<1>1. receipt.state \in Decided => receipt.response \in 1..runs
  BY RowFields DEF TurnInv, RowSound
<1>2. 0 \notin answers
  BY DEF TurnInv, Typed, Refused
<1> QED
  BY <1>1, <1>2 DEF Outcome, Decided, TurnInv, Told
-----------------------------------------------------------------------------
\* A new state of the row that decides nothing and undoes nothing.
LEMMA RowMoves ==
  ASSUME TurnInv, receipt' \in ReceiptType, runs' = runs, answers' = answers,
         receipt.state \notin Decided \/ receipt'.state = receipt.state,
         receipt.state = "terminal" <=> receipt'.state = "terminal",
         receipt'.state \in Decided => receipt.state \in Decided,
         receipt.version <= receipt'.version,
         receipt'.response = receipt.response, receipt'.generated <= runs,
         receipt'.state = "generated" => receipt'.generated # 0,
         receipt'.state \in {"absent", "retryable", "terminal"} => ~receipt'.live
  PROVE  RowSound' /\ RowKept /\ Seen
<1>1. Outcome' = Outcome
  BY DEF Outcome, Decided
<1>2. receipt'.response <= runs' /\ runs <= runs'
  BY RowFields DEF TurnInv, RowSound
<1>3. receipt'.response # 0 <=> receipt'.state \in Decided
  BY DEF TurnInv, RowSound
<1> QED
  BY <1>1, <1>2, <1>3 DEF RowSound, RowKept, Seen

LEMMA ClaimSound ==
  ASSUME TurnInv, NEW d \in Deliveries, Claim(d)
  PROVE  StepSound(d) /\ Seen
<1> DEFINE state == IF receipt.state \in {"absent", "retryable"} THEN "processing" ELSE receipt.state
<1> DEFINE text == CASE receipt.state = "committed" -> receipt.response
                     [] receipt.state = "generated" -> receipt.generated
                     [] OTHER -> 0
<1> DEFINE call == [at |-> ClaimedAt, version |-> receipt.version + 1, user |-> receipt.user,
                    pos |-> 0, text |-> text]
<1>1. /\ receipt' = [receipt EXCEPT !.state = state, !.version = @ + 1, !.live = TRUE]
      /\ calls' = [calls EXCEPT ![d] = call]
      /\ UNCHANGED <<thread, answers, runs, abandoned, faults>>
  BY DEF Claim
<1>2. state \in States /\ receipt.user \in BOOLEAN
  BY DEF TurnInv, Typed, ReceiptType, States
<1>3. /\ receipt' \in ReceiptType /\ receipt'.state = state /\ receipt'.live
      /\ receipt'.version = receipt.version + 1
      /\ receipt'.response = receipt.response /\ receipt'.generated = receipt.generated
  <2> HIDE DEF state
  <2>1. receipt \in ReceiptType /\ receipt.version + 1 \in Nat
    BY RowFields DEF TurnInv, Typed
  <2> QED
    BY <1>1, <1>2, <2>1 DEF ReceiptType
<1>4. RowSound' /\ RowKept /\ Seen
  <2>1. receipt.version <= receipt'.version
    BY <1>3, RowFields
  <2>2. receipt'.generated <= runs /\ (receipt.state = "generated" => receipt.generated # 0)
    BY <1>3 DEF TurnInv, RowSound
  <2>3. receipt.state \in {"absent", "committed", "retryable", "processing", "generated"}
    BY DEF Claim, Takeable
  <2>4. /\ receipt.state \notin Decided \/ state = receipt.state
        /\ receipt.state # "terminal" /\ state # "terminal"
        /\ state \in Decided => receipt.state \in Decided
        /\ state = "generated" => receipt.state = "generated"
        /\ state \notin {"absent", "retryable", "terminal"}
    BY <2>3 DEF Decided
  <2> HIDE DEF state
  <2> QED
    BY <1>1, <1>3, <2>1, <2>2, <2>4, RowMoves
<1>5. ClaimedAt \in Phases /\ text \in Nat /\ text <= runs
  BY RowFields DEF ClaimedAt, Phases, Driving, Recovering, TurnInv, RowSound
<1>6. call \in CallType
  BY <1>2, <1>5, RowFields DEF CallType
<1>7. calls' \in [Deliveries -> CallType] /\ calls'[d] = call
  BY <1>1, <1>6 DEF TurnInv, Typed
<1>8. Typed'
  BY <1>1, <1>3, <1>7 DEF TurnInv, Typed
<1>9. ClaimedAt \in Texted => text # 0
  BY DEF ClaimedAt, Texted, TurnInv, RowSound, Decided
<1>10. ClaimedAt = "closing" => receipt'.state \in Decided /\ text = receipt'.response
  BY <1>3 DEF ClaimedAt, Decided
<1> HIDE DEF text, state
<1>11. CallSound(d)'
  BY <1>1, <1>3, <1>5, <1>7, <1>9, <1>10, RowFields DEF CallSound
<1>12. \A e \in Deliveries : e # d => calls'[e] = calls[e]
  BY <1>1 DEF TurnInv, Typed
<1> QED
  BY <1>4, <1>8, <1>11, <1>12 DEF StepSound

LEMMA LoadSound ==
  ASSUME TurnInv, NEW d \in Deliveries, Load(d)
  PROVE  StepSound(d) /\ Seen
<1> DEFINE ok == receipt.conversation \/ Fenced(d, {"processing"})
<1> DEFINE phase == IF ok THEN "loaded" ELSE "failing"
<1>1. /\ receipt' = IF ok THEN [receipt EXCEPT !.conversation = TRUE] ELSE receipt
      /\ calls' = [calls EXCEPT ![d].at = phase, ![d].pos = Len(thread)]
      /\ UNCHANGED <<thread, answers, runs, abandoned, faults>>
  BY DEF Load
<1>2. /\ receipt' \in ReceiptType /\ receipt'.state = receipt.state
      /\ receipt'.live = receipt.live /\ receipt'.version = receipt.version
      /\ receipt'.response = receipt.response /\ receipt'.generated = receipt.generated
  BY <1>1 DEF TurnInv, Typed, ReceiptType
<1>3. RowSound' /\ RowKept /\ Seen
  <2>1. receipt.version <= receipt'.version
    BY <1>2, RowFields
  <2> QED
    BY <1>1, <1>2, <2>1, RowMoves DEF TurnInv, RowSound
<1>4. phase \in Phases \ Texted
  BY DEF Phases, Driving, Texted
<1>5. Len(thread) \in Nat
  BY DEF TurnInv, Typed
<1> HIDE DEF phase
<1>6. /\ calls' \in [Deliveries -> CallType] /\ calls'[d].at = phase
      /\ calls'[d].version = calls[d].version /\ calls'[d].text = calls[d].text
      /\ \A e \in Deliveries : e # d => calls'[e] = calls[e]
  BY <1>1, <1>4, <1>5 DEF TurnInv, Typed, CallType
<1>7. Typed'
  BY <1>1, <1>2, <1>6 DEF TurnInv, Typed
<1>8. CallSound(d)'
  BY <1>1, <1>2, <1>4, <1>6, CallFields DEF CallSound, Texted
<1> QED
  BY <1>3, <1>6, <1>7, <1>8 DEF StepSound
-----------------------------------------------------------------------------
\* The commit decides: the row was open, and its response is the call's text.
LEMMA CommitDecides ==
  ASSUME TurnInv, NEW d \in Deliveries, calls[d].at \in Texted, receipt.state \in Uncommitted,
         receipt' = [receipt EXCEPT !.state = "committed", !.response = calls[d].text],
         runs' = runs, answers' = answers
  PROVE  /\ receipt' \in ReceiptType /\ RowSound' /\ RowKept /\ Seen
         /\ receipt'.state = "committed" /\ receipt'.response = calls[d].text
<1>1. calls[d].text \in Nat /\ calls[d].text <= runs /\ calls[d].text # 0
  BY CallFields DEF CallSound
<1>2. /\ receipt' \in ReceiptType /\ receipt'.state = "committed"
      /\ receipt'.response = calls[d].text /\ receipt'.version = receipt.version
      /\ receipt'.generated = receipt.generated
  <2>1. receipt \in ReceiptType
    BY DEF TurnInv, Typed
  <2> QED
    BY <1>1, <2>1 DEF ReceiptType, States
<1>3. RowSound'
  BY <1>1, <1>2 DEF RowSound, TurnInv, Decided
<1>4. RowKept
  BY <1>2, RowFields DEF RowKept, Uncommitted, Decided
<1>5. Outcome = 0 /\ answers = {}
  BY OutcomeByState DEF Uncommitted, Decided
<1>6. Outcome' = calls[d].text
  BY <1>2 DEF Outcome
<1>7. Seen
  BY <1>1, <1>5, <1>6 DEF Seen, Promise!Next, Promise!Decide
<1> QED
  BY <1>2, <1>3, <1>4, <1>7

\* A fenced update moves its call on, or makes it fail.
LEMMA UpdateGoes ==
  ASSUME TurnInv, NEW d \in Deliveries, NEW from, NEW changed, NEW next, NEW raises \in BOOLEAN,
         Updates(d, from, changed, next, raises)
  PROVE  /\ (Fenced(d, from) /\ receipt' = changed /\ receipt.state \in from)
            \/ (~Fenced(d, from) /\ receipt' = receipt)
         /\ Goes(d, "failing") \/ (Fenced(d, from) /\ Goes(d, next))
         /\ faults' \in 0..MaxFaults
<1>1. faults' \in 0..MaxFaults
  BY FaultTyped DEF Updates, TurnInv
<1> QED
  BY <1>1 DEF Updates, Fenced

LEMMA RecordUserSound ==
  ASSUME TurnInv, NEW d \in Deliveries, NEW raises \in BOOLEAN, RecordUser(d, raises)
  PROVE  StepSound(d) /\ Seen
<1> DEFINE changed == [receipt EXCEPT !.user = TRUE]
<1>1. /\ Updates(d, {"processing"}, changed, "persisted", raises)
      /\ UNCHANGED <<thread, answers, runs, abandoned>>
  BY DEF RecordUser
<1>2. receipt' \in {changed, receipt} /\ faults' \in 0..MaxFaults
      /\ \E phase \in {"failing", "persisted"} : Goes(d, phase)
  BY <1>1, UpdateGoes
<1>3. /\ receipt' \in ReceiptType /\ receipt'.state = receipt.state
      /\ receipt'.live = receipt.live /\ receipt'.version = receipt.version
      /\ receipt'.response = receipt.response /\ receipt'.generated = receipt.generated
  BY <1>2 DEF TurnInv, Typed, ReceiptType
<1>4. RowSound' /\ RowKept /\ Seen
  <2>1. receipt.version <= receipt'.version
    BY <1>3, RowFields
  <2> QED
    BY <1>1, <1>3, <2>1, RowMoves DEF TurnInv, RowSound
<1>5. PICK phase \in {"failing", "persisted"} : Goes(d, phase)
  BY <1>2
<1>6. phase \in Phases /\ phase \notin Texted /\ phase # "closing"
  BY DEF Phases, Driving, Texted
<1>7. thread' \in Seq(Message) /\ abandoned' \in BOOLEAN
  BY <1>1 DEF TurnInv, Typed
<1> HIDE DEF changed
<1> QED
  BY <1>1, <1>2, <1>3, <1>4, <1>5, <1>6, <1>7, MovesSound DEF StepSound

LEMMA CheckpointSound ==
  ASSUME TurnInv, NEW d \in Deliveries, NEW raises \in BOOLEAN, Checkpoint(d, raises)
  PROVE  StepSound(d) /\ Seen
<1> DEFINE changed == [receipt EXCEPT !.state = "generated", !.generated = calls[d].text]
<1>1. /\ Updates(d, {"processing"}, changed, "checkpointed", raises)
      /\ calls[d].at = "made" /\ UNCHANGED <<thread, answers, runs, abandoned>>
  BY DEF Checkpoint, At
<1>2. calls[d].text \in Nat /\ calls[d].text <= runs /\ calls[d].text # 0
  BY <1>1, CallFields DEF CallSound, Texted
<1>3. (receipt' = changed /\ receipt.state = "processing") \/ receipt' = receipt
  BY <1>1, UpdateGoes
<1>4. faults' \in 0..MaxFaults /\ \E phase \in {"failing", "checkpointed"} : Goes(d, phase)
  BY <1>1, UpdateGoes
<1>7. RowSound' /\ RowKept /\ Seen
  <2>1. CASE receipt' = changed /\ receipt.state = "processing"
    <3>1. /\ receipt' \in ReceiptType /\ receipt'.state = "generated"
          /\ receipt'.version = receipt.version
          /\ receipt'.response = receipt.response /\ receipt'.generated = calls[d].text
      <4>1. receipt \in ReceiptType
        BY DEF TurnInv, Typed
      <4> QED
        BY <1>2, <2>1, <4>1 DEF ReceiptType, States
    <3>2. receipt.version <= receipt'.version
      BY <3>1, RowFields
    <3>3. receipt.state = "processing"
      BY <2>1
    <3> HIDE DEF changed
    <3> QED
      BY <1>1, <1>2, <3>1, <3>2, <3>3, RowMoves DEF Decided
  <2>2. CASE receipt' = receipt
    BY <1>1, <2>2, RowUntouched DEF TurnInv, Typed
  <2> QED
    BY <1>3, <2>1, <2>2
<1>8. receipt' \in ReceiptType
  <2>1. receipt \in ReceiptType
    BY DEF TurnInv, Typed
  <2> QED
    BY <1>2, <1>3, <2>1 DEF ReceiptType, States
<1>9. PICK phase \in {"failing", "checkpointed"} : Goes(d, phase)
  BY <1>4
<1>10. phase \in Phases /\ phase # "closing" /\ calls[d].at \in Texted
  BY <1>1 DEF Phases, Driving, Texted
<1>11. thread' \in Seq(Message) /\ abandoned' \in BOOLEAN
  BY <1>1 DEF TurnInv, Typed
<1> HIDE DEF changed
<1> QED
  BY <1>1, <1>4, <1>7, <1>8, <1>9, <1>10, <1>11, MovesSound DEF StepSound

LEMMA CommitSound ==
  ASSUME TurnInv, NEW d \in Deliveries, NEW raises \in BOOLEAN, Commit(d, raises)
  PROVE  StepSound(d) /\ Seen
<1> DEFINE changed == [receipt EXCEPT !.state = "committed", !.response = calls[d].text]
<1>1. /\ Updates(d, Uncommitted, changed, "committed", raises)
      /\ calls[d].at = "replied" /\ UNCHANGED <<thread, answers, runs, abandoned>>
  BY DEF Commit, At
<1>2. (receipt' = changed /\ receipt.state \in Uncommitted) \/ receipt' = receipt
  BY <1>1, UpdateGoes
<1>3. faults' \in 0..MaxFaults /\ \E phase \in {"failing", "committed"} : Goes(d, phase)
  BY <1>1, UpdateGoes
<1>4. receipt' \in ReceiptType /\ RowSound' /\ RowKept /\ Seen
  <2>1. CASE receipt' = changed /\ receipt.state \in Uncommitted
    BY <1>1, <2>1, CommitDecides DEF Texted
  <2>2. CASE receipt' = receipt
    BY <1>1, <2>2, RowUntouched DEF TurnInv, Typed
  <2> QED
    BY <1>2, <2>1, <2>2
<1>5. PICK phase \in {"failing", "committed"} : Goes(d, phase)
  BY <1>3
<1>6. phase \in Phases /\ phase # "closing" /\ phase \notin Texted
  BY DEF Phases, Texted
<1>7. thread' \in Seq(Message) /\ abandoned' \in BOOLEAN
  BY <1>1 DEF TurnInv, Typed
<1> HIDE DEF changed
<1> QED
  BY <1>1, <1>3, <1>4, <1>5, <1>6, <1>7, MovesSound DEF StepSound

LEMMA RecommitSound ==
  ASSUME TurnInv, NEW d \in Deliveries, Recommit(d)
  PROVE  StepSound(d) /\ Seen
<1> DEFINE changed == [receipt EXCEPT !.state = "committed", !.response = calls[d].text]
<1>1. /\ Updates(d, Uncommitted, changed, "closing", FALSE)
      /\ calls[d].at = "reappended" /\ UNCHANGED <<thread, answers, runs, abandoned>>
  BY DEF Recommit, At
<1>2. thread' \in Seq(Message) /\ abandoned' \in BOOLEAN /\ faults' \in 0..MaxFaults
  BY <1>1, UpdateGoes DEF TurnInv, Typed
<1>3. CASE Fenced(d, Uncommitted)
  <2>1. receipt' = changed /\ receipt.state \in Uncommitted /\ Goes(d, "closing")
    BY <1>1, <1>3 DEF Updates, Fenced
  <2>2. /\ receipt' \in ReceiptType /\ RowSound' /\ RowKept /\ Seen
        /\ receipt'.state = "committed" /\ receipt'.response = calls[d].text
    BY <1>1, <2>1, CommitDecides DEF Texted
  <2>3. /\ calls' \in [Deliveries -> CallType]
        /\ calls'[d].at = "closing" /\ calls'[d].version = calls[d].version
        /\ calls'[d].text = calls[d].text
        /\ \A e \in Deliveries : e # d => calls'[e] = calls[e]
    BY <2>1, CallGoes DEF Phases, TurnInv
  <2>4. Typed'
    BY <1>1, <1>2, <2>2, <2>3 DEF TurnInv, Typed
  <2>5. calls[d].text # 0 /\ calls[d].text <= runs /\ calls[d].version <= receipt.version
    BY <1>1, CallFields DEF CallSound, Texted
  <2>6. receipt.version <= receipt'.version
    BY <2>2 DEF RowKept
  <2>7. calls'[d].version <= receipt'.version
    BY <2>2, <2>3, <2>5, <2>6, CallFields, RowFields DEF ReceiptType
  <2>8. CallSound(d)'
    BY <1>1, <2>2, <2>3, <2>5, <2>7 DEF CallSound, Decided
  <2> QED
    BY <2>2, <2>3, <2>4, <2>8 DEF StepSound
<1>4. CASE ~Fenced(d, Uncommitted)
  <2>1. receipt' = receipt /\ Goes(d, "failing")
    BY <1>1, <1>4 DEF Updates
  <2>2. receipt' \in ReceiptType /\ RowSound' /\ RowKept /\ Seen
    BY <1>1, <2>1, RowUntouched DEF TurnInv, Typed
  <2>3. "failing" \in Phases /\ "failing" \notin Texted
    BY DEF Phases, Texted
  <2> QED
    BY <1>1, <1>2, <2>1, <2>2, <2>3, MovesSound DEF StepSound
<1> QED
  BY <1>3, <1>4
-----------------------------------------------------------------------------
\* An append leaves a typed thread and position.
LEMMA AppendTyped ==
  ASSUME TurnInv, NEW from \in {"user", "reply"}, NEW text \in Nat, NEW pos \in Nat
  PROVE  Appended(from, text, pos) \in Seq(Message) /\ Behind(from, pos) \in Nat
<1>1. [from |-> from, text |-> text] \in Message /\ thread \in Seq(Message)
  BY DEF Message, TurnInv, Typed
<1>2. Appended(from, text, pos) \in Seq(Message)
  BY <1>1 DEF Appended
<1>3. Rows(from) \subseteq Nat
  BY <1>1 DEF Rows
<1>4. Rows(from) # {} => (CHOOSE i \in Rows(from) : TRUE) \in Rows(from)
  OBVIOUS
<1>5. Behind(from, pos) \in Nat
  BY <1>3, <1>4 DEF Behind, Known
<1> QED
  BY <1>2, <1>5

LEMMA AppendsSound ==
  ASSUME TurnInv, NEW d \in Deliveries, NEW from \in {"user", "reply"}, NEW raises \in BOOLEAN,
         NEW next \in Phases, Appends(d, from, next, raises),
         next # "closing", next \in Texted => calls[d].at \in Texted,
         UNCHANGED <<receipt, answers, runs, abandoned>>
  PROVE  StepSound(d) /\ Seen
<1> DEFINE lands == Landed(from, calls[d].pos)
           phase == IF lands /\ ~raises THEN next ELSE "failing"
           pos == IF lands THEN Behind(from, calls[d].pos) ELSE calls[d].pos
<1>1. /\ thread' = Appended(from, calls[d].text, calls[d].pos)
      /\ calls' = [calls EXCEPT ![d].at = phase, ![d].pos = pos]
      /\ faults' \in 0..MaxFaults
  BY FaultTyped DEF Appends, TurnInv
<1>2. thread' \in Seq(Message) /\ pos \in Nat
  BY <1>1, AppendTyped, CallFields
<1>3. phase \in Phases /\ phase # "closing" /\ (phase \in Texted => calls[d].at \in Texted)
  BY DEF Phases, Texted
<1> HIDE DEF phase, pos, lands
<1>4. /\ calls' \in [Deliveries -> CallType] /\ calls'[d].at = phase
      /\ calls'[d].version = calls[d].version /\ calls'[d].text = calls[d].text
      /\ \A e \in Deliveries : e # d => calls'[e] = calls[e]
  BY <1>1, <1>2, <1>3 DEF TurnInv, Typed, CallType
<1>5. Typed'
  BY <1>1, <1>2, <1>4 DEF TurnInv, Typed
<1>6. RowSound' /\ RowKept /\ Seen
  BY RowUntouched
<1>7. CallSound(d)'
  BY <1>3, <1>4, CallFields DEF CallSound
<1> QED
  BY <1>4, <1>5, <1>6, <1>7 DEF StepSound
-----------------------------------------------------------------------------
\* The steps that touch neither the row nor the thread.
LEMMA GenerateSound ==
  ASSUME TurnInv, NEW d \in Deliveries, Generate(d)
  PROVE  StepSound(d) /\ Seen
<1>1. UNCHANGED <<receipt, thread, answers, abandoned, faults>>
  BY DEF Generate
<1>2. CASE Fenced(d, {"processing", "generated", "committed"})
  <2>1. runs' = runs + 1 /\ calls' = [calls EXCEPT ![d].at = "made", ![d].text = runs + 1]
    BY <1>2 DEF Generate
  <2>2. /\ calls' \in [Deliveries -> CallType] /\ calls'[d].at = "made"
        /\ calls'[d].version = calls[d].version /\ calls'[d].text = runs + 1
        /\ \A e \in Deliveries : e # d => calls'[e] = calls[e]
    <3> DEFINE text == runs + 1
    <3>1. text \in Nat /\ "made" \in Phases
      BY RowFields DEF Phases, Driving
    <3>2. calls' = [calls EXCEPT ![d].at = "made", ![d].text = text]
      BY <2>1
    <3> HIDE DEF text
    <3>3. /\ calls' \in [Deliveries -> CallType] /\ calls'[d].at = "made"
          /\ calls'[d].version = calls[d].version /\ calls'[d].text = text
          /\ \A e \in Deliveries : e # d => calls'[e] = calls[e]
      BY <3>1, <3>2 DEF TurnInv, Typed, CallType
    <3> QED
      BY <3>3 DEF text
  <2>3. runs' \in Nat /\ answers' \subseteq {Refused} \cup 1..runs'
    BY <1>1, <2>1, RowFields DEF TurnInv, Typed
  <2>4. Typed'
    BY <1>1, <2>2, <2>3 DEF TurnInv, Typed
  <2>5. RowSound' /\ RowKept
    BY <1>1, <2>1, RowFields DEF TurnInv, RowSound, RowKept
  <2>6. Seen
    BY <1>1 DEF Seen, Outcome
  <2>7. CallSound(d)'
    BY <1>1, <2>1, <2>2, CallFields, RowFields DEF CallSound
  <2> QED
    BY <2>2, <2>4, <2>5, <2>6, <2>7 DEF StepSound
<1>3. CASE ~Fenced(d, {"processing", "generated", "committed"})
  <2>1. Goes(d, "failing") /\ UNCHANGED runs
    BY <1>3 DEF Generate
  <2>2. RowSound' /\ RowKept /\ Seen
    BY <1>1, <2>1, RowUntouched
  <2>3. /\ receipt' \in ReceiptType /\ thread' \in Seq(Message)
        /\ abandoned' \in BOOLEAN /\ faults' \in 0..MaxFaults
    BY <1>1 DEF TurnInv, Typed
  <2>4. "failing" \in Phases /\ "failing" \notin Texted
    BY DEF Phases, Texted
  <2> QED
    BY <1>1, <2>1, <2>2, <2>3, <2>4, MovesSound DEF StepSound
<1> QED
  BY <1>2, <1>3

LEMMA FindUserSound ==
  ASSUME TurnInv, NEW d \in Deliveries, FindUser(d)
  PROVE  StepSound(d) /\ Seen
<1>1. Goes(d, "persisted") /\ UNCHANGED <<receipt, thread, answers, runs, abandoned, faults>>
  BY DEF FindUser
<1>2. RowSound' /\ RowKept /\ Seen
  BY <1>1, RowUntouched
<1>3. /\ receipt' \in ReceiptType /\ thread' \in Seq(Message)
      /\ abandoned' \in BOOLEAN /\ faults' \in 0..MaxFaults
  BY <1>1 DEF TurnInv, Typed
<1>4. "persisted" \in Phases /\ "persisted" \notin Texted
  BY DEF Phases, Driving, Texted
<1> QED
  BY <1>1, <1>2, <1>3, <1>4, MovesSound DEF StepSound

LEMMA RaiseSound ==
  ASSUME TurnInv, NEW d \in Deliveries, Raise(d)
  PROVE  StepSound(d) /\ Seen
<1>1. Goes(d, "failing") /\ Fault /\ UNCHANGED <<receipt, thread, answers, runs, abandoned>>
  BY DEF Raise
<1>2. RowSound' /\ RowKept /\ Seen
  BY <1>1, RowUntouched
<1>3. /\ receipt' \in ReceiptType /\ thread' \in Seq(Message)
      /\ abandoned' \in BOOLEAN /\ faults' \in 0..MaxFaults
  BY <1>1, FaultTyped DEF TurnInv, Typed
<1>4. "failing" \in Phases /\ "failing" \notin Texted
  BY DEF Phases, Texted
<1> QED
  BY <1>1, <1>2, <1>3, <1>4, MovesSound DEF StepSound

LEMMA CrashSound ==
  ASSUME TurnInv, NEW d \in Deliveries, Crash(d)
  PROVE  StepSound(d) /\ Seen
<1>1. Ends(d) /\ Fault /\ UNCHANGED <<receipt, thread, answers, runs, abandoned>>
  BY DEF Crash
<1>2. RowSound' /\ RowKept /\ Seen
  BY <1>1, RowUntouched
<1>3. receipt' \in ReceiptType /\ abandoned' \in BOOLEAN /\ faults' \in 0..MaxFaults
  BY <1>1, FaultTyped DEF TurnInv, Typed
<1> QED
  BY <1>1, <1>2, <1>3, EndsSound DEF StepSound

LEMMA RereadSound ==
  ASSUME TurnInv, NEW d \in Deliveries, Reread(d)
  PROVE  StepSound(d) /\ Seen
<1>1. UNCHANGED <<receipt, thread, answers, runs, abandoned, faults>>
  BY DEF Reread
<1>2. RowSound' /\ RowKept /\ Seen
  BY <1>1, RowUntouched
<1>3. CASE receipt.state = "committed"
  <2>1. calls' = [calls EXCEPT ![d].at = "closing", ![d].text = receipt.response]
    BY <1>3 DEF Reread
  <2>2. /\ calls' \in [Deliveries -> CallType] /\ calls'[d].at = "closing"
        /\ calls'[d].version = calls[d].version /\ calls'[d].text = receipt.response
        /\ \A e \in Deliveries : e # d => calls'[e] = calls[e]
    BY <2>1, RowFields DEF TurnInv, Typed, CallType, Phases
  <2>3. Typed'
    BY <1>1, <2>2 DEF TurnInv, Typed
  <2>4. receipt.response # 0 /\ receipt.response <= runs
    BY <1>3 DEF TurnInv, RowSound, Decided
  <2>5. CallSound(d)'
    BY <1>1, <1>3, <2>2, <2>4, CallFields DEF CallSound, Decided
  <2> QED
    BY <1>2, <2>2, <2>3, <2>5 DEF StepSound
<1>4. CASE receipt.state # "committed"
  <2>1. Ends(d)
    BY <1>4 DEF Reread
  <2>2. receipt' \in ReceiptType /\ abandoned' \in BOOLEAN /\ faults' \in 0..MaxFaults
    BY <1>1 DEF TurnInv, Typed
  <2> QED
    BY <1>1, <1>2, <2>1, <2>2, EndsSound DEF StepSound
<1> QED
  BY <1>3, <1>4

LEMMA ReloadSound ==
  ASSUME TurnInv, NEW d \in Deliveries, Reload(d)
  PROVE  StepSound(d) /\ Seen
<1>1. /\ UNCHANGED <<receipt, thread, answers, runs, abandoned, faults>>
      /\ calls' = [calls EXCEPT ![d].at = "reloaded", ![d].pos = Len(thread)]
      /\ calls[d].at = "recover"
  BY DEF Reload, At
<1>2. RowSound' /\ RowKept /\ Seen
  BY <1>1, RowUntouched
<1>3. Len(thread) \in Nat
  BY DEF TurnInv, Typed
<1>4. /\ calls' \in [Deliveries -> CallType] /\ calls'[d].at = "reloaded"
      /\ calls'[d].version = calls[d].version /\ calls'[d].text = calls[d].text
      /\ \A e \in Deliveries : e # d => calls'[e] = calls[e]
  BY <1>1, <1>3 DEF TurnInv, Typed, CallType, Phases, Recovering
<1>5. Typed'
  BY <1>1, <1>4 DEF TurnInv, Typed
<1>6. CallSound(d)'
  BY <1>1, <1>4, CallFields DEF CallSound, Texted
<1> QED
  BY <1>2, <1>4, <1>5, <1>6 DEF StepSound
-----------------------------------------------------------------------------
\* An answer that tells what is decided already.
LEMMA TellsOutcome ==
  ASSUME TurnInv, receipt.state \in Decided \cup {"terminal"},
         Outcome' = Outcome, answers' = answers \cup {Outcome}
  PROVE  Seen
<1>1. Outcome # 0
  BY OutcomeByState DEF Refused
<1> QED
  BY <1>1 DEF Seen, Promise!Next, Promise!Tell

LEMMA ReplaySound ==
  ASSUME TurnInv, NEW d \in Deliveries, NEW received \in BOOLEAN,
         Replay(d, received) \/ RespondOusted(d, received)
  PROVE  StepSound(d) /\ Seen
<1>1. UNCHANGED <<receipt, thread, runs, abandoned>>
  BY DEF Replay, RespondOusted
<1>2. receipt' \in ReceiptType /\ abandoned' \in BOOLEAN
  BY <1>1 DEF TurnInv, Typed
<1>3. RowSound' /\ RowKept /\ Outcome' = Outcome
  BY <1>1, RowFields DEF TurnInv, RowSound, RowKept, Outcome
<1>4. CASE receipt.state = "completed" /\ Answer(d, receipt.response, received)
  <2>1. receipt.response \in 1..runs /\ receipt.response = Outcome
    BY <1>4, OutcomeByState DEF Decided
  <2>2. Seen
    BY <1>3, <1>4, <2>1, CallAnswers, TellsOutcome DEF Decided, TurnInv
  <2> QED
    BY <1>1, <1>2, <1>3, <1>4, <2>1, <2>2, AnswersSound DEF StepSound
<1>5. CASE receipt.state = "terminal" /\ Answer(d, Refused, received)
  <2>1. Outcome = Refused
    BY <1>5, OutcomeByState
  <2>2. Seen
    BY <1>3, <1>5, <2>1, CallAnswers, TellsOutcome DEF TurnInv
  <2> QED
    BY <1>1, <1>2, <1>3, <1>5, <2>2, AnswersSound DEF StepSound
<1>6. CASE Ends(d) /\ UNCHANGED <<answers, faults>>
  <2>1. faults' \in 0..MaxFaults /\ Seen
    BY <1>1, <1>6, RowUntouched DEF TurnInv, Typed
  <2> QED
    BY <1>1, <1>2, <1>3, <1>6, <2>1, EndsSound DEF StepSound
<1> QED
  BY <1>4, <1>5, <1>6 DEF Replay, RespondOusted

LEMMA CloseSound ==
  ASSUME TurnInv, NEW d \in Deliveries, NEW received \in BOOLEAN, Close(d, received)
  PROVE  StepSound(d) /\ Seen
<1> DEFINE row == IF Fenced(d, {"committed"}) THEN [receipt EXCEPT !.state = "completed"] ELSE receipt
<1>1. /\ calls[d].at = "closing" /\ receipt' = row /\ Answer(d, calls[d].text, received)
      /\ UNCHANGED <<thread, runs, abandoned>>
  BY DEF Close, At
<1>2. receipt.state \in Decided /\ calls[d].text = receipt.response
  BY <1>1, CallFields DEF CallSound
<1>3. calls[d].text = Outcome /\ Outcome \in 1..runs
  BY <1>2, OutcomeByState
<1>4. /\ receipt' \in ReceiptType /\ receipt'.state \in Decided
      /\ receipt'.version = receipt.version /\ receipt'.response = receipt.response
      /\ receipt'.generated = receipt.generated
  BY <1>1, <1>2 DEF TurnInv, Typed, ReceiptType, States, Decided
<1> HIDE DEF row
<1>5. RowSound'
  BY <1>1, <1>2, <1>4 DEF TurnInv, RowSound, Decided
<1>6. RowKept /\ Outcome' = Outcome
  BY <1>1, <1>2, <1>4, RowFields DEF RowKept, Outcome, Decided
<1>7. answers' = answers \cup {Outcome}
  BY <1>1, <1>3, CallAnswers DEF TurnInv
<1>8. Seen
  BY <1>2, <1>6, <1>7, TellsOutcome
<1> QED
  BY <1>1, <1>3, <1>4, <1>5, <1>6, <1>8, AnswersSound DEF StepSound

LEMMA RefuseSound ==
  ASSUME TurnInv, NEW d \in Deliveries, NEW received \in BOOLEAN, Refuse(d, received)
  PROVE  StepSound(d) /\ Seen
<1>1. UNCHANGED <<thread, runs, abandoned>> /\ abandoned' \in BOOLEAN
  BY DEF Refuse, TurnInv, Typed
<1>2. CASE Fenced(d, Uncommitted)
  <2>1. /\ receipt' = [receipt EXCEPT !.state = "terminal", !.live = FALSE]
        /\ Answer(d, Refused, received) /\ receipt.state \in Uncommitted
    BY <1>2 DEF Refuse, Fenced
  <2>2. /\ receipt' \in ReceiptType /\ receipt'.state = "terminal" /\ ~receipt'.live
        /\ receipt'.version = receipt.version /\ receipt'.response = receipt.response
        /\ receipt'.generated = receipt.generated
    BY <2>1 DEF TurnInv, Typed, ReceiptType, States
  <2>3. RowSound'
    BY <1>1, <2>1, <2>2 DEF TurnInv, RowSound, Decided, Uncommitted
  <2>4. RowKept
    BY <1>1, <2>1, <2>2, RowFields DEF RowKept, Decided, Uncommitted
  <2>5. Outcome = 0 /\ answers = {}
    BY <2>1, OutcomeByState DEF Uncommitted, Decided
  <2>6. Outcome' = Refused
    BY <2>2 DEF Outcome
  <2>7. answers' = answers \cup {Refused}
    BY <2>1, CallAnswers DEF TurnInv
  <2>8. Seen
    BY <2>5, <2>6, <2>7 DEF Seen, Promise!Next, Promise!Decide
  <2> QED
    BY <1>1, <2>1, <2>2, <2>3, <2>4, <2>8, AnswersSound DEF StepSound
<1>3. CASE ~Fenced(d, Uncommitted)
  <2>1. Goes(d, "ousted") /\ UNCHANGED <<receipt, answers, faults>>
    BY <1>3 DEF Refuse
  <2>2. RowSound' /\ RowKept /\ Seen
    BY <1>1, <2>1, RowUntouched
  <2>3. receipt' \in ReceiptType /\ thread' \in Seq(Message) /\ faults' \in 0..MaxFaults
    BY <1>1, <2>1 DEF TurnInv, Typed
  <2>4. "ousted" \in Phases /\ "ousted" \notin Texted
    BY DEF Phases, Texted
  <2> QED
    BY <1>1, <2>1, <2>2, <2>3, <2>4, MovesSound DEF StepSound
<1> QED
  BY <1>2, <1>3

LEMMA FailRetryableSound ==
  ASSUME TurnInv, NEW d \in Deliveries, FailRetryable(d)
  PROVE  StepSound(d) /\ Seen
<1>1. Ends(d) /\ UNCHANGED <<thread, answers, runs, faults>> /\ faults' \in 0..MaxFaults
  BY DEF FailRetryable, TurnInv, Typed
<1>2. CASE Fenced(d, Uncommitted)
  <2>1. /\ receipt' = [receipt EXCEPT !.state = "retryable", !.live = FALSE]
        /\ abandoned' = (abandoned \/ receipt.state = "generated")
        /\ receipt.state \in Uncommitted
    BY <1>2 DEF FailRetryable, Fenced
  <2>2. /\ receipt' \in ReceiptType /\ receipt'.state = "retryable" /\ ~receipt'.live
        /\ receipt'.version = receipt.version /\ receipt'.response = receipt.response
        /\ receipt'.generated = receipt.generated
    BY <2>1 DEF TurnInv, Typed, ReceiptType, States
  <2>3. receipt.version <= receipt'.version /\ abandoned' \in BOOLEAN
    BY <2>1, <2>2, RowFields DEF TurnInv, Typed
  <2>4. RowSound' /\ RowKept /\ Seen
    BY <1>1, <2>1, <2>2, <2>3, RowMoves DEF Decided, Uncommitted, TurnInv, RowSound
  <2> QED
    BY <1>1, <2>2, <2>3, <2>4, EndsSound DEF StepSound
<1>3. CASE ~Fenced(d, Uncommitted)
  <2>1. UNCHANGED <<receipt, abandoned>>
    BY <1>3 DEF FailRetryable
  <2>2. RowSound' /\ RowKept /\ Seen
    BY <1>1, <2>1, RowUntouched
  <2>3. receipt' \in ReceiptType /\ abandoned' \in BOOLEAN
    BY <2>1 DEF TurnInv, Typed
  <2> QED
    BY <1>1, <2>2, <2>3, EndsSound DEF StepSound
<1> QED
  BY <1>2, <1>3

\* The steps of nobody's call.
LEMMA EnvironmentSound ==
  ASSUME TurnInv, Expire \/ Lapse \/ OtherAppends
  PROVE  Typed' /\ RowSound' /\ RowKept /\ Seen /\ UNCHANGED calls
<1>1. CASE Expire \/ Lapse
  <2>1. /\ receipt' = [receipt EXCEPT !.live = FALSE] /\ (Fault \/ UNCHANGED faults)
        /\ UNCHANGED <<thread, calls, answers, runs, abandoned>>
    BY <1>1 DEF Expire, Lapse
  <2>2. /\ receipt' \in ReceiptType /\ receipt'.state = receipt.state /\ ~receipt'.live
        /\ receipt'.version = receipt.version /\ receipt'.response = receipt.response
        /\ receipt'.generated = receipt.generated
    BY <2>1 DEF TurnInv, Typed, ReceiptType
  <2>3. receipt.version <= receipt'.version
    BY <2>2, RowFields
  <2>4. RowSound' /\ RowKept /\ Seen
    BY <2>1, <2>2, <2>3, RowMoves DEF TurnInv, RowSound
  <2>5. faults' \in 0..MaxFaults
    BY <2>1, FaultTyped DEF TurnInv
  <2> QED
    BY <2>1, <2>2, <2>4, <2>5 DEF TurnInv, Typed
<1>2. CASE OtherAppends
  <2>1. /\ thread' = Append(thread, [from |-> "other", text |-> 0])
        /\ UNCHANGED <<receipt, calls, answers, runs, abandoned, faults>>
    BY <1>2 DEF OtherAppends
  <2>2. [from |-> "other", text |-> 0] \in Message
    BY DEF Message
  <2>3. Typed'
    BY <2>1, <2>2 DEF TurnInv, Typed
  <2> QED
    BY <2>1, <2>3, RowUntouched
<1> QED
  BY <1>1, <1>2
-----------------------------------------------------------------------------
\* Whatever a call does.
LEMMA CallStepSound ==
  ASSUME TurnInv, NEW d \in Deliveries, Proceed(d) \/ Refuse(d, TRUE) \/ Raised(d) \/ Unheard(d)
  PROVE  StepSound(d) /\ Seen
<1>1. CASE \E raises \in BOOLEAN : AppendUser(d, raises)
  <2>1. PICK raises \in BOOLEAN : AppendUser(d, raises)
    BY <1>1
  <2>2. "recording" \in Phases /\ "recording" \notin Texted
    BY DEF Phases, Driving, Texted
  <2> QED
    BY <2>1, <2>2, AppendsSound DEF AppendUser
<1>2. CASE \E raises \in BOOLEAN : AppendReply(d, raises)
  <2>1. PICK raises \in BOOLEAN : AppendReply(d, raises)
    BY <1>2
  <2>2. "replied" \in Phases /\ calls[d].at \in Texted
    BY <2>1 DEF Phases, Driving, Texted, AppendReply, At
  <2> QED
    BY <2>1, <2>2, AppendsSound DEF AppendReply
<1>3. CASE Reappend(d)
  <2>1. "reappended" \in Phases /\ calls[d].at \in Texted
    BY <1>3 DEF Phases, Recovering, Texted, Reappend, At
  <2> QED
    BY <1>3, <2>1, AppendsSound DEF Reappend
<1> QED
  BY <1>1, <1>2, <1>3, ClaimSound, LoadSound, FindUserSound, RecordUserSound, GenerateSound,
     CheckpointSound, CommitSound, RereadSound, ReloadSound, RecommitSound, RaiseSound, CrashSound,
     ReplaySound, CloseSound, RefuseSound, FailRetryableSound
  DEF Proceed, Raised, Unheard

\* What was told before a step is told after it.
LEMMA ToldKept ==
  ASSUME TurnInv, Seen
  PROVE  Told'
<1>1. CASE UNCHANGED <<Outcome, answers>>
  BY <1>1 DEF TurnInv, Told
<1>2. CASE Promise!Decide
  <2>1. answers = {}
    BY <1>2, RowFields, OutcomeByState DEF Promise!Decide, Refused
  <2> QED
    BY <1>2, <2>1 DEF Promise!Decide, Told
<1>3. CASE Promise!Tell
  BY <1>3 DEF Promise!Tell, TurnInv, Told
<1> QED
  BY <1>1, <1>2, <1>3 DEF Seen, Promise!Next

LEMMA TurnStepSound ==
  ASSUME TurnInv, [Next]_vars
  PROVE  TurnInv' /\ Seen
<1>1. Typed' /\ RowSound' /\ Seen /\ \A d \in Deliveries : CallSound(d)'
  <2>1. ASSUME NEW d \in Deliveries,
               Proceed(d) \/ Refuse(d, TRUE) \/ Raised(d) \/ Unheard(d)
        PROVE  Typed' /\ RowSound' /\ Seen /\ \A e \in Deliveries : CallSound(e)'
    <3>1. StepSound(d) /\ Seen
      BY <2>1, CallStepSound
    <3>2. ASSUME NEW e \in Deliveries, e # d
          PROVE  CallSound(e)'
      BY <3>1, <3>2, OthersSound DEF StepSound, TurnInv
    <3> QED
      BY <3>1, <3>2 DEF StepSound
  <2>2. CASE Expire \/ Lapse \/ OtherAppends
    <3>1. Typed' /\ RowSound' /\ RowKept /\ Seen /\ UNCHANGED calls
      BY <2>2, EnvironmentSound
    <3> QED
      BY <3>1, OthersSound DEF TurnInv
  <2>3. CASE UNCHANGED vars
    <3>1. UNCHANGED <<receipt, thread, calls, answers, runs, abandoned, faults>>
      BY <2>3 DEF vars
    <3>2. Typed' /\ RowSound' /\ RowKept /\ Seen
      BY <3>1, RowUntouched DEF TurnInv, Typed
    <3> QED
      BY <3>1, <3>2, OthersSound DEF TurnInv
  <2> QED
    BY <2>1, <2>2, <2>3 DEF Next
<1>2. Told'
  BY <1>1, ToldKept
<1> QED
  BY <1>1, <1>2 DEF TurnInv

LEMMA TurnInitSound == Init => TurnInv
<1> SUFFICES ASSUME Init PROVE TurnInv
  OBVIOUS
<1>1. Typed
  <2>1. receipt \in ReceiptType
    BY DEF Init, ReceiptType, States
  <2>2. Idle \in CallType
    BY DEF CallType, Phases, Idle
  <2>3. thread \in Seq(Message) /\ faults \in 0..MaxFaults
    BY ExternalAssumption DEF Init
  <2> QED
    BY <2>1, <2>2, <2>3 DEF Init, Typed
<1>2. RowSound /\ Told
  BY DEF Init, RowSound, Decided, Told
<1>3. ASSUME NEW d \in Deliveries PROVE CallSound(d)
  BY DEF Init, CallSound, Idle, Texted
<1> QED
  BY <1>1, <1>2, <1>3 DEF TurnInv

LEMMA TurnInvariant == Spec => []TurnInv
BY TurnInitSound, TurnStepSound, PTL DEF Spec

\* The type invariant of the external turn: a response is stored exactly from
\* the commit on, no call is ahead of the row, only an active row is leased.
THEOREM ExternalTypeCorrect == Spec => []ExternalTypeOK
<1>1. TurnInv => ExternalTypeOK
  BY DEF TurnInv, Typed, RowSound, CallSound, Decided, ExternalTypeOK
<1> QED
  BY <1>1, TurnInvariant, PTL

\* The turn implements what TurnOutcome promises: however many deliveries,
\* takeovers, retries and lost answers there are, it is decided once, and every
\* final answer tells that decision.
THEOREM TurnDecidedOnce == Spec => OneOutcome
<1>1. Init => Promise!Init
  BY DEF Init, Promise!Init, Outcome
<1>2. TurnInv /\ [Next]_vars => [Promise!Next]_<<Outcome, answers>>
  BY TurnStepSound DEF Seen
<1> QED
  BY <1>1, <1>2, TurnInvariant, PTL DEF Spec, OneOutcome, Promise!Spec
-----------------------------------------------------------------------------
(* What the turn leaves in the conversation *)

Own == {"user", "reply"}

\* At most one message of a kind.
Once == \A from \in Own : \A i, j \in Rows(from) : i = j

\* What a step of the thread does to the messages of a kind.
LEMMA RowsAppended ==
  ASSUME thread \in Seq(Message), NEW m \in Message, NEW from, thread' = Append(thread, m)
  PROVE  /\ Rows(from)' = IF m.from = from THEN Rows(from) \cup {Len(thread) + 1} ELSE Rows(from)
         /\ \A i \in Rows(from) : thread'[i] = thread[i]
         /\ thread'[Len(thread) + 1] = m
<1>1. /\ Len(thread') = Len(thread) + 1 /\ Len(thread) \in Nat
      /\ \A i \in 1..Len(thread) : thread'[i] = thread[i]
      /\ thread'[Len(thread) + 1] = m
  OBVIOUS
<1>2. DOMAIN thread = 1..Len(thread) /\ DOMAIN thread' = 1..(Len(thread) + 1)
  BY <1>1
<1>3. ASSUME NEW i
      PROVE  i \in Rows(from)' <=> i \in Rows(from) \/ (i = Len(thread) + 1 /\ m.from = from)
  <2>1. i \in Rows(from)' <=> i \in 1..(Len(thread) + 1) /\ thread'[i].from = from
    BY <1>2 DEF Rows
  <2>2. i \in Rows(from) <=> i \in 1..Len(thread) /\ thread[i].from = from
    BY <1>2 DEF Rows
  <2>3. i \in 1..(Len(thread) + 1) <=> i \in 1..Len(thread) \/ i = Len(thread) + 1
    BY <1>1
  <2> QED
    BY <1>1, <2>1, <2>2, <2>3
<1>4. Rows(from) \subseteq 1..Len(thread)
  BY <1>2 DEF Rows
<1> QED
  BY <1>1, <1>3, <1>4

\* An append of the turn happens only where there is no such message.
LEMMA OwnAppend ==
  ASSUME TurnInv, NEW from \in Own, NEW text \in Nat, NEW pos \in Nat,
         thread' = Appended(from, text, pos)
  PROVE  \/ thread' = thread
         \/ /\ Rows(from) = {} /\ Rows(from)' = {Len(thread) + 1}
            /\ thread'[Len(thread) + 1].text = text
            /\ \A other \in Own \ {from} :
                 Rows(other)' = Rows(other) /\ \A i \in Rows(other) : thread'[i] = thread[i]
<1>1. CASE ~Known(from) /\ Len(thread) = pos
  <2> DEFINE m == [from |-> from, text |-> text]
  <2>1. m \in Message /\ m.from = from /\ m.text = text
    BY DEF Message, Own
  <2>2. thread' = Append(thread, m) /\ Rows(from) = {}
    BY <1>1 DEF Appended, Known
  <2>3. thread \in Seq(Message)
    BY DEF TurnInv, Typed
  <2> HIDE DEF m
  <2>4. /\ Rows(from)' = Rows(from) \cup {Len(thread) + 1}
        /\ thread'[Len(thread) + 1] = m
    BY <2>1, <2>2, <2>3, RowsAppended
  <2>5. \A other \in Own \ {from} :
          Rows(other)' = Rows(other) /\ \A i \in Rows(other) : thread'[i] = thread[i]
    BY <2>1, <2>2, <2>3, RowsAppended
  <2> QED
    BY <2>1, <2>2, <2>4, <2>5
<1>2. CASE ~(~Known(from) /\ Len(thread) = pos)
  BY <1>2 DEF Appended
<1> QED
  BY <1>1, <1>2

\* An append of the turn, as far as the thread goes.
Extends ==
  \/ thread' = thread
  \/ \E d \in Deliveries, from \in Own : thread' = Appended(from, calls[d].text, calls[d].pos)
  \/ OtherAppends

LEMMA StepExtends ==
  ASSUME [Next]_vars
  PROVE  Extends
<1>1. ASSUME NEW d \in Deliveries, NEW from \in Own, NEW next, NEW raises,
             Appends(d, from, next, raises)
      PROVE  Extends
  BY <1>1 DEF Appends, Extends
<1>2. ASSUME NEW d \in Deliveries, Proceed(d) \/ Refuse(d, TRUE) \/ Raised(d) \/ Unheard(d)
      PROVE  Extends
  <2>1. CASE \E raises \in BOOLEAN : AppendUser(d, raises) \/ AppendReply(d, raises)
    BY <1>1, <2>1 DEF AppendUser, AppendReply, Own
  <2>2. CASE Reappend(d)
    BY <1>1, <2>2 DEF Reappend, Own
  <2>3. CASE thread' = thread
    BY <2>3 DEF Extends
  <2> QED
    BY <1>2, <2>1, <2>2, <2>3
    DEF Proceed, Raised, Unheard, Claim, Replay, Load, FindUser, RecordUser, Generate, Checkpoint,
        Commit, Reread, Close, Reload, Recommit, RespondOusted, FailRetryable, Raise, Crash, Refuse
<1> QED
  BY <1>2 DEF Next, Expire, Lapse, vars, Extends

LEMMA OnceKept ==
  ASSUME TurnInv, Once, Extends
  PROVE  Once'
<1>1. CASE thread' = thread
  BY <1>1 DEF Once, Rows
<1>2. ASSUME NEW d \in Deliveries, NEW from \in Own,
             thread' = Appended(from, calls[d].text, calls[d].pos)
      PROVE  Once'
  BY <1>1, <1>2, OwnAppend, CallFields DEF Once
<1>3. CASE OtherAppends
  <2>1. [from |-> "other", text |-> 0] \in Message /\ thread \in Seq(Message)
    BY DEF Message, TurnInv, Typed
  <2>2. \A from \in Own : Rows(from)' = Rows(from)
    BY <1>3, <2>1, RowsAppended DEF OtherAppends, Own
  <2> QED
    BY <2>2 DEF Once
<1> QED
  BY <1>1, <1>2, <1>3 DEF Extends

LEMMA OnceCounts ==
  ASSUME Once, NEW from \in Own
  PROVE  Cardinality(Rows(from)) <= 1
<1>1. CASE Rows(from) = {}
  BY <1>1, FS_EmptySet
<1>2. CASE Rows(from) # {}
  <2>1. PICK i \in Rows(from) : TRUE
    BY <1>2
  <2>2. Rows(from) = {i}
    BY <2>1 DEF Once
  <2> QED
    BY <2>2, FS_Singleton
<1> QED
  BY <1>1, <1>2

\* However often a request is delivered, and whatever fails between an append
\* and its record, one message of the player and one reply at most are in the
\* conversation.
THEOREM ExchangeOnce == Spec => []OneExchange
<1>1. Init => Once
  BY DEF Init, Once, Rows
<1>2. TurnInv /\ Once /\ [Next]_vars => Once'
  BY StepExtends, OnceKept
<1>3. Once => OneExchange
  BY OnceCounts DEF OneExchange, Own
<1> QED
  BY <1>1, <1>2, <1>3, TurnInvariant, PTL DEF Spec
-----------------------------------------------------------------------------
(***************************************************************************)
(* The reply that was told is the one in the thread.  Two facts carry it.  *)
(* A version belongs to one call, so what a call finds under its own       *)
(* version nobody else has moved.  And until an attempt fails behind its   *)
(* checkpoint, the checkpointed text is not replaced: whoever holds a text *)
(* to append or to commit holds that one.                                  *)
(***************************************************************************)
Away == {"idle", "answered"}

\* Calls of the full drive that have not got their text past the receipt, and
\* calls that hold a checkpointed text.
Fresh == {"claimed", "loaded", "recording", "persisted", "made"}
Holding == {"checkpointed", "replied", "recover", "reloaded", "reappended"}
Landing == {"replied", "reappended"}

Kept == {"generated"} \cup Decided

\* Every call that is at work has a version of its own ...
OwnVersion ==
  \A d \in Deliveries :
    /\ calls[d].at \in Away <=> calls[d].version = 0
    /\ \A e \in Deliveries : calls[d].version = calls[e].version /\ d # e => calls[d].version = 0

\* ... under which only that call leaves PROCESSING.
FreshSound ==
  \A d \in Deliveries :
    calls[d].at \in Fresh /\ calls[d].version = receipt.version => receipt.state = "processing"

\* What holds of the checkpointed text.
TextHeld ==
  /\ \A d \in Deliveries :
       /\ calls[d].at \in Holding => receipt.state \in Kept /\ calls[d].text = receipt.generated
       /\ calls[d].at \in Landing => Rows("reply") # {}
  /\ \A i \in Rows("reply") : receipt.state \in Kept /\ thread[i].text = receipt.generated
  /\ receipt.state \in Decided => Rows("reply") # {} /\ receipt.response = receipt.generated

ReplyInv == OwnVersion /\ FreshSound /\ (abandoned \/ TextHeld)

\* A call goes on under its version or gives it up.
Retains(d) ==
  \/ calls'[d].version = calls[d].version /\ (calls'[d].at \in Away <=> calls[d].at \in Away)
  \/ calls'[d].version = 0 /\ calls'[d].at \in Away

LEMMA VersionsKept ==
  ASSUME OwnVersion, \A d \in Deliveries : Retains(d)
  PROVE  OwnVersion'
<1>1. ASSUME NEW d \in Deliveries
      PROVE  calls'[d].at \in Away <=> calls'[d].version = 0
  BY DEF OwnVersion, Retains
<1>2. ASSUME NEW d \in Deliveries, NEW e \in Deliveries,
             calls'[d].version = calls'[e].version, d # e
      PROVE  calls'[d].version = 0
  BY <1>2 DEF OwnVersion, Retains
<1> QED
  BY <1>1, <1>2 DEF OwnVersion

\* A call that moves the row under its own version leaves no fresh call there.
LEMMA FreshLeft ==
  ASSUME OwnVersion, NEW d \in Deliveries, calls[d].at \notin Away,
         calls[d].version = receipt.version, receipt'.version = receipt.version,
         calls'[d].at \notin Fresh, \A e \in Deliveries : e # d => calls'[e] = calls[e]
  PROVE  FreshSound'
<1>1. ASSUME NEW e \in Deliveries, e # d, calls[e].at \in Fresh, calls[e].version = receipt.version
      PROVE  FALSE
  BY <1>1 DEF OwnVersion, Fresh, Away
<1>2. ASSUME NEW e \in Deliveries, calls'[e].at \in Fresh, calls'[e].version = receipt'.version
      PROVE  receipt'.state = "processing"
  BY <1>1, <1>2
<1> QED
  BY <1>2 DEF FreshSound

\* Steps that do not move the row, the replies and what the calls hold.
QuietRow ==
  /\ receipt'.state = receipt.state /\ receipt'.version = receipt.version
  /\ receipt'.generated = receipt.generated /\ receipt'.response = receipt.response
  /\ Rows("reply")' = Rows("reply") /\ \A i \in Rows("reply") : thread'[i] = thread[i]
  /\ abandoned' = abandoned

QuietCall(d) ==
  \/ calls'[d] = calls[d]
  \/ /\ Retains(d)
     /\ calls'[d].at \in Fresh => calls[d].at \in Fresh
     /\ calls'[d].at \in Holding => calls[d].at \in Holding /\ calls'[d].text = calls[d].text
     /\ calls'[d].at \notin Landing

LEMMA QuietKeeps ==
  ASSUME ReplyInv, QuietRow, \A d \in Deliveries : QuietCall(d)
  PROVE  ReplyInv'
<1>1. OwnVersion'
  <2>1. \A d \in Deliveries : Retains(d)
    BY DEF QuietCall, Retains
  <2> QED
    BY <2>1, VersionsKept DEF ReplyInv
<1>2. FreshSound'
  <2> SUFFICES ASSUME NEW d \in Deliveries, calls'[d].at \in Fresh,
                      calls'[d].version = receipt'.version
               PROVE  receipt'.state = "processing"
    BY DEF FreshSound
  <2>1. calls[d].at \in Fresh /\ calls[d].version = receipt.version
    BY DEF QuietCall, Retains, QuietRow, Fresh, Away
  <2> QED
    BY <2>1 DEF ReplyInv, FreshSound, QuietRow
<1>3. ASSUME TextHeld PROVE TextHeld'
  <2>1. ASSUME NEW d \in Deliveries
        PROVE  /\ calls'[d].at \in Holding =>
                    receipt'.state \in Kept /\ calls'[d].text = receipt'.generated
               /\ calls'[d].at \in Landing => Rows("reply")' # {}
    BY <1>3 DEF QuietCall, QuietRow, TextHeld
  <2>2. ASSUME NEW i \in Rows("reply")'
        PROVE  receipt'.state \in Kept /\ thread'[i].text = receipt'.generated
    BY <1>3, <2>2 DEF QuietRow, TextHeld
  <2>3. receipt'.state \in Decided =>
          Rows("reply")' # {} /\ receipt'.response = receipt'.generated
    BY <1>3 DEF QuietRow, TextHeld
  <2> QED
    BY <2>1, <2>2, <2>3 DEF TextHeld
<1> QED
  BY <1>1, <1>2, <1>3 DEF ReplyInv, QuietRow

\* The phases are apart.
LEMMA PhasesApart ==
  /\ Fresh \cap Holding = {} /\ Landing \subseteq Holding
  /\ Away \cap (Fresh \cup Holding \cup {"committed", "closing", "ousted", "failing"}) = {}
  /\ (Fresh \cup Holding) \cap {"committed", "closing", "ousted", "failing"} = {}
  /\ Kept \cap {"absent", "processing", "retryable", "terminal"} = {}
  /\ Decided \subseteq Kept
BY DEF Fresh, Holding, Landing, Away, Kept, Decided

\* A call that holds nothing goes to another such phase, or ends, fails or
\* answers.
LEMMA QuietMove ==
  ASSUME TurnInv, NEW d \in Deliveries, calls[d].at \notin Away,
         calls'[d].version = calls[d].version, calls'[d].at \in Phases \ Away,
         calls'[d].at \in Fresh => calls[d].at \in Fresh, calls'[d].at \notin Landing,
         calls'[d].at \in Holding => calls[d].at \in Holding /\ calls'[d].text = calls[d].text
  PROVE  QuietCall(d)
BY DEF QuietCall, Retains

LEMMA QuietEnd ==
  ASSUME NEW d \in Deliveries, calls'[d].version = 0, calls'[d].at \in Away
  PROVE  QuietCall(d)
BY DEF QuietCall, Retains, Away, Fresh, Holding, Landing

LEMMA ClaimReply ==
  ASSUME TurnInv, ReplyInv, NEW d \in Deliveries, Claim(d)
  PROVE  ReplyInv'
<1> DEFINE state == IF receipt.state \in {"absent", "retryable"} THEN "processing" ELSE receipt.state
<1>1. /\ receipt'.state = state /\ receipt'.version = receipt.version + 1
      /\ receipt'.generated = receipt.generated /\ receipt'.response = receipt.response
      /\ calls'[d].at = ClaimedAt /\ calls'[d].version = receipt.version + 1
      /\ receipt.state = "generated" => calls'[d].text = receipt.generated
      /\ UNCHANGED <<thread, abandoned>>
  BY DEF Claim, TurnInv, Typed, ReceiptType, CallType
<1>2. \A e \in Deliveries : e # d => calls'[e] = calls[e]
  BY DEF Claim, TurnInv, Typed
<1>3. receipt.state \in {"absent", "committed", "retryable", "processing", "generated"}
  BY DEF Claim, Takeable
<1>4. /\ ClaimedAt \in {"closing", "recover", "claimed"}
      /\ ClaimedAt = "recover" <=> receipt.state = "generated"
      /\ ClaimedAt = "claimed" => state = "processing"
  BY <1>3 DEF ClaimedAt
<1>5. ASSUME NEW e \in Deliveries
      PROVE  calls[e].version \in Nat /\ calls[e].version <= receipt.version /\ receipt.version \in Nat
  BY CallFields, RowFields DEF CallSound
<1>6. OwnVersion'
  <2>1. ASSUME NEW e \in Deliveries PROVE calls'[e].at \in Away <=> calls'[e].version = 0
    <3>1. CASE e = d
      BY <1>1, <1>4, <1>5, <3>1 DEF Away
    <3>2. CASE e # d
      BY <1>2, <3>2 DEF ReplyInv, OwnVersion
    <3> QED
      BY <3>1, <3>2
  <2>2. ASSUME NEW e \in Deliveries, NEW f \in Deliveries, calls'[e].version = calls'[f].version,
               e # f
        PROVE  calls'[e].version = 0
    <3>1. CASE e # d /\ f # d
      BY <1>2, <2>2, <3>1 DEF ReplyInv, OwnVersion
    <3>2. CASE e = d
      BY <1>1, <1>2, <1>5, <2>2, <3>2
    <3>3. CASE f = d
      BY <1>1, <1>2, <1>5, <2>2, <3>3
    <3> QED
      BY <3>1, <3>2, <3>3
  <2> QED
    BY <2>1, <2>2 DEF OwnVersion
<1>7. FreshSound'
  <2> SUFFICES ASSUME NEW e \in Deliveries, calls'[e].at \in Fresh,
                      calls'[e].version = receipt'.version
               PROVE  receipt'.state = "processing"
    BY DEF FreshSound
  <2>1. e = d
    BY <1>1, <1>2, <1>5
  <2> QED
    BY <1>1, <1>4, <2>1 DEF Fresh
<1>8. ASSUME TextHeld PROVE TextHeld'
  <2>1. receipt.state \in Kept <=> state \in Kept
    BY DEF Kept, Decided
  <2>2. receipt.state \in Decided <=> state \in Decided
    BY DEF Decided
  <2>3. Rows("reply")' = Rows("reply")
    BY <1>1 DEF Rows
  <2> HIDE DEF state
  <2>4. ASSUME NEW e \in Deliveries
        PROVE  /\ calls'[e].at \in Holding =>
                    receipt'.state \in Kept /\ calls'[e].text = receipt'.generated
               /\ calls'[e].at \in Landing => Rows("reply")' # {}
    <3>1. CASE e # d
      BY <1>1, <1>2, <1>8, <2>1, <2>3, <3>1 DEF TextHeld
    <3>2. CASE e = d
      BY <1>1, <1>4, <2>1, <3>2 DEF Holding, Landing, Kept
    <3> QED
      BY <3>1, <3>2
  <2> QED
    BY <1>1, <1>8, <2>1, <2>2, <2>3, <2>4 DEF TextHeld
<1> QED
  BY <1>1, <1>6, <1>7, <1>8 DEF ReplyInv

\* The row moves under the version of a call, which holds no text afterwards
\* unless it is the one now checkpointed.
LEMMA OwnMove ==
  ASSUME TurnInv, ReplyInv, NEW d \in Deliveries, calls[d].at \notin Away,
         calls[d].version = receipt.version, receipt'.version = receipt.version,
         calls'[d].at \notin Fresh, Retains(d),
         \A e \in Deliveries : e # d => calls'[e] = calls[e]
  PROVE  OwnVersion' /\ FreshSound'
<1>1. \A e \in Deliveries : Retains(e)
  BY DEF Retains
<1> QED
  BY <1>1, VersionsKept, FreshLeft DEF ReplyInv

\* Before a checkpoint nobody holds a text and no reply is there.
LEMMA NoneHeld ==
  ASSUME TextHeld, receipt.state \notin Kept
  PROVE  Rows("reply") = {} /\ \A d \in Deliveries : calls[d].at \notin Holding
BY DEF TextHeld
LEMMA CheckpointReply ==
  ASSUME TurnInv, ReplyInv, NEW d \in Deliveries, NEW raises \in BOOLEAN, Checkpoint(d, raises)
  PROVE  ReplyInv'
<1> DEFINE changed == [receipt EXCEPT !.state = "generated", !.generated = calls[d].text]
<1>1. /\ Updates(d, {"processing"}, changed, "checkpointed", raises)
      /\ calls[d].at = "made" /\ UNCHANGED <<thread, abandoned>>
  BY DEF Checkpoint, At
<1>2. /\ calls'[d].at \in {"checkpointed", "failing"}
      /\ ~Fenced(d, {"processing"}) => calls'[d].at = "failing"
      /\ calls'[d].version = calls[d].version /\ calls'[d].text = calls[d].text
      /\ \A e \in Deliveries : e # d => calls'[e] = calls[e]
  <2>1. "checkpointed" \in Phases /\ "failing" \in Phases
    BY DEF Phases, Driving
  <2>2. Goes(d, "failing") \/ (Fenced(d, {"processing"}) /\ Goes(d, "checkpointed"))
    BY <1>1, UpdateGoes
  <2> QED
    BY <2>1, <2>2, CallGoes DEF TurnInv
<1>3. Rows("reply")' = Rows("reply")
  BY <1>1 DEF Rows
<1>4. CASE ~Fenced(d, {"processing"})
  <2>1. receipt' = receipt
    BY <1>1, <1>4 DEF Updates
  <2>2. QuietRow
    BY <1>1, <1>3, <2>1 DEF QuietRow
  <2>3. QuietCall(d)
    BY <1>1, <1>2, <1>4, QuietMove DEF Away, Phases, Fresh, Holding, Landing
  <2> QED
    BY <1>2, <2>2, <2>3, QuietKeeps DEF QuietCall
<1>5. CASE Fenced(d, {"processing"})
  <2>1. receipt' = changed /\ receipt.state = "processing" /\ receipt.version = calls[d].version
    BY <1>1, <1>5 DEF Updates, Fenced
  <2>2. /\ receipt'.state = "generated" /\ receipt'.generated = calls[d].text
        /\ receipt'.version = receipt.version
    BY <2>1 DEF TurnInv, Typed, ReceiptType
  <2>3. OwnVersion' /\ FreshSound'
    <3>1. calls[d].at \notin Away /\ calls'[d].at \notin Fresh /\ Retains(d)
      BY <1>1, <1>2 DEF Away, Fresh, Retains
    <3> QED
      BY <1>2, <2>1, <2>2, <3>1, OwnMove
  <2>4. ASSUME TextHeld PROVE TextHeld'
    <3>1. Rows("reply") = {} /\ \A e \in Deliveries : calls[e].at \notin Holding
      BY <2>1, <2>4, NoneHeld, PhasesApart
    <3>2. ASSUME NEW e \in Deliveries
          PROVE  /\ calls'[e].at \in Holding =>
                      receipt'.state \in Kept /\ calls'[e].text = receipt'.generated
                 /\ calls'[e].at \in Landing => Rows("reply")' # {}
      <4>1. CASE e # d
        BY <1>2, <3>1, <4>1, PhasesApart
      <4>2. CASE e = d
        BY <1>2, <2>2, <4>2 DEF Kept, Landing
      <4> QED
        BY <4>1, <4>2
    <3> QED
      BY <1>3, <2>2, <3>1, <3>2 DEF TextHeld, Decided
  <2> QED
    BY <1>1, <2>3, <2>4 DEF ReplyInv
<1> QED
  BY <1>4, <1>5

\* The append of the reply, by the drive and by the recovery.
LEMMA AppendsReply ==
  ASSUME TurnInv, ReplyInv, NEW d \in Deliveries, NEW next \in Landing, NEW raises \in BOOLEAN,
         calls[d].at \in {"checkpointed", "reloaded"}, Appends(d, "reply", next, raises),
         UNCHANGED <<receipt, abandoned>>
  PROVE  ReplyInv'
<1> DEFINE pos == calls[d].pos
           lands == Landed("reply", pos)
           phase == IF lands /\ ~raises THEN next ELSE "failing"
<1>1. /\ thread' = Appended("reply", calls[d].text, pos)
      /\ calls' = [calls EXCEPT ![d].at = phase, ![d].pos = IF lands THEN Behind("reply", @) ELSE @]
  BY DEF Appends
<1>2. /\ calls'[d].at = phase /\ calls'[d].version = calls[d].version
      /\ calls'[d].text = calls[d].text
      /\ \A e \in Deliveries : e # d => calls'[e] = calls[e]
  <2> HIDE DEF phase, lands
  <2> QED
    BY <1>1 DEF TurnInv, Typed, CallType
<1>3. phase \in Landing \cup {"failing"}
  OBVIOUS
<1>4. OwnVersion'
  <2>1. Retains(d)
    BY <1>2, <1>3 DEF Retains, Away, Landing
  <2>2. \A e \in Deliveries : Retains(e)
    BY <1>2, <2>1 DEF Retains
  <2> QED
    BY <2>2, VersionsKept DEF ReplyInv
<1>5. FreshSound'
  <2>1. phase \notin Fresh
    BY <1>3 DEF Fresh, Landing
  <2> HIDE DEF phase
  <2> QED
    BY <1>2, <2>1 DEF ReplyInv, FreshSound
<1>6. ASSUME TextHeld PROVE TextHeld'
  <2>1. receipt.state \in Kept /\ calls[d].text = receipt.generated
    BY <1>6 DEF TextHeld, Holding
  <2>2. /\ Rows("reply") # {} => Rows("reply")' # {}
        /\ \A i \in Rows("reply")' : thread'[i].text = receipt.generated
    <3>1. CASE thread' = thread
      BY <1>6, <3>1 DEF Rows, TextHeld
    <3>2. CASE /\ Rows("reply") = {} /\ Rows("reply")' = {Len(thread) + 1}
               /\ thread'[Len(thread) + 1].text = calls[d].text
      BY <2>1, <3>2
    <3> QED
      BY <1>1, <3>1, <3>2, OwnAppend, CallFields DEF Own
  <2>3. phase \in Landing => Rows("reply")' # {}
    <3>1. CASE Known("reply")
      BY <2>2, <3>1 DEF Known
    <3>2. CASE ~Known("reply") /\ Len(thread) = pos
      <4> DEFINE m == [from |-> "reply", text |-> calls[d].text]
      <4>1. m \in Message /\ m.from = "reply"
        BY CallFields DEF Message
      <4>2. thread' = Append(thread, m) /\ thread \in Seq(Message)
        BY <1>1, <3>2 DEF Appended, TurnInv, Typed
      <4> HIDE DEF m
      <4> QED
        BY <4>1, <4>2, RowsAppended
    <3>3. CASE ~lands
      BY <3>3 DEF Landing
    <3> QED
      BY <3>1, <3>2, <3>3 DEF Landed
  <2>4. ASSUME NEW e \in Deliveries
        PROVE  /\ calls'[e].at \in Holding =>
                    receipt'.state \in Kept /\ calls'[e].text = receipt'.generated
               /\ calls'[e].at \in Landing => Rows("reply")' # {}
    <3> HIDE DEF phase
    <3>1. CASE e # d
      BY <1>2, <1>6, <2>2, <3>1 DEF TextHeld
    <3>2. CASE e = d
      BY <1>2, <2>1, <2>3, <3>2
    <3> QED
      BY <3>1, <3>2
  <2>5. receipt'.state \in Decided =>
          Rows("reply")' # {} /\ receipt'.response = receipt'.generated
    BY <1>6, <2>2 DEF TextHeld
  <2> QED
    BY <2>1, <2>2, <2>4, <2>5 DEF TextHeld
<1> QED
  BY <1>4, <1>5, <1>6 DEF ReplyInv

\* The commit, by the drive and by the recovery.
LEMMA CommitsReply ==
  ASSUME TurnInv, ReplyInv, NEW d \in Deliveries, NEW next \in {"committed", "closing"},
         NEW raises \in BOOLEAN, calls[d].at \in Landing,
         Updates(d, Uncommitted,
                 [receipt EXCEPT !.state = "committed", !.response = calls[d].text], next, raises),
         UNCHANGED <<thread, abandoned>>
  PROVE  ReplyInv'
<1> DEFINE changed == [receipt EXCEPT !.state = "committed", !.response = calls[d].text]
<1>1. PICK phase \in {"failing", "committed", "closing"} : Goes(d, phase)
  BY UpdateGoes
<1>2. /\ calls'[d].at = phase
      /\ calls'[d].version = calls[d].version /\ calls'[d].text = calls[d].text
      /\ \A e \in Deliveries : e # d => calls'[e] = calls[e]
  BY <1>1, CallGoes DEF TurnInv, Phases
<1>3. phase \in Phases /\ phase \notin Away \cup Fresh \cup Holding \cup Landing /\ calls[d].at \notin Away
  BY PhasesApart DEF Phases
<1>4. Rows("reply")' = Rows("reply")
  BY DEF Rows
<1>5. CASE ~Fenced(d, Uncommitted)
  <2>1. receipt' = receipt
    BY <1>5 DEF Updates
  <2>2. QuietRow
    BY <1>4, <2>1 DEF QuietRow
  <2>3. QuietCall(d)
    BY <1>2, <1>3, QuietMove
  <2> QED
    BY <1>2, <2>2, <2>3, QuietKeeps DEF QuietCall
<1>6. CASE Fenced(d, Uncommitted)
  <2>1. receipt' = changed /\ receipt.version = calls[d].version
    BY <1>6 DEF Updates, Fenced
  <2>2. /\ receipt'.state = "committed" /\ receipt'.response = calls[d].text
        /\ receipt'.version = receipt.version /\ receipt'.generated = receipt.generated
    BY <2>1 DEF TurnInv, Typed, ReceiptType
  <2>3. OwnVersion' /\ FreshSound'
    <3>1. Retains(d)
      BY <1>2, <1>3 DEF Retains
    <3> QED
      BY <1>2, <1>3, <2>1, <2>2, <3>1, OwnMove
  <2>4. ASSUME TextHeld PROVE TextHeld'
    <3>1. Rows("reply") # {} /\ calls[d].text = receipt.generated
      BY <2>4, PhasesApart DEF TextHeld
    <3>2. ASSUME NEW e \in Deliveries
          PROVE  /\ calls'[e].at \in Holding =>
                      receipt'.state \in Kept /\ calls'[e].text = receipt'.generated
                 /\ calls'[e].at \in Landing => Rows("reply")' # {}
      <4>1. CASE e # d
        BY <1>2, <1>4, <2>2, <2>4, <4>1 DEF TextHeld, Kept, Decided
      <4>2. CASE e = d
        BY <1>2, <1>3, <4>2
      <4> QED
        BY <4>1, <4>2
    <3>3. \A i \in Rows("reply")' : thread'[i].text = receipt'.generated
      BY <1>4, <2>2, <2>4 DEF TextHeld
    <3> QED
      BY <1>4, <2>2, <3>1, <3>2, <3>3 DEF TextHeld, Kept, Decided
  <2> QED
    BY <2>3, <2>4 DEF ReplyInv
<1> QED
  BY <1>5, <1>6

LEMMA CloseReply ==
  ASSUME TurnInv, ReplyInv, NEW d \in Deliveries, NEW received \in BOOLEAN, Close(d, received)
  PROVE  ReplyInv'
<1>1. /\ receipt' = IF Fenced(d, {"committed"}) THEN [receipt EXCEPT !.state = "completed"] ELSE receipt
      /\ calls[d].at = "closing" /\ Answer(d, calls[d].text, received)
      /\ UNCHANGED <<thread, abandoned>>
  BY DEF Close, At
<1>2. /\ calls'[d].at \in Away /\ calls'[d].version = 0
      /\ \A e \in Deliveries : e # d => calls'[e] = calls[e]
  BY <1>1, CallAnswers DEF TurnInv, Away
<1>3. Rows("reply")' = Rows("reply")
  BY <1>1 DEF Rows
<1>4. CASE ~Fenced(d, {"committed"})
  <2>1. QuietRow
    BY <1>1, <1>3, <1>4 DEF QuietRow
  <2> QED
    BY <1>2, <2>1, QuietEnd, QuietKeeps DEF QuietCall
<1>5. CASE Fenced(d, {"committed"})
  <2>1. /\ receipt'.state = "completed" /\ receipt.state = "committed"
        /\ receipt'.version = receipt.version /\ receipt.version = calls[d].version
        /\ receipt'.generated = receipt.generated /\ receipt'.response = receipt.response
    BY <1>1, <1>5 DEF Fenced, TurnInv, Typed, ReceiptType
  <2>2. OwnVersion' /\ FreshSound'
    <3>1. Retains(d) /\ calls[d].at \notin Away /\ calls'[d].at \notin Fresh
      BY <1>1, <1>2 DEF Retains, Away, Fresh
    <3> QED
      BY <1>2, <2>1, <3>1, OwnMove
  <2>3. ASSUME TextHeld PROVE TextHeld'
    <3>1. receipt'.state \in Kept /\ receipt.state \in Decided
      BY <2>1 DEF Kept, Decided
    <3>2. calls'[d].at \notin Holding \cup Landing
      BY <1>2, PhasesApart
    <3> QED
      BY <1>1, <1>2, <1>3, <2>1, <2>3, <3>1, <3>2 DEF TextHeld
  <2> QED
    BY <1>1, <2>2, <2>3 DEF ReplyInv
<1> QED
  BY <1>4, <1>5

\* The row gives up the turn under the version of a call that is over then: if
\* nothing was checkpointed, nothing is held.
LEMMA GivesUpReply ==
  ASSUME TurnInv, ReplyInv, NEW d \in Deliveries, calls[d].at \notin Away,
         calls[d].version = receipt.version, receipt'.version = receipt.version,
         receipt'.state \in {"retryable", "terminal"},
         calls'[d].at \in Away, calls'[d].version = 0,
         \A e \in Deliveries : e # d => calls'[e] = calls[e],
         thread' = thread, abandoned' \/ (abandoned' = abandoned /\ receipt.state \notin Kept)
  PROVE  ReplyInv'
<1>1. OwnVersion' /\ FreshSound'
  <2>1. Retains(d) /\ calls'[d].at \notin Fresh
    BY PhasesApart DEF Retains
  <2> QED
    BY <2>1, OwnMove
<1>2. CASE abandoned'
  BY <1>1, <1>2 DEF ReplyInv
<1>3. ASSUME TextHeld, receipt.state \notin Kept PROVE TextHeld'
  <2>1. Rows("reply")' = {} /\ \A e \in Deliveries : calls'[e].at \notin Holding \cup Landing
    BY <1>3, NoneHeld, PhasesApart DEF Rows
  <2>2. receipt'.state \notin Decided
    BY PhasesApart
  <2> QED
    BY <2>1, <2>2 DEF TextHeld
<1> QED
  BY <1>1, <1>2, <1>3 DEF ReplyInv

LEMMA RefuseReply ==
  ASSUME TurnInv, ReplyInv, NEW d \in Deliveries, NEW received \in BOOLEAN, Refuse(d, received)
  PROVE  ReplyInv'
<1>1. calls[d].at \in {"claimed", "loaded", "persisted"} /\ UNCHANGED <<thread, abandoned>>
  BY DEF Refuse
<1>2. calls[d].at \in Fresh /\ calls[d].at \notin Away
  BY <1>1 DEF Fresh, Away
<1>3. CASE Fenced(d, Uncommitted)
  <2>1. /\ receipt' = [receipt EXCEPT !.state = "terminal", !.live = FALSE]
        /\ Answer(d, Refused, received) /\ calls[d].version = receipt.version
    BY <1>3 DEF Refuse, Fenced
  <2>2. receipt'.state = "terminal" /\ receipt'.version = receipt.version
    BY <2>1 DEF TurnInv, Typed, ReceiptType
  <2>3. /\ calls'[d].at \in Away /\ calls'[d].version = 0
        /\ \A e \in Deliveries : e # d => calls'[e] = calls[e]
    BY <2>1, CallAnswers DEF TurnInv, Away
  <2>4. receipt.state \notin Kept
    BY <1>2, <2>1, PhasesApart DEF ReplyInv, FreshSound
  <2> QED
    BY <1>1, <1>2, <2>1, <2>2, <2>3, <2>4, GivesUpReply
<1>4. CASE ~Fenced(d, Uncommitted)
  <2>1. Goes(d, "ousted") /\ receipt' = receipt
    BY <1>4 DEF Refuse
  <2>2. QuietRow
    BY <1>1, <2>1 DEF QuietRow, Rows
  <2>3. /\ calls'[d].at = "ousted" /\ calls'[d].version = calls[d].version
        /\ \A e \in Deliveries : e # d => calls'[e] = calls[e]
    BY <2>1, CallGoes DEF TurnInv, Phases
  <2>4. QuietCall(d)
    BY <1>2, <2>3 DEF QuietCall, Retains, Away, Fresh, Holding, Landing
  <2> QED
    BY <2>2, <2>3, <2>4, QuietKeeps DEF QuietCall
<1> QED
  BY <1>3, <1>4

LEMMA FailRetryableReply ==
  ASSUME TurnInv, ReplyInv, NEW d \in Deliveries, FailRetryable(d)
  PROVE  ReplyInv'
<1>1. calls[d].at = "failing" /\ Ends(d) /\ UNCHANGED thread
  BY DEF FailRetryable, At
<1>2. /\ calls'[d].at \in Away /\ calls'[d].version = 0 /\ calls[d].at \notin Away
      /\ \A e \in Deliveries : e # d => calls'[e] = calls[e]
  BY <1>1, CallEnds DEF TurnInv, Idle, Away
<1>3. CASE Fenced(d, Uncommitted)
  <2>1. /\ receipt' = [receipt EXCEPT !.state = "retryable", !.live = FALSE]
        /\ abandoned' = (abandoned \/ receipt.state = "generated")
        /\ calls[d].version = receipt.version /\ receipt.state \in Uncommitted
    BY <1>3 DEF FailRetryable, Fenced
  <2>2. receipt'.state = "retryable" /\ receipt'.version = receipt.version
    BY <2>1 DEF TurnInv, Typed, ReceiptType
  <2>3. abandoned' \/ (abandoned' = abandoned /\ receipt.state \notin Kept)
    BY <2>1 DEF Uncommitted, Kept, Decided, TurnInv, Typed
  <2> QED
    BY <1>1, <1>2, <2>1, <2>2, <2>3, GivesUpReply
<1>4. CASE ~Fenced(d, Uncommitted)
  <2>1. QuietRow
    BY <1>1, <1>4 DEF FailRetryable, QuietRow, Rows
  <2> QED
    BY <1>2, <2>1, QuietEnd, QuietKeeps DEF QuietCall
<1> QED
  BY <1>3, <1>4
\* The steps that leave all of this alone.
LEMMA QuietSteps ==
  ASSUME TurnInv, ReplyInv, NEW d \in Deliveries,
         \/ Load(d) \/ FindUser(d) \/ Generate(d) \/ Reread(d) \/ Reload(d)
         \/ \E raises \in BOOLEAN : AppendUser(d, raises) \/ RecordUser(d, raises)
         \/ \E received \in BOOLEAN : Replay(d, received) \/ RespondOusted(d, received)
         \/ Raise(d) \/ Crash(d)
  PROVE  ReplyInv'
<1>1. \A e \in Deliveries : e # d => calls'[e] = calls[e]
  BY CallStepSound, ExternalAssumption
  DEF StepSound, Proceed, Raised, Unheard
<1>2. ASSUME QuietRow, QuietCall(d) PROVE ReplyInv'
  BY <1>1, <1>2, QuietKeeps DEF QuietCall
<1>3. ASSUME receipt' = receipt, thread' = thread, abandoned' = abandoned PROVE QuietRow
  BY <1>3 DEF QuietRow, Rows
<1>4. CASE Load(d)
  <2>1. /\ receipt' \in {receipt, [receipt EXCEPT !.conversation = TRUE]}
        /\ calls[d].at = "claimed" /\ UNCHANGED <<thread, abandoned>>
        /\ \E phase \in {"loaded", "failing"} :
             calls' = [calls EXCEPT ![d].at = phase, ![d].pos = Len(thread)]
    BY <1>4 DEF Load, At
  <2>2. QuietRow
    BY <2>1 DEF QuietRow, Rows, TurnInv, Typed, ReceiptType
  <2>3. PICK phase \in {"loaded", "failing"} :
          calls' = [calls EXCEPT ![d].at = phase, ![d].pos = Len(thread)]
    BY <2>1
  <2>4. calls'[d].at = phase /\ calls'[d].version = calls[d].version
    BY <2>3 DEF TurnInv, Typed, CallType
  <2>5. QuietCall(d)
    BY <2>1, <2>4 DEF QuietCall, Retains, Away, Fresh, Holding, Landing
  <2> QED
    BY <1>2, <2>2, <2>5
<1>5. CASE FindUser(d)
  <2>1. Goes(d, "persisted") /\ calls[d].at = "loaded" /\ UNCHANGED <<receipt, thread, abandoned>>
    BY <1>5 DEF FindUser, At
  <2>2. calls'[d].at = "persisted" /\ calls'[d].version = calls[d].version
    BY <2>1, CallGoes DEF TurnInv, Phases, Driving
  <2>3. QuietCall(d)
    BY <2>1, <2>2 DEF QuietCall, Retains, Away, Fresh, Holding, Landing
  <2> QED
    BY <1>2, <1>3, <2>1, <2>3
<1>6. ASSUME NEW raises \in BOOLEAN, AppendUser(d, raises) PROVE ReplyInv'
  <2>1. /\ thread' = Appended("user", calls[d].text, calls[d].pos)
        /\ calls[d].at = "loaded" /\ UNCHANGED <<receipt, abandoned>>
        /\ \E phase \in {"recording", "failing"}, pos \in Nat :
             calls' = [calls EXCEPT ![d].at = phase, ![d].pos = pos]
    <3>1. Appends(d, "user", "recording", raises)
      BY <1>6 DEF AppendUser
    <3>2. Behind("user", calls[d].pos) \in Nat
      BY AppendTyped, CallFields
    <3> QED
      BY <1>6, <3>1, <3>2, CallFields DEF AppendUser, Appends, At
  <2>2. QuietRow
    <3>1. Rows("reply")' = Rows("reply") /\ \A i \in Rows("reply") : thread'[i] = thread[i]
      <4>1. CASE thread' = thread
        BY <4>1 DEF Rows
      <4>2. CASE thread' # thread
        BY <2>1, <4>2, OwnAppend, CallFields DEF Own
      <4> QED
        BY <4>1, <4>2
    <3> QED
      BY <2>1, <3>1 DEF QuietRow
  <2>3. PICK phase \in {"recording", "failing"}, pos \in Nat :
          calls' = [calls EXCEPT ![d].at = phase, ![d].pos = pos]
    BY <2>1
  <2>4. calls'[d].at = phase /\ calls'[d].version = calls[d].version
    BY <2>3 DEF TurnInv, Typed, CallType
  <2>5. QuietCall(d)
    BY <2>1, <2>4 DEF QuietCall, Retains, Away, Fresh, Holding, Landing
  <2> QED
    BY <1>2, <2>2, <2>5
<1>7. ASSUME NEW raises \in BOOLEAN, RecordUser(d, raises) PROVE ReplyInv'
  <2>1. /\ Updates(d, {"processing"}, [receipt EXCEPT !.user = TRUE], "persisted", raises)
        /\ calls[d].at = "recording" /\ UNCHANGED <<thread, abandoned>>
    BY <1>7 DEF RecordUser, At
  <2>2. receipt' \in {receipt, [receipt EXCEPT !.user = TRUE]}
        /\ \E phase \in {"persisted", "failing"} : Goes(d, phase)
    BY <2>1, UpdateGoes
  <2>3. QuietRow
    BY <2>1, <2>2 DEF QuietRow, Rows, TurnInv, Typed, ReceiptType
  <2>4. PICK phase \in {"persisted", "failing"} : Goes(d, phase)
    BY <2>2
  <2>5. calls'[d].at = phase /\ calls'[d].version = calls[d].version
    BY <2>4, CallGoes DEF TurnInv, Phases, Driving
  <2>6. QuietCall(d)
    BY <2>1, <2>5 DEF QuietCall, Retains, Away, Fresh, Holding, Landing
  <2> QED
    BY <1>2, <2>3, <2>6
<1>8. CASE Generate(d)
  <2>1. calls[d].at = "persisted" /\ UNCHANGED <<receipt, thread, abandoned>>
    BY <1>8 DEF Generate, At
  <2>2. calls'[d].at \in {"made", "failing"} /\ calls'[d].version = calls[d].version
    BY <1>8 DEF Generate, Goes, TurnInv, Typed, CallType
  <2>3. QuietCall(d)
    BY <2>1, <2>2 DEF QuietCall, Retains, Away, Fresh, Holding, Landing
  <2> QED
    BY <1>2, <1>3, <2>1, <2>3
<1>9. CASE Reread(d)
  <2>1. calls[d].at = "committed" /\ UNCHANGED <<receipt, thread, abandoned>>
    BY <1>9 DEF Reread, At
  <2>2. CASE receipt.state = "committed"
    <3>1. calls'[d].at = "closing" /\ calls'[d].version = calls[d].version
      BY <1>9, <2>2 DEF Reread, TurnInv, Typed, CallType
    <3>2. QuietCall(d)
      BY <2>1, <3>1 DEF QuietCall, Retains, Away, Fresh, Holding, Landing
    <3> QED
      BY <1>2, <1>3, <2>1, <3>2
  <2>3. CASE receipt.state # "committed"
    <3>1. calls'[d] = Idle
      BY <1>9, <2>3, CallEnds DEF Reread, TurnInv
    <3> QED
      BY <1>2, <1>3, <2>1, <3>1, QuietEnd DEF Idle, Away
  <2> QED
    BY <2>2, <2>3
<1>10. CASE Reload(d)
  <2>1. /\ calls[d].at = "recover" /\ UNCHANGED <<receipt, thread, abandoned>>
        /\ calls' = [calls EXCEPT ![d].at = "reloaded", ![d].pos = Len(thread)]
    BY <1>10 DEF Reload, At
  <2>2. /\ calls'[d].at = "reloaded" /\ calls'[d].version = calls[d].version
        /\ calls'[d].text = calls[d].text
    BY <2>1 DEF TurnInv, Typed, CallType
  <2>3. QuietCall(d)
    BY <2>1, <2>2 DEF QuietCall, Retains, Away, Fresh, Holding, Landing
  <2> QED
    BY <1>2, <1>3, <2>1, <2>3
<1>11. ASSUME NEW received \in BOOLEAN, Replay(d, received) \/ RespondOusted(d, received)
       PROVE  ReplyInv'
  <2>1. UNCHANGED <<receipt, thread, abandoned>>
    BY <1>11 DEF Replay, RespondOusted
  <2>2. Ends(d) \/ \E what : Answer(d, what, received)
    BY <1>11 DEF Replay, RespondOusted
  <2>3. calls'[d].at \in Away /\ calls'[d].version = 0
    BY <2>2, CallEnds, CallAnswers DEF TurnInv, Idle, Away
  <2> QED
    BY <1>2, <1>3, <2>1, <2>3, QuietEnd
<1>12. CASE Raise(d)
  <2>1. /\ calls[d].at \in Driving \cup {"recover"} /\ Goes(d, "failing")
        /\ UNCHANGED <<receipt, thread, abandoned>>
    BY <1>12 DEF Raise
  <2>2. calls'[d].at = "failing" /\ calls'[d].version = calls[d].version
    BY <2>1, CallGoes DEF TurnInv, Phases
  <2>3. QuietCall(d)
    BY <2>1, <2>2 DEF QuietCall, Retains, Away, Fresh, Holding, Landing, Driving
  <2> QED
    BY <1>2, <1>3, <2>1, <2>3
<1>13. CASE Crash(d)
  <2>1. UNCHANGED <<receipt, thread, abandoned>> /\ calls'[d] = Idle
    BY <1>13, CallEnds DEF Crash, TurnInv
  <2> QED
    BY <1>2, <1>3, <2>1, QuietEnd DEF Idle, Away
<1> QED
  BY <1>4, <1>5, <1>6, <1>7, <1>8, <1>9, <1>10, <1>11, <1>12, <1>13

LEMMA QuietEnvironment ==
  ASSUME TurnInv, ReplyInv, Expire \/ Lapse \/ OtherAppends \/ UNCHANGED vars
  PROVE  ReplyInv'
<1>1. calls' = calls /\ abandoned' = abandoned
  BY DEF Expire, Lapse, OtherAppends, vars
<1>2. QuietRow
  <2>1. CASE OtherAppends
    <3> DEFINE m == [from |-> "other", text |-> 0]
    <3>1. m \in Message /\ m.from = "other" /\ thread \in Seq(Message)
      BY DEF Message, TurnInv, Typed
    <3>2. thread' = Append(thread, m) /\ receipt' = receipt
      BY <2>1 DEF OtherAppends
    <3> HIDE DEF m
    <3>3. Rows("reply")' = Rows("reply") /\ \A i \in Rows("reply") : thread'[i] = thread[i]
      BY <3>1, <3>2, RowsAppended
    <3> QED
      BY <1>1, <3>2, <3>3 DEF QuietRow
  <2>2. CASE Expire \/ Lapse
    BY <1>1, <2>2 DEF Expire, Lapse, QuietRow, Rows, TurnInv, Typed, ReceiptType
  <2>3. CASE UNCHANGED vars
    BY <1>1, <2>3 DEF vars, QuietRow, Rows
  <2> QED
    BY <2>1, <2>2, <2>3
<1> QED
  BY <1>1, <1>2, QuietKeeps DEF QuietCall

LEMMA ReplyInvKept ==
  ASSUME TurnInv, ReplyInv, [Next]_vars
  PROVE  ReplyInv'
<1>1. ASSUME NEW d \in Deliveries, Proceed(d) \/ Refuse(d, TRUE) \/ Raised(d) \/ Unheard(d)
      PROVE  ReplyInv'
  <2>1. CASE \E raises \in BOOLEAN : AppendReply(d, raises)
    BY <2>1, AppendsReply DEF AppendReply, At, Landing
  <2>2. CASE Reappend(d)
    BY <2>2, AppendsReply DEF Reappend, At, Landing
  <2>3. CASE \E raises \in BOOLEAN : Commit(d, raises)
    BY <2>3, CommitsReply DEF Commit, At, Landing
  <2>4. CASE Recommit(d)
    BY <2>4, CommitsReply DEF Recommit, At, Landing
  <2> QED
    BY <1>1, <2>1, <2>2, <2>3, <2>4, ClaimReply, CheckpointReply, CloseReply, RefuseReply,
       FailRetryableReply, QuietSteps
    DEF Proceed, Raised, Unheard
<1> QED
  BY <1>1, QuietEnvironment DEF Next

\* The reply that the channel is told is the one in the conversation, and a
\* refused turn has left none there, unless an attempt failed behind its
\* checkpoint: for any number of deliveries, takeovers and recoveries.
THEOREM ReplyTold == Spec => []ReplyExplained
<1>1. Init => ReplyInv
  <2> SUFFICES ASSUME Init PROVE ReplyInv
    OBVIOUS
  <2>1. \A d \in Deliveries : calls[d].at = "idle" /\ calls[d].version = 0
    BY DEF Init, Idle
  <2>2. Rows("reply") = {} /\ receipt.state = "absent"
    BY DEF Init, Rows
  <2> QED
    BY <2>1, <2>2
    DEF ReplyInv, OwnVersion, FreshSound, TextHeld, Away, Fresh, Holding, Landing, Decided
<1>2. ReplyInv => ReplyExplained
  <2> SUFFICES ASSUME TextHeld PROVE ReplyStands
    BY DEF ReplyInv, ReplyExplained
  <2>1. receipt.state \in Decided => \E i \in Rows("reply") : thread[i].text = receipt.response
    BY DEF TextHeld
  <2>2. receipt.state = "terminal" => Rows("reply") = {}
    BY PhasesApart DEF TextHeld
  <2> QED
    BY <2>1, <2>2 DEF ReplyStands, Decided
<1> QED
  BY <1>1, <1>2, ReplyInvKept, TurnInvariant, PTL DEF Spec
=============================================================================
