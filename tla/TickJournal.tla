----------------------------- MODULE TickJournal -----------------------------
(***************************************************************************)
(* The mirror of the shadow soak: the embedded scheduler journals, bucket   *)
(* by bucket, what each of its ticks processes, and the elected coordinator *)
(* copies the earliest bucket behind a durable cursor into the job queue,   *)
(* row by row, and then moves the cursor.                                   *)
(*                                                                         *)
(* Of the queue only the rows ever inserted are kept: a refused key is      *)
(* active, hence was inserted before.                                       *)
(***************************************************************************)
EXTENDS CoordinatorLease, FiniteSetsExt

CONSTANTS Characters,
          Social,     \* the bucket's social row, written last: its marker
          MaxBucket   \* bound on the buckets of a run

ASSUME JournalAssumption == Social \notin Characters /\ MaxBucket \in Nat \ {0}

VARIABLES journal,  \* the rows of scheduler_tick_journal
          bucket,   \* the bucket of the scheduler's present tick
          late,     \* rows that came when their bucket had its marker already
          queued,   \* the rows inserted into the queue
          cursor,   \* last_bucket, 0 before the first
          mirror    \* where each coordinator's pass is

journalVars == <<journal, bucket, late>>
mirrorVars == <<queued, cursor, mirror>>
vars == <<leaseVars, journalVars, mirrorVars>>

JournalRows == [bucket : 1..MaxBucket, who : Characters \cup {Social}]
Row(b, who) == [bucket |-> b, who |-> who]

Passes ==
  [at : {"idle", "led", "row", "check"}, bucket : 0..MaxBucket,
   rest : SUBSET (Characters \cup {Social}),
   read : Ages]  \* the age of its last reading of the clock
Idle == [at |-> "idle", bucket |-> 0, rest |-> {}, read |-> 0]

\* A pass is under way only in a process that holds itself leader.
MirrorTypeOK ==
  /\ LeaseTypeOK
  /\ journal \subseteq JournalRows /\ late \subseteq journal
  /\ bucket \in 1..MaxBucket /\ cursor \in 0..bucket
  /\ queued \subseteq journal
  /\ mirror \in [Procs -> Passes]
  /\ \A p \in Procs : mirror[p].at # "idle" => belief[p] # 0 /\ ~losing[p]

Init ==
  /\ LeaseInit
  /\ journal = {} /\ late = {} /\ bucket = 1
  /\ queued = {} /\ cursor = 0
  /\ mirror = [p \in Procs |-> Idle]
-----------------------------------------------------------------------------
(* The scheduler *)

Marked(b) == Row(b, Social) \in journal

\* The rows of a tick are committed at once or one by one, and then a failure
\* may keep the marker from being written.
Record(characters, marks) ==
  /\ LET new == {Row(bucket, who) : who \in characters \cup (IF marks THEN {Social} ELSE {})}
     IN  /\ ~(new \subseteq journal)
         /\ journal' = journal \cup new
         /\ late' = late \cup IF Marked(bucket) THEN new \ journal ELSE {}
  /\ UNCHANGED <<leaseVars, bucket, mirrorVars>>

BucketPasses ==
  /\ bucket < MaxBucket /\ bucket' = bucket + 1
  /\ UNCHANGED <<leaseVars, journal, late, mirrorVars>>
-----------------------------------------------------------------------------
(* The coordinator's pass *)

Between(p) == mirror[p].at = "idle"

\* The lease upkeep at the head of a pass, which goes on in a leader.
Upkeep(p, age, answered) ==
  /\ Between(p)
  /\ \/ /\ AcquireGranted(p, age, answered) \/ Renew(p, age, answered)
        /\ mirror' = [mirror EXCEPT ![p] =
             IF answered THEN [Idle EXCEPT !.at = "led", !.read = age] ELSE Idle]
     \/ /\ AcquireDenied(p, age) \/ RenewRefused(p, age)
        /\ UNCHANGED mirror
  /\ UNCHANGED <<journalVars, queued, cursor>>

\* Mutant of Complete: the marker is not waited for.
CompleteUnmarked(b) == TRUE

\* A partial earliest bucket blocks the later ones.
Complete(b) == Marked(b)

\* The cursor and the earliest bucket behind it are read.
MirrorReads(p) ==
  /\ mirror[p].at = "led"
  /\ LET waiting == {r.bucket : r \in {r \in journal : r.bucket > cursor}} IN
       /\ waiting # {} /\ Complete(Min(waiting))
       /\ mirror' = [mirror EXCEPT ![p] =
            [@ EXCEPT !.at = "row", !.bucket = Min(waiting),
                      !.rest = {r.who : r \in {r \in journal : r.bucket = Min(waiting)}}]]
  /\ UNCHANGED <<leaseVars, journalVars, queued, cursor>>

Leads(p, age) == HeldBy(lease, p, age) /\ lease.epoch = belief[p]

\* A heartbeat between two rows; the reading is the next row's too.
Heartbeat(p, age) ==
  /\ mirror[p].at = "row" /\ mirror[p].rest # {}
  /\ lease.epoch = belief[p] /\ Renew(p, age, TRUE)
  /\ mirror' = [mirror EXCEPT ![p].read = age]
  /\ UNCHANGED <<journalVars, queued, cursor>>

\* enqueue() in the order of kinds, the social row last. The queue refuses a
\* former epoch, and its None is not told from that of an active key.
EnqueueRow(p, who, age) ==
  /\ mirror[p].at = "row" /\ who \in mirror[p].rest
  /\ who = Social => mirror[p].rest = {Social}
  /\ queued' = queued \cup
       {r \in {Row(mirror[p].bucket, who)} : lease.epoch = belief[p] /\ LiveFor(lease.left, age)}
  /\ mirror' = [mirror EXCEPT ![p].at = "check", ![p].rest = @ \ {who}, ![p].read = age]
  /\ UNCHANGED <<leaseVars, journalVars, cursor>>

\* The lease is read again behind each row.
StillLeads(p, age) ==
  /\ mirror[p].at = "check" /\ Leads(p, age)
  /\ mirror' = [mirror EXCEPT ![p].at = "row", ![p].read = age]
  /\ UNCHANGED <<leaseVars, journalVars, queued, cursor>>

\* advance_if_leader
Advance(p, age) ==
  /\ mirror[p].at = "row" /\ mirror[p].rest = {} /\ Leads(p, age)
  /\ cursor' = Max({cursor, mirror[p].bucket})
  /\ mirror' = [mirror EXCEPT ![p] = Idle]
  /\ UNCHANGED <<leaseVars, journalVars, queued>>

\* A heartbeat, a check or the advance finds another leader.
LosesLease(p, age) ==
  /\ mirror[p].at \in {"row", "check"} /\ StepDown(p, age)
  /\ mirror' = [mirror EXCEPT ![p] = Idle]
  /\ UNCHANGED <<journalVars, queued, cursor>>

\* There is no bucket, the earliest one lacks its marker, or a call of the
\* database raises: the pass ends, the epoch is kept.
PassEnds(p) ==
  /\ ~Between(p)
  /\ mirror' = [mirror EXCEPT ![p] = Idle]
  /\ UNCHANGED <<leaseVars, journalVars, queued, cursor>>

\* A process that dies within a pass is not told apart from one that dies
\* behind a pass that raised.
Stops(p) == Between(p) /\ Stop(p) /\ UNCHANGED <<journalVars, mirrorVars>>

Pass(p) ==
  \/ MirrorReads(p) \/ PassEnds(p)
  \/ \E age \in 0..mirror[p].read :
       \/ Heartbeat(p, age)
       \/ \E who \in mirror[p].rest : EnqueueRow(p, who, age)
       \/ StillLeads(p, age) \/ Advance(p, age) \/ LosesLease(p, age)

\* A process never reads an earlier time than it has read.
Time ==
  /\ LeaseTick
  /\ mirror' = [p \in Procs |->
       [mirror[p] EXCEPT !.read = IF Between(p) THEN 0 ELSE Min({@ + 1, MaxAge})]]
  /\ UNCHANGED <<journalVars, queued, cursor>>

Next ==
  \/ \E characters \in SUBSET Characters, marks \in BOOLEAN : Record(characters, marks)
  \/ BucketPasses
  \/ \E p \in Procs :
       \/ \E age \in Ages, answered \in BOOLEAN : Upkeep(p, age, answered)
       \/ Pass(p) \/ Stops(p)
  \/ Time

Spec == Init /\ [][Next]_vars

GoesOn(p) ==
  \/ mirror[p].at = "led" /\ PassEnds(p)
  \/ MirrorReads(p)
  \/ \E who \in mirror[p].rest : EnqueueRow(p, who, 0)
  \/ StillLeads(p, 0) \/ Advance(p, 0) \/ LosesLease(p, 0)

\* The coordinator loop wakes every few seconds, a pass that has begun comes to
\* its end, and a database that answers again and again does not lose every
\* reply.
LiveSpec ==
  /\ Spec
  /\ WF_vars(Time)
  /\ \A p \in Procs :
       /\ WF_vars(Between(p) /\ RenewRefused(p, 0) /\ UNCHANGED <<journalVars, mirrorVars>>)
       /\ SF_vars((Upkeep(p, 0, TRUE) /\ ~losing'[p]) \/ GoesOn(p))
-----------------------------------------------------------------------------
\* The soak compares the queue with the journal: a bucket counts as mirrored, or
\* a later one is begun, only when every row it had when its marker came is in
\* the queue, through takeovers in mid-bucket, refused inserts that look like
\* active keys, lost replies, crashes and partial ticks. A row that a second
\* tick brings to a marked bucket may be missed.
Mirrored(b) == \A r \in journal : r.bucket = b => r \in queued \cup late

MirroredInOrder ==
  /\ \A b \in 1..cursor : Mirrored(b)
  /\ \A r \in queued : \A b \in 1..(r.bucket - 1) : Mirrored(b)
=============================================================================
