--------------------------- MODULE DueChainsProofs ---------------------------
(***************************************************************************)
(* Proofs about a self-continuing chain of due jobs, for any cadence, any   *)
(* instants and any number of rows: what a reconciler's pass may overlook,  *)
(* and what makes a chain fork.                                             *)
(***************************************************************************)
EXTENDS DueChains, FiniteSetTheorems, FunctionTheorems, SequenceTheorems, TLAPS

\* A table of the chain's rows, in which a row that was ever claimed was due.
Begun == Held \cup {"lapsed"}
Sound(table) ==
  /\ table \in Seq(ChainRows)
  /\ \A i \in DOMAIN table : table[i].status \in Begun => table[i].due <= 0

\* The number of rows whose successor is still to be enqueued.
IsHead(row) == row.status \in Active \ {"ended"}
HeadIn(row) == IF IsHead(row) THEN 1 ELSE 0
HeadsOf(table) == {i \in DOMAIN table : IsHead(table[i])}
Count(table) == Cardinality(HeadsOf(table))
Recounted(new, table, i, row) == Count(new) = Count(table) - HeadIn(table[i]) + HeadIn(row)

LEMMA Limits == Multiplier \in Nat /\ Multiplier >= 1 /\ Precise \subseteq 0..Multiplier
  BY ChainAssumption
-----------------------------------------------------------------------------
(* What the steps make of a table *)

LEMMA TableFacts ==
  ASSUME NEW table, table \in Seq(ChainRows)
  PROVE  /\ Len(table) \in Nat /\ DOMAIN table = 1..Len(table)
         /\ table \in [DOMAIN table -> ChainRows]
         /\ \A i \in DOMAIN table : table[i] \in ChainRows
         /\ IsFiniteSet(HeadsOf(table)) /\ Count(table) \in Nat
<1>1. /\ Len(table) \in Nat /\ DOMAIN table = 1..Len(table)
      /\ table \in [1..Len(table) -> ChainRows]
  BY LenProperties
<1>2. HeadsOf(table) \subseteq 1..Len(table) /\ IsFiniteSet(1..Len(table))
  BY <1>1, FS_Interval DEF HeadsOf
<1>3. IsFiniteSet(HeadsOf(table))
  BY <1>2, FS_Subset
<1> QED BY <1>1, <1>3, FS_CardinalityType DEF Count

\* Any function on 1..n is a sequence.
LEMMA TableIs ==
  ASSUME NEW n \in Nat, NEW table \in [1..n -> ChainRows]
  PROVE  table \in Seq(ChainRows) /\ Len(table) = n
<1>1. table \in Seq(ChainRows)
  BY SeqDef
<1>2. DOMAIN table = 1..Len(table) /\ Len(table) \in Nat
  BY <1>1, LenProperties
<1> QED BY <1>1, <1>2

LEMMA RowReplaced ==
  ASSUME NEW table, Sound(table), NEW i \in DOMAIN table, NEW row \in ChainRows,
         row.status \in Begun => row.due <= 0, NEW new, new = [table EXCEPT ![i] = row]
  PROVE  /\ Sound(new) /\ DOMAIN new = DOMAIN table
         /\ new[i] = row /\ \A j \in DOMAIN table \ {i} : new[j] = table[j]
         /\ Recounted(new, table, i, row)
<1>1. /\ Len(table) \in Nat /\ DOMAIN table = 1..Len(table)
      /\ table \in [DOMAIN table -> ChainRows]
      /\ IsFiniteSet(HeadsOf(table)) /\ Count(table) \in Nat
  BY TableFacts DEF Sound
<1>2. /\ new \in [1..Len(table) -> ChainRows] /\ DOMAIN new = DOMAIN table
      /\ new[i] = row /\ \A j \in DOMAIN table \ {i} : new[j] = table[j]
  BY <1>1
<1>3. Sound(new)
  BY <1>1, <1>2, TableIs DEF Sound
<1>4. HeadsOf(new) = (HeadsOf(table) \ {i}) \cup (IF IsHead(row) THEN {i} ELSE {})
  BY <1>2 DEF HeadsOf
<1>5. /\ IsFiniteSet(HeadsOf(table) \ {i})
      /\ Cardinality(HeadsOf(table) \ {i}) =
           Count(table) - HeadIn(table[i])
  <2>1. i \in HeadsOf(table) <=> IsHead(table[i])
    BY DEF HeadsOf
  <2> QED BY <1>1, <2>1, FS_RemoveElement DEF Count, HeadIn
<1>6. CASE IsHead(row)
  <2>1. i \notin HeadsOf(table) \ {i}
    OBVIOUS
  <2>2. Cardinality((HeadsOf(table) \ {i}) \cup {i}) = Cardinality(HeadsOf(table) \ {i}) + 1
    BY <1>5, <2>1, FS_AddElement
  <2> QED BY <1>2, <1>3, <1>4, <1>5, <1>6, <2>2 DEF Count, HeadIn, Recounted
<1>7. CASE ~IsHead(row)
  <2>1. HeadsOf(new) = HeadsOf(table) \ {i}
    BY <1>4, <1>7
  <2>2. Count(new) = Cardinality(HeadsOf(table) \ {i})
    BY <2>1 DEF Count
  <2> QED BY <1>1, <1>2, <1>3, <1>5, <1>7, <2>2 DEF HeadIn, Recounted
<1> QED BY <1>6, <1>7

LEMMA RowAppended ==
  ASSUME NEW table, Sound(table), NEW row \in ChainRows, row.status = "queued",
         NEW new, new = Append(table, row)
  PROVE  /\ Sound(new) /\ DOMAIN new = 1..(Len(table) + 1)
         /\ \A j \in DOMAIN table : j \in DOMAIN new /\ new[j] = table[j]
         /\ new[Len(table) + 1] = row
         /\ Count(new) = Count(table) + 1
<1>1. /\ Len(table) \in Nat /\ DOMAIN table = 1..Len(table)
      /\ IsFiniteSet(HeadsOf(table)) /\ Count(table) \in Nat
  BY TableFacts DEF Sound
<1>2. /\ new \in Seq(ChainRows) /\ Len(new) = Len(table) + 1
      /\ \A j \in 1..Len(table) : new[j] = table[j]
      /\ new[Len(table) + 1] = row
  BY DEF Sound
<1>3. DOMAIN new = 1..(Len(table) + 1)
  BY <1>2, LenProperties
<1>4. Sound(new)
  <2> SUFFICES ASSUME NEW j \in DOMAIN new, new[j].status \in Begun PROVE new[j].due <= 0
    BY <1>2 DEF Sound
  <2>1. j # Len(table) + 1
    BY <1>2 DEF Begun, Held
  <2> QED BY <1>1, <1>2, <1>3, <2>1 DEF Sound
<1>5. HeadsOf(new) = HeadsOf(table) \cup {Len(table) + 1}
  <2>1. IsHead(new[Len(table) + 1])
    BY <1>2 DEF IsHead, Active
  <2> QED BY <1>1, <1>2, <1>3, <2>1 DEF HeadsOf
<1>6. Len(table) + 1 \notin HeadsOf(table)
  BY <1>1 DEF HeadsOf
<1>7. Count(new) = Count(table) + 1
  BY <1>1, <1>5, <1>6, FS_AddElement DEF Count
<1> QED BY <1>1, <1>2, <1>3, <1>4, <1>7

\* Statuses are kept and no row becomes due later.
LEMMA RowsMapped ==
  ASSUME NEW table, Sound(table), NEW new \in [DOMAIN table -> ChainRows],
         \A i \in DOMAIN table : new[i].status = table[i].status /\ new[i].due <= table[i].due
  PROVE  Sound(new) /\ DOMAIN new = DOMAIN table /\ Count(new) = Count(table)
<1>1. /\ Len(table) \in Nat /\ DOMAIN table = 1..Len(table)
      /\ \A i \in DOMAIN table : table[i] \in ChainRows
  BY TableFacts DEF Sound
<1>2. new \in Seq(ChainRows) /\ DOMAIN new = DOMAIN table
  BY <1>1, TableIs
<1>3. \A i \in DOMAIN table : table[i].due \in Int /\ new[i].due \in Int
  BY <1>1, Limits DEF ChainRows, Dues
<1>4. Sound(new)
  BY <1>2, <1>3 DEF Sound
<1>5. HeadsOf(new) = HeadsOf(table)
  BY <1>2 DEF HeadsOf, IsHead
<1> QED BY <1>2, <1>4, <1>5 DEF Count

LEMMA RowRemoved ==
  ASSUME Sound(rows), NEW i \in DOMAIN rows, NEW new, new = Without(i)
  PROVE  /\ Sound(new) /\ Count(new) <= Count(rows)
         /\ \A j \in DOMAIN new : \E k \in DOMAIN rows : new[j] = rows[k]
<1> DEFINE place(j) == IF j < i THEN j ELSE j + 1
<1>1. /\ Len(rows) \in Nat /\ DOMAIN rows = 1..Len(rows)
      /\ \A k \in DOMAIN rows : rows[k] \in ChainRows
      /\ IsFiniteSet(HeadsOf(rows)) /\ Count(rows) \in Nat
  BY TableFacts DEF Sound
<1>2. \A j \in 1..(Len(rows) - 1) : place(j) \in DOMAIN rows
  BY <1>1
<1>3. new = [j \in 1..(Len(rows) - 1) |-> rows[place(j)]]
  BY DEF Without
<1>4. new \in [1..(Len(rows) - 1) -> ChainRows] /\ Len(rows) - 1 \in Nat
  BY <1>1, <1>2, <1>3
<1>5. new \in Seq(ChainRows)
  BY <1>4, TableIs
<1>6. DOMAIN new = 1..(Len(rows) - 1) /\ \A j \in DOMAIN new : new[j] = rows[place(j)]
  BY <1>3
<1>7. Sound(new)
  BY <1>2, <1>5, <1>6 DEF Sound
<1> DEFINE f == [j \in HeadsOf(new) |-> place(j)]
<1>8. f \in Injection(HeadsOf(new), HeadsOf(rows))
  <2>1. \A j \in HeadsOf(new) : j \in Int /\ place(j) \in HeadsOf(rows)
    BY <1>2, <1>6 DEF HeadsOf
  <2>2. \A j, k \in HeadsOf(new) : place(j) = place(k) => j = k
    BY <1>1, <2>1
  <2>3. f \in [HeadsOf(new) -> HeadsOf(rows)]
    BY <2>1
  <2>4. \A j, k \in HeadsOf(new) : f[j] = f[k] => j = k
    BY <2>2
  <2> QED BY <2>3, <2>4, Fun_IsInj
<1> HIDE DEF f
<1>9. Count(new) <= Count(rows)
  BY <1>1, <1>8, FS_Injection DEF Count
<1> QED BY <1>2, <1>6, <1>7, <1>9

\* enqueue() adds one row at most.
LEMMA RowEnqueued ==
  ASSUME Sound(rows), NEW due \in -1..Multiplier, NEW cur \in BOOLEAN, NEW committed \in BOOLEAN,
         NEW new, new = Enqueued(due, cur, committed)
  PROVE  /\ Sound(new) /\ Count(new) <= Count(rows) + 1 /\ Count(new) \in Nat
         /\ \A j \in DOMAIN rows : j \in DOMAIN new /\ new[j] = rows[j]
         /\ \A j \in DOMAIN new \ DOMAIN rows : ~new[j].kept
         /\ ~committed => new = rows
<1> DEFINE row == [status |-> "queued", win |-> due, due |-> due, cur |-> cur, kept |-> FALSE]
           appended == Append(rows, row)
<1>1. row \in ChainRows /\ row.status = "queued" /\ ~row.kept
  BY Limits DEF ChainRows, Dues, Active
<1>2. Count(rows) \in Nat /\ Len(rows) \in Nat /\ DOMAIN rows = 1..Len(rows)
  BY TableFacts DEF Sound
<1>3. CASE new = appended /\ committed
  <2> HIDE DEF row
  <2>1. /\ Sound(appended) /\ DOMAIN appended = 1..(Len(rows) + 1)
        /\ \A j \in DOMAIN rows : j \in DOMAIN appended /\ appended[j] = rows[j]
        /\ appended[Len(rows) + 1] = row /\ Count(appended) = Count(rows) + 1
    <3>1. row \in ChainRows /\ row.status = "queued"
      BY <1>1
    <3> QED BY <3>1, RowAppended, Zenon
  <2> HIDE DEF appended
  <2>2. \A j \in DOMAIN appended \ DOMAIN rows : j = Len(rows) + 1
    BY <1>2, <2>1
  <2>3. \A j \in DOMAIN appended \ DOMAIN rows : ~appended[j].kept
    BY <1>1, <2>1, <2>2
  <2>4. Count(appended) <= Count(rows) + 1 /\ Count(appended) \in Nat
    BY <1>2, <2>1
  <2> QED BY <1>3, <2>1, <2>3, <2>4
<1>4. CASE new = rows
  BY <1>2, <1>4
<1> QED BY <1>3, <1>4 DEF Enqueued
-----------------------------------------------------------------------------
(* The inductive invariant *)

\* The one claim that may lapse leaves at most one body behind.
LostSound ==
  /\ lost \subseteq LostRuns /\ (lost # {} => "lapse" \in used)
  /\ \A r \in lost : r.due <= 0
  /\ \A r, s \in lost : r = s

\* The pass under way has seen no row of the chain.
Unseen == rec.at # "idle" /\ ~rec.seen

\* A row that a pass has not seen was dead when it began, and is dead or gone by its
\* second read.
PassSound ==
  /\ rec.at = "idle" => \A i \in DOMAIN rows : ~rows[i].kept
  /\ Unseen /\ rec.at = "reading" => \A i \in DOMAIN rows : rows[i].kept => rows[i].status = "dead"
  /\ Unseen /\ rec.at = "listing" => \A i \in DOMAIN rows : ~rows[i].kept

\* The ends a chain may have beside its own, and those it has or may get: a body
\* without its claim is still to enqueue a successor, and a pass that has seen no
\* row may be about to.
Forks(faults) == (IF "lapse" \in faults THEN 1 ELSE 0) + (IF "redrive" \in faults THEN 1 ELSE 0)
Strays(bodies) == IF bodies = {} THEN 0 ELSE 1
Ends(table, bodies) == Count(table) + Strays(bodies)

EndsBounded == Ends(rows, lost) <= Forks(used) + (IF Unseen THEN 0 ELSE 1)

ChainInv ==
  /\ Sound(rows) /\ LostSound
  /\ rec \in Passes /\ frozen \in BOOLEAN /\ led \in BOOLEAN /\ used \subseteq Faults
  /\ PassSound /\ EndsBounded

-----------------------------------------------------------------------------
(* The steps of a row and of a body that lost its claim *)

\* What a pass may find later it has seen before, and a dead row stays dead for it.
KeptBefore(new) ==
  \A i \in DOMAIN new :
    new[i].kept => \E j \in DOMAIN rows :
                     rows[j].kept /\ (rows[j].status = "dead" => new[i].status = "dead")

LEMMA StepSound ==
  ASSUME ChainInv, Sound(rows'), KeptBefore(rows'), LostSound',
         rec' \in Passes, rec'.at = rec.at, rec'.seen = rec.seen,
         frozen' \in BOOLEAN, led' \in BOOLEAN, used' \subseteq Faults,
         Ends(rows', lost') - Forks(used') <= Ends(rows, lost) - Forks(used)
  PROVE  ChainInv'
<1>1. Unseen' <=> Unseen
  BY DEF Unseen
<1>2. PassSound'
  BY <1>1 DEF ChainInv, PassSound, KeptBefore
<1>3. /\ Ends(rows, lost) \in Int /\ Ends(rows', lost') \in Int
      /\ Forks(used) \in Int /\ Forks(used') \in Int
  <2>1. Count(rows) \in Nat /\ Count(rows') \in Nat
    BY TableFacts DEF ChainInv, Sound
  <2> QED BY <2>1 DEF Ends, Forks, Strays
<1>4. EndsBounded'
  <2>1. CASE Unseen
    <3>1. Ends(rows, lost) <= Forks(used)
      BY <1>3, <2>1 DEF ChainInv, EndsBounded
    <3>2. Ends(rows', lost') <= Forks(used')
      BY <1>3, <3>1
    <3>3. Unseen'
      BY <1>1, <2>1
    <3> QED BY <1>3, <3>2, <3>3 DEF EndsBounded
  <2>2. CASE ~Unseen
    <3>1. Ends(rows, lost) <= Forks(used) + 1
      BY <1>3, <2>2 DEF ChainInv, EndsBounded
    <3>2. Ends(rows', lost') <= Forks(used') + 1
      BY <1>3, <3>1
    <3>3. ~Unseen'
      BY <1>1, <2>2
    <3> QED BY <1>3, <3>2, <3>3 DEF EndsBounded
  <2> QED BY <2>1, <2>2
<1> QED BY <1>2, <1>4 DEF ChainInv

\* One row changes.
LEMMA RowStepSound ==
  ASSUME ChainInv, NEW i \in DOMAIN rows, NEW row \in ChainRows,
         rows' = [rows EXCEPT ![i] = row], UNCHANGED <<rec, frozen, led>>,
         row.status \in Begun => row.due <= 0,
         row.kept => rows[i].kept /\ (rows[i].status = "dead" => row.status = "dead"),
         LostSound', used' \subseteq Faults,
         HeadIn(row) + Strays(lost') - Forks(used')
           <= HeadIn(rows[i]) + Strays(lost) - Forks(used)
  PROVE  ChainInv'
<1>1. Sound(rows) /\ Count(rows) \in Nat
  BY TableFacts DEF ChainInv, Sound
<1>2. /\ Sound(rows') /\ DOMAIN rows' = DOMAIN rows
      /\ rows'[i] = row /\ \A j \in DOMAIN rows \ {i} : rows'[j] = rows[j]
      /\ Count(rows') = Count(rows) - HeadIn(rows[i]) + HeadIn(row)
  <2>1. Sound(rows)
    BY <1>1
  <2>2. Sound(rows')
    BY <2>1, RowReplaced, Zenon
  <2>3. DOMAIN rows' = DOMAIN rows
    BY <2>1, RowReplaced, Zenon
  <2>4. rows'[i] = row
    BY <2>1, RowReplaced, Zenon
  <2>5. \A j \in DOMAIN rows \ {i} : rows'[j] = rows[j]
    BY <2>1, RowReplaced, Zenon
  <2>6. Recounted(rows', rows, i, row)
    BY <2>1, RowReplaced, Zenon
  <2> QED BY <2>2, <2>3, <2>4, <2>5, <2>6 DEF Recounted
<1>3. KeptBefore(rows')
  BY <1>2 DEF KeptBefore
<1>4. Ends(rows', lost') - Forks(used') <= Ends(rows, lost) - Forks(used)
  BY <1>1, <1>2 DEF Ends, Strays, Forks, HeadIn
<1> QED BY <1>2, <1>3, <1>4, StepSound DEF ChainInv

\* The same of a step that leaves the rest alone and gives no row a successor to
\* enqueue that had none.
LEMMA RowOnlySound ==
  ASSUME ChainInv, NEW i \in DOMAIN rows, NEW row \in ChainRows,
         rows' = [rows EXCEPT ![i] = row], UNCHANGED <<lost, rec, frozen, led, used>>,
         row.status \in Begun => row.due <= 0,
         row.kept => rows[i].kept /\ (rows[i].status = "dead" => row.status = "dead"),
         IsHead(row) => IsHead(rows[i])
  PROVE  ChainInv'
<1>1. LostSound' /\ used' \subseteq Faults
  BY DEF ChainInv, LostSound
<1>2. HeadIn(row) + Strays(lost') - Forks(used')
           <= HeadIn(rows[i]) + Strays(lost) - Forks(used)
  BY DEF HeadIn, Strays, Forks
<1> QED BY <1>1, <1>2, RowStepSound

\* A row whose status alone changes.
LEMMA StatusChanged ==
  ASSUME ChainInv, NEW i \in DOMAIN rows, NEW status \in Active \cup {"dead"},
         NEW row, row = [rows[i] EXCEPT !.status = status]
  PROVE  /\ row \in ChainRows /\ row.status = status
         /\ row.due = rows[i].due /\ row.kept = rows[i].kept
         /\ (Becomes(i, status) => rows' = [rows EXCEPT ![i] = row])
<1>1. rows[i] \in ChainRows
  BY TableFacts DEF ChainInv, Sound
<1>2. row \in ChainRows /\ row.status = status /\ row.due = rows[i].due /\ row.kept = rows[i].kept
  BY <1>1 DEF ChainRows
<1>3. Becomes(i, status) => rows' = [rows EXCEPT ![i] = row]
  BY DEF Becomes
<1> QED BY <1>2, <1>3

LEMMA ClaimSound ==
  ASSUME ChainInv, NEW i \in DOMAIN rows,
         Claim(i) \/ Bury(i) \/ Begin(i) \/ FailDead(i)
  PROVE  ChainInv'
<1>0. /\ rows[i].status \in Begun => rows[i].due <= 0
      /\ UNCHANGED <<lost, rec, frozen, led, used>>
  BY DEF ChainInv, Sound, Claim, Bury, Begin, FailDead
<1> DEFINE new(status) == [rows[i] EXCEPT !.status = status]
<1>1. ASSUME NEW status \in Active \cup {"dead"}, Becomes(i, status),
             rows[i].status \notin {"dead", "ended"},
             status \in Begun => rows[i].due <= 0
      PROVE  ChainInv'
  <2>1. /\ new(status) \in ChainRows /\ new(status).status = status
        /\ new(status).due = rows[i].due /\ new(status).kept = rows[i].kept
        /\ rows' = [rows EXCEPT ![i] = new(status)]
    BY <1>1, StatusChanged
  <2>2. IsHead(rows[i])
    BY <1>1, TableFacts DEF IsHead, ChainInv, Sound, ChainRows
  <2> HIDE DEF new
  <2> QED BY <1>0, <1>1, <2>1, <2>2, RowOnlySound
<1>2. CASE Claim(i)
  BY <1>0, <1>1, <1>2 DEF Claim, Claimable, Active, Held, Begun
<1>3. CASE Bury(i) \/ FailDead(i)
  BY <1>1, <1>3 DEF Bury, FailDead, MayFail, Begun, Held
<1>4. CASE Begin(i)
  <2>1. Entered \in {"stepping", "ended"}
    BY DEF Entered
  <2> QED BY <1>0, <1>1, <1>4, <2>1 DEF Begin, Begun, Held, Active
<1> QED BY <1>2, <1>3, <1>4

\* What holds of the table and of its row i while the invariant does.
LEMMA RowFacts ==
  ASSUME ChainInv, NEW i \in DOMAIN rows
  PROVE  /\ Sound(rows) /\ Count(rows) \in Nat
         /\ rows[i] \in ChainRows
         /\ rows[i].due \in Int /\ (rows[i].status \in Begun => rows[i].due <= 0)
         /\ \A r \in lost : r \in LostRuns /\ r.due \in Int /\ r.due <= 0
<1>1. Sound(rows) /\ LostSound
  BY DEF ChainInv
<1>2. Count(rows) \in Nat /\ \A j \in DOMAIN rows : rows[j] \in ChainRows
  BY <1>1, TableFacts DEF Sound
<1>3. rows[i].due \in Int /\ \A r \in lost : r \in LostRuns /\ r.due \in Int
  BY <1>1, <1>2, Limits DEF LostSound, ChainRows, LostRuns, Dues
<1> QED BY <1>1, <1>2, <1>3 DEF Sound, LostSound

LEMMA FaultCounted ==
  ASSUME ChainInv, NEW kind \in Faults, Fault(kind)
  PROVE  /\ used' = used \cup {kind} /\ used' \subseteq Faults
         /\ Forks(used') = Forks(used) + (IF kind \in {"lapse", "redrive"} THEN 1 ELSE 0)
  BY DEF ChainInv, Fault, Forks, Faults

LEMMA RetrySound ==
  ASSUME ChainInv, NEW i \in DOMAIN rows, NEW delay \in 0..1, Retry(i, delay)
  PROVE  ChainInv'
<1> DEFINE row == [rows[i] EXCEPT !.status = "queued", !.due = delay]
<1>1. rows[i] \in ChainRows /\ rows[i].status = "stepping"
  BY RowFacts DEF Retry, MayFail
<1>2. /\ row \in ChainRows /\ row.status = "queued" /\ row.kept = rows[i].kept
  <2>1. delay \in Dues
    BY Limits DEF Dues
  <2> QED BY <1>1, <2>1 DEF ChainRows, Active
<1>3. rows' = [rows EXCEPT ![i] = row] /\ UNCHANGED <<lost, rec, frozen, led>>
  BY DEF Retry
<1>4. used' = used \cup {"retry"} /\ used' \subseteq Faults /\ Forks(used') = Forks(used)
  BY FaultCounted DEF Retry, Faults, Fault, Forks
<1>5. LostSound'
  BY <1>3, <1>4 DEF ChainInv, LostSound
<1> HIDE DEF row
<1>6. HeadIn(row) = 1 /\ HeadIn(rows[i]) = 1
  BY <1>1, <1>2 DEF HeadIn, IsHead, Active, Held
<1>7. HeadIn(row) + Strays(lost') - Forks(used') <= HeadIn(rows[i]) + Strays(lost) - Forks(used)
  BY <1>3, <1>4, <1>6 DEF Strays, Forks
<1> QED BY <1>1, <1>2, <1>3, <1>4, <1>5, <1>7, RowStepSound DEF Begun, Held

LEMMA RedriveSound ==
  ASSUME ChainInv, NEW i \in DOMAIN rows, Redrive(i)
  PROVE  ChainInv'
<1> DEFINE row == [rows[i] EXCEPT !.status = "queued", !.kept = FALSE]
<1>1. rows[i] \in ChainRows /\ rows[i].status = "dead"
  BY RowFacts DEF Redrive
<1>2. row \in ChainRows /\ row.status = "queued" /\ ~row.kept
  BY <1>1 DEF ChainRows, Active
<1>3. rows' = [rows EXCEPT ![i] = row] /\ UNCHANGED <<lost, rec, frozen, led>>
  BY DEF Redrive
<1>4. used' = used \cup {"redrive"} /\ used' \subseteq Faults /\ Forks(used') = Forks(used) + 1
  BY FaultCounted DEF Redrive, Faults
<1>5. LostSound'
  BY <1>3, <1>4 DEF ChainInv, LostSound
<1> HIDE DEF row
<1>6. HeadIn(row) = 1 /\ HeadIn(rows[i]) = 0
  BY <1>1, <1>2 DEF HeadIn, IsHead, Active, Held
<1>7. HeadIn(row) + Strays(lost') - Forks(used') <= HeadIn(rows[i]) + Strays(lost) - Forks(used)
  BY <1>3, <1>4, <1>6 DEF Strays, Forks
<1> QED BY <1>1, <1>2, <1>3, <1>4, <1>5, <1>7, RowStepSound DEF Begun, Held

LEMMA LapseSound ==
  ASSUME ChainInv, NEW i \in DOMAIN rows, NEW dies \in BOOLEAN, Lapse(i, dies)
  PROVE  ChainInv'
<1> DEFINE row == [rows[i] EXCEPT !.status = "lapsed"]
           body == [status |-> rows[i].status, due |-> rows[i].due, cur |-> rows[i].cur]
<1>1. /\ rows[i] \in ChainRows /\ rows[i].status \in Held /\ rows[i].due <= 0
      /\ Becomes(i, "lapsed") /\ UNCHANGED <<rec, frozen, led>>
  BY RowFacts DEF Lapse, Begun
<1>2. /\ row \in ChainRows /\ row.status = "lapsed"
      /\ row.due = rows[i].due /\ row.kept = rows[i].kept
      /\ rows' = [rows EXCEPT ![i] = row]
  <2>1. "lapsed" \in Active \cup {"dead"}
    BY DEF Active
  <2> QED BY <1>1, <2>1, StatusChanged
<1>3. used' = used \cup {"lapse"} /\ used' \subseteq Faults /\ Forks(used') = Forks(used) + 1
  BY FaultCounted DEF Lapse, Faults
<1>4. lost = {}
  BY DEF ChainInv, LostSound, Lapse, Fault
<1>5. rows[i].status # "ended" => body \in LostRuns /\ body.due <= 0
  BY <1>1 DEF ChainRows, LostRuns, Held
<1>6. lost' = {} \/ (rows[i].status # "ended" /\ lost' = {body})
  BY <1>4 DEF Lapse
<1> HIDE DEF row, body
<1>7. LostSound'
  BY <1>3, <1>5, <1>6 DEF LostSound
<1>8. HeadIn(row) = 1 /\ HeadIn(rows[i]) = IF rows[i].status = "ended" THEN 0 ELSE 1
  BY <1>1, <1>2 DEF HeadIn, IsHead, Active, Held
<1>9. HeadIn(row) + Strays(lost') - Forks(used') <= HeadIn(rows[i]) + Strays(lost) - Forks(used)
  BY <1>3, <1>4, <1>6, <1>8 DEF Strays, Forks
<1> QED BY <1>1, <1>2, <1>3, <1>7, <1>9, RowStepSound DEF Held

LEMMA RemovalSound ==
  ASSUME ChainInv, NEW i \in DOMAIN rows, Complete(i) \/ Prune(i)
  PROVE  ChainInv'
<1>1. rows' = Without(i) /\ UNCHANGED <<lost, rec, frozen, led, used>>
  BY DEF Complete, Prune
<1>2. Sound(rows) /\ Count(rows) \in Nat
  BY RowFacts
<1>3. /\ Sound(rows') /\ Count(rows') <= Count(rows)
      /\ \A j \in DOMAIN rows' : \E k \in DOMAIN rows : rows'[j] = rows[k]
  BY <1>1, <1>2, RowRemoved
<1>4. KeptBefore(rows')
  BY <1>3 DEF KeptBefore
<1>5. LostSound'
  BY <1>1 DEF ChainInv, LostSound
<1>6. Count(rows') \in Nat
  BY <1>3, TableFacts DEF Sound
<1>7. Ends(rows', lost') - Forks(used') <= Ends(rows, lost) - Forks(used)
  BY <1>1, <1>2, <1>3, <1>6 DEF Ends, Strays, Forks
<1> QED BY <1>1, <1>3, <1>4, <1>5, <1>7, StepSound DEF ChainInv

\* The successor's key and instant lie in the present window or after it.
LEMMA NextDuesAhead ==
  ASSUME NEW due \in Int, due <= 0
  PROVE  NextDues(due) \subseteq -1..Multiplier
<1>1. CadenceDue(due) \subseteq 0..Multiplier
  BY Limits DEF CadenceDue
<1>2. Precise \subseteq 0..Multiplier
  BY Limits
<1>3. 0..Multiplier \subseteq -1..Multiplier
  <2> SUFFICES ASSUME NEW n \in 0..Multiplier PROVE n \in -1..Multiplier
    OBVIOUS
  <2> QED BY Limits
<1> QED BY <1>1, <1>2, <1>3, Zenon DEF NextDues

LEMMA AdvanceSound ==
  ASSUME ChainInv, NEW i \in DOMAIN rows, NEW due \in NextDues(rows[i].due),
         NEW dormant \in BOOLEAN, NEW committed \in BOOLEAN, Advance(i, due, dormant, committed)
  PROVE  ChainInv'
<1> DEFINE after == Enqueued(due, rows[i].cur, ~dormant /\ committed)
           row == [rows[i] EXCEPT !.status = "ended"]
<1>1. /\ Sound(rows) /\ Count(rows) \in Nat /\ rows[i] \in ChainRows
      /\ rows[i].status = "stepping" /\ rows[i].due \in Int /\ rows[i].due <= 0
      /\ UNCHANGED <<lost, rec, frozen, led, used>>
  BY RowFacts DEF Advance, Begun, Held
<1>2. due \in -1..Multiplier /\ rows[i].cur \in BOOLEAN /\ (~dormant /\ committed) \in BOOLEAN
  BY <1>1, NextDuesAhead DEF ChainRows
<1>3. /\ Sound(after) /\ Count(after) <= Count(rows) + 1 /\ Count(after) \in Nat
      /\ \A j \in DOMAIN rows : j \in DOMAIN after /\ after[j] = rows[j]
      /\ \A j \in DOMAIN after \ DOMAIN rows : ~after[j].kept
  BY <1>1, <1>2, RowEnqueued
<1>4. /\ row \in ChainRows /\ row.status = "ended" /\ row.due <= 0 /\ row.kept = rows[i].kept
  BY <1>1 DEF ChainRows, Active, Held
<1>5. rows' = [after EXCEPT ![i] = row]
  BY <1>3 DEF Advance
<1> HIDE DEF after, row
<1>6. /\ Sound(rows') /\ DOMAIN rows' = DOMAIN after /\ rows'[i] = row
      /\ \A j \in DOMAIN after \ {i} : rows'[j] = after[j]
      /\ Recounted(rows', after, i, row)
  <2>1. Sound(after) /\ i \in DOMAIN after /\ row \in ChainRows
        /\ (row.status \in Begun => row.due <= 0)
    BY <1>3, <1>4
  <2>2. Sound(rows')
    BY <1>5, <2>1, RowReplaced, Zenon
  <2>3. DOMAIN rows' = DOMAIN after
    BY <1>5, <2>1, RowReplaced, Zenon
  <2>4. rows'[i] = row
    BY <1>5, <2>1, RowReplaced, Zenon
  <2>5. \A j \in DOMAIN after \ {i} : rows'[j] = after[j]
    BY <1>5, <2>1, RowReplaced, Zenon
  <2>6. Recounted(rows', after, i, row)
    BY <1>5, <2>1, RowReplaced, Zenon
  <2> QED BY <2>2, <2>3, <2>4, <2>5, <2>6
<1>7. KeptBefore(rows')
  BY <1>1, <1>3, <1>4, <1>6 DEF KeptBefore
<1>8. Count(rows') <= Count(rows) /\ Count(rows') \in Nat
  <2>1. HeadIn(after[i]) = 1 /\ HeadIn(row) = 0
    BY <1>1, <1>3, <1>4 DEF HeadIn, IsHead, Active, Held
  <2>2. Count(rows') \in Nat
    BY <1>6, TableFacts DEF Sound
  <2> QED BY <1>1, <1>3, <1>6, <2>1, <2>2 DEF Recounted
<1>9. LostSound'
  BY <1>1 DEF ChainInv, LostSound
<1>10. Ends(rows', lost') - Forks(used') <= Ends(rows, lost) - Forks(used)
  BY <1>1, <1>8 DEF Ends, Strays, Forks
<1> QED BY <1>1, <1>6, <1>7, <1>9, <1>10, StepSound DEF ChainInv

\* The table is left as it is.
LEMMA SameTable ==
  ASSUME ChainInv, rows' = rows
  PROVE  Sound(rows') /\ KeptBefore(rows')
  BY DEF ChainInv, KeptBefore

LEMMA LostStepSound ==
  ASSUME ChainInv, NEW r \in lost, LostStep(r)
  PROVE  ChainInv'
<1>1. /\ lost = {r} /\ r \in LostRuns /\ r.due \in Int /\ r.due <= 0 /\ "lapse" \in used
      /\ Sound(rows) /\ Count(rows) \in Nat
  <2>1. Sound(rows) /\ r \in LostRuns
    BY DEF ChainInv, LostSound
  <2>2. Count(rows) \in Nat /\ r.due \in Int
    BY <2>1, TableFacts, Limits DEF Sound, LostRuns, Dues
  <2> QED BY <2>1, <2>2 DEF ChainInv, LostSound
<1>2. CASE LostBegins(r)
  <2>1. UNCHANGED <<rows, rec, frozen, led, used>>
    BY <1>2 DEF LostBegins
  <2>2. lost' = {} \/ lost' = {[r EXCEPT !.status = "stepping"]}
    BY <1>1, <1>2 DEF LostBegins, Entered
  <2>3. LostSound'
    BY <1>1, <2>1, <2>2 DEF LostSound, LostRuns
  <2>4. Strays(lost') <= Strays(lost) /\ Strays(lost) \in Nat /\ Strays(lost') \in Nat
    BY <1>1 DEF Strays
  <2>5. Ends(rows', lost') - Forks(used') <= Ends(rows, lost) - Forks(used)
    BY <1>1, <2>1, <2>4 DEF Ends, Forks
  <2> QED BY <2>1, <2>3, <2>5, SameTable, StepSound DEF ChainInv
<1>3. ASSUME NEW due \in NextDues(r.due), NEW committed \in BOOLEAN, LostAdvances(r, due, committed)
      PROVE  ChainInv'
  <2>1. /\ rows' = Enqueued(due, r.cur, committed) /\ lost' = {}
        /\ UNCHANGED <<rec, frozen, led, used>>
    BY <1>1, <1>3 DEF LostAdvances
  <2>2. due \in -1..Multiplier /\ r.cur \in BOOLEAN
    BY <1>1, NextDuesAhead DEF LostRuns
  <2>3. /\ Sound(rows') /\ Count(rows') <= Count(rows) + 1 /\ Count(rows') \in Nat
        /\ \A j \in DOMAIN rows : j \in DOMAIN rows' /\ rows'[j] = rows[j]
        /\ \A j \in DOMAIN rows' \ DOMAIN rows : ~rows'[j].kept
    BY <1>1, <2>1, <2>2, RowEnqueued
  <2>4. KeptBefore(rows')
    BY <2>3 DEF KeptBefore
  <2>5. LostSound'
    BY <1>1, <2>1 DEF LostSound
  <2>6. Ends(rows', lost') - Forks(used') <= Ends(rows, lost) - Forks(used)
    BY <1>1, <2>1, <2>3 DEF Ends, Strays, Forks
  <2> QED BY <2>1, <2>3, <2>4, <2>5, <2>6, StepSound DEF ChainInv
<1> QED BY <1>2, <1>3 DEF LostStep

LEMMA RowStepKept ==
  ASSUME ChainInv, NEW i \in DOMAIN rows, RowStep(i)
  PROVE  ChainInv'
  BY ClaimSound, RemovalSound, RedriveSound, RetrySound, AdvanceSound, LapseSound DEF RowStep
-----------------------------------------------------------------------------
(* The steps of the reconciler *)

\* A pass ends: its reads are forgotten.
LEMMA PassForgotten ==
  ASSUME ChainInv, NEW table, Sound(table), rows' = Unkept(table), rec' = NoPass,
         UNCHANGED <<lost, frozen, led, used>>,
         Count(table) <= Count(rows) + (IF Unseen THEN 1 ELSE 0)
  PROVE  ChainInv'
<1>1. /\ Count(rows) \in Nat /\ Count(table) \in Nat
      /\ \A i \in DOMAIN table : table[i] \in ChainRows /\ table[i].due \in Int
  <2>1. /\ Count(rows) \in Nat /\ Count(table) \in Nat
        /\ \A i \in DOMAIN table : table[i] \in ChainRows
    BY TableFacts DEF ChainInv, Sound
  <2> QED BY <2>1, Limits DEF ChainRows, Dues
<1>2. /\ rows' \in [DOMAIN table -> ChainRows]
      /\ \A i \in DOMAIN table :
           /\ rows'[i].status = table[i].status /\ rows'[i].due <= table[i].due
           /\ ~rows'[i].kept
  <2> DEFINE row(i) == [table[i] EXCEPT !.kept = FALSE]
  <2>1. \A i \in DOMAIN table :
          /\ row(i) \in ChainRows /\ ~row(i).kept
          /\ row(i).status = table[i].status /\ row(i).due <= table[i].due
    <3> SUFFICES ASSUME NEW i \in DOMAIN table
                 PROVE  /\ row(i) \in ChainRows /\ ~row(i).kept
                        /\ row(i).status = table[i].status /\ row(i).due <= table[i].due
      OBVIOUS
    <3>1. /\ row(i) \in ChainRows /\ ~row(i).kept
          /\ row(i).status = table[i].status /\ row(i).due = table[i].due
      BY <1>1 DEF ChainRows
    <3> QED BY <1>1, <3>1
  <2>2. rows' = [i \in DOMAIN table |-> row(i)]
    BY DEF Unkept
  <2> HIDE DEF row
  <2> QED BY <2>1, <2>2
<1>3. Sound(rows') /\ DOMAIN rows' = DOMAIN table /\ Count(rows') = Count(table)
  BY <1>2, RowsMapped
<1>4. LostSound' /\ rec' \in Passes /\ ~Unseen' /\ rec'.at = "idle"
  BY DEF ChainInv, LostSound, Passes, NoPass, Unseen
<1>5. PassSound'
  BY <1>2, <1>3, <1>4 DEF PassSound
<1>6. EndsBounded'
  <2>1. Ends(rows, lost) <= Forks(used) + (IF Unseen THEN 0 ELSE 1)
    BY DEF ChainInv, EndsBounded
  <2>2. Ends(rows', lost') <= Forks(used') + 1
    BY <1>1, <1>3, <2>1 DEF Ends, Strays, Forks
  <2> QED BY <1>4, <2>2 DEF EndsBounded
<1> QED BY <1>3, <1>4, <1>5, <1>6 DEF ChainInv

\* A pass that sees no row finds a chain without an end of its own.
LEMMA FirstReadSound ==
  ASSUME ChainInv, FirstRead
  PROVE  ChainInv'
<1>1. /\ Sound(rows) /\ Count(rows) \in Nat
      /\ DOMAIN rows = 1..Len(rows)
      /\ \A i \in DOMAIN rows : rows[i] \in ChainRows /\ rows[i].due \in Int
  <2>1. /\ Sound(rows) /\ Count(rows) \in Nat /\ DOMAIN rows = 1..Len(rows)
        /\ \A i \in DOMAIN rows : rows[i] \in ChainRows
    BY TableFacts DEF ChainInv, Sound
  <2> QED BY <2>1, Limits DEF ChainRows, Dues
<1>2. /\ rows' \in [DOMAIN rows -> ChainRows]
      /\ \A i \in DOMAIN rows :
           rows'[i].status = rows[i].status /\ rows'[i].due <= rows[i].due
  <2> DEFINE row(i) == [rows[i] EXCEPT !.kept = TRUE]
  <2>1. \A i \in DOMAIN rows :
          /\ row(i) \in ChainRows
          /\ row(i).status = rows[i].status /\ row(i).due <= rows[i].due
    <3> SUFFICES ASSUME NEW i \in DOMAIN rows
                 PROVE  /\ row(i) \in ChainRows
                        /\ row(i).status = rows[i].status /\ row(i).due <= rows[i].due
      OBVIOUS
    <3>1. /\ row(i) \in ChainRows
          /\ row(i).status = rows[i].status /\ row(i).due = rows[i].due
      BY <1>1 DEF ChainRows
    <3> QED BY <1>1, <3>1
  <2>2. rows' = [i \in DOMAIN rows |-> row(i)]
    BY DEF FirstRead, Kept
  <2> HIDE DEF row
  <2> QED BY <2>1, <2>2
<1>3. Sound(rows') /\ DOMAIN rows' = DOMAIN rows /\ Count(rows') = Count(rows)
  BY <1>1, <1>2, RowsMapped
<1>4. /\ rec' \in Passes /\ rec'.at = "reading" /\ rec.at = "idle"
      /\ rec'.seen <=> In(Active) # {}
      /\ UNCHANGED <<lost, frozen, led, used>>
  BY DEF FirstRead, ReadOrder, Passes
<1>5. LostSound'
  BY <1>4 DEF ChainInv, LostSound
<1>6. Unseen' => \A i \in DOMAIN rows : rows[i].status = "dead"
  BY <1>1, <1>4 DEF Unseen, In, ChainRows
<1>7. PassSound'
  BY <1>2, <1>3, <1>4, <1>6 DEF PassSound
<1>8. EndsBounded'
  <2>1. CASE Unseen'
    <3>1. HeadsOf(rows') = {}
      BY <1>2, <1>3, <1>6, <2>1 DEF HeadsOf, IsHead, Active, Held
    <3>2. Count(rows') = 0
      BY <3>1, FS_EmptySet DEF Count
    <3>3. Ends(rows', lost') <= Forks(used')
      BY <3>2, <1>5 DEF Ends, Strays, Forks, LostSound
    <3> QED BY <2>1, <3>3 DEF EndsBounded, Forks
  <2>2. CASE ~Unseen'
    <3>1. Ends(rows, lost) <= Forks(used) + 1
      BY <1>4 DEF ChainInv, EndsBounded, Unseen
    <3>2. Ends(rows', lost') <= Forks(used') + 1
      BY <1>3, <1>4, <3>1 DEF Ends
    <3> QED BY <2>2, <3>2 DEF EndsBounded
  <2> QED BY <2>1, <2>2
<1> QED BY <1>3, <1>4, <1>5, <1>7, <1>8 DEF ChainInv

LEMMA SecondReadSound ==
  ASSUME ChainInv, SecondRead
  PROVE  ChainInv'
<1>1. /\ rec' \in Passes /\ rec'.at = "listing" /\ rec.at = "reading"
      /\ rec'.seen <=> (rec.seen \/ In({"dead"}) # {})
      /\ UNCHANGED <<rows, lost, frozen, led, used>>
  BY DEF ChainInv, SecondRead, ReadOrder, Passes
<1>2. Sound(rows') /\ LostSound'
  BY <1>1 DEF ChainInv, LostSound
<1>3. Unseen' => Unseen /\ In({"dead"}) = {}
  BY <1>1 DEF Unseen
<1>4. PassSound'
  BY <1>1, <1>3 DEF ChainInv, PassSound, In, Unseen
<1>5. EndsBounded'
  <2>1. /\ Ends(rows', lost') = Ends(rows, lost) /\ Forks(used') = Forks(used)
        /\ Ends(rows, lost) \in Int /\ Forks(used) \in Int
    <3>1. Count(rows) \in Nat
      BY TableFacts DEF ChainInv, Sound
    <3> QED BY <1>1, <3>1 DEF Ends, Strays, Forks
  <2>2. CASE Unseen'
    <3>1. Ends(rows, lost) <= Forks(used)
      BY <1>3, <2>1, <2>2 DEF ChainInv, EndsBounded
    <3> QED BY <2>1, <2>2, <3>1 DEF EndsBounded
  <2>3. CASE ~Unseen'
    <3>1. Ends(rows, lost) <= Forks(used) + 1
      BY <2>1 DEF ChainInv, EndsBounded
    <3> QED BY <2>1, <2>3, <3>1 DEF EndsBounded
  <2> QED BY <2>2, <2>3
<1> QED BY <1>1, <1>2, <1>4, <1>5 DEF ChainInv

LEMMA SeedSound ==
  ASSUME ChainInv, NEW jitter \in 0..1, NEW committed \in BOOLEAN, Seed(jitter, committed)
  PROVE  ChainInv'
<1> DEFINE due == IF rec.late THEN jitter - 1 ELSE jitter
           seeds == ~rec.seen /\ ~frozen /\ committed
           table == Enqueued(due, rec.cur, seeds)
<1>1. /\ rows' = Unkept(table) /\ rec' = NoPass /\ rec.at = "listing"
      /\ UNCHANGED <<lost, frozen, led, used>>
  BY DEF Seed
<1>2. /\ Sound(rows) /\ Count(rows) \in Nat
      /\ due \in -1..Multiplier /\ rec.cur \in BOOLEAN /\ seeds \in BOOLEAN
  BY TableFacts, Limits DEF ChainInv, Sound, Passes
<1> HIDE DEF due
<1>3. Sound(table) /\ Count(table) <= Count(rows) + 1 /\ (~seeds => table = rows)
  BY <1>2, RowEnqueued
<1>4. seeds => Unseen
  BY <1>1 DEF Unseen
<1> HIDE DEF table, seeds
<1>5. Count(table) <= Count(rows) + (IF Unseen THEN 1 ELSE 0)
  BY <1>2, <1>3, <1>4
<1> QED BY <1>1, <1>3, <1>5, PassForgotten

LEMMA ReconcileSound ==
  ASSUME ChainInv, Reconcile
  PROVE  ChainInv'
<1>1. CASE PassEnds
  <2>1. Sound(rows) /\ Count(rows) \in Nat
    BY TableFacts DEF ChainInv, Sound
  <2>2. Count(rows) <= Count(rows) + (IF Unseen THEN 1 ELSE 0)
    BY <2>1
  <2> QED BY <1>1, <2>1, <2>2, PassForgotten DEF PassEnds
<1> QED BY <1>1, FirstReadSound, SecondReadSound, SeedSound DEF Reconcile
-----------------------------------------------------------------------------
(* The rest of the world *)

LEMMA FreezeSound ==
  ASSUME ChainInv, Freeze \/ LeaseEnds
  PROVE  ChainInv'
<1>1. /\ UNCHANGED <<rows, lost, rec>> /\ frozen' \in BOOLEAN /\ led' \in BOOLEAN
      /\ used' \subseteq Faults /\ Forks(used') = Forks(used)
      /\ used \subseteq used'
  <2>1. CASE Freeze
    BY <2>1 DEF ChainInv, Freeze
  <2>2. CASE LeaseEnds
    BY <2>2, FaultCounted DEF ChainInv, LeaseEnds, Fault, Faults, Forks
  <2> QED BY <2>1, <2>2
<1>2. LostSound'
  BY <1>1 DEF ChainInv, LostSound
<1>3. Ends(rows', lost') - Forks(used') <= Ends(rows, lost) - Forks(used)
  <2>1. Count(rows) \in Nat
    BY TableFacts DEF ChainInv, Sound
  <2> QED BY <1>1, <2>1 DEF Ends, Strays, Forks
<1> QED BY <1>1, <1>2, <1>3, SameTable, StepSound DEF ChainInv

\* Every row keeps its status and its mark, every body its phase.
LEMMA WorldSound ==
  ASSUME ChainInv, NEW new \in [DOMAIN rows -> ChainRows], rows' = new,
         \A i \in DOMAIN rows :
           /\ new[i].status = rows[i].status /\ new[i].kept = rows[i].kept
           /\ new[i].due <= rows[i].due,
         LostSound', lost' = {} <=> lost = {}, UNCHANGED <<frozen, used>>, led' \in BOOLEAN,
         rec' \in Passes, rec'.at = rec.at, rec'.seen = rec.seen
  PROVE  ChainInv'
<1>1. Sound(rows) /\ Count(rows) \in Nat
  BY TableFacts DEF ChainInv, Sound
<1>2. Sound(rows') /\ DOMAIN rows' = DOMAIN rows /\ Count(rows') = Count(rows)
  BY <1>1, RowsMapped
<1>3. KeptBefore(rows')
  BY <1>2 DEF KeptBefore
<1>4. Ends(rows', lost') - Forks(used') <= Ends(rows, lost) - Forks(used)
  BY <1>1, <1>2 DEF Ends, Strays, Forks
<1> QED BY <1>2, <1>3, <1>4, StepSound DEF ChainInv

LEMMA TakeoverSound ==
  ASSUME ChainInv, Takeover
  PROVE  ChainInv'
<1> DEFINE row(i) == [rows[i] EXCEPT !.cur = FALSE]
<1>1. \A i \in DOMAIN rows :
        /\ row(i) \in ChainRows
        /\ row(i).status = rows[i].status /\ row(i).kept = rows[i].kept
        /\ row(i).due <= rows[i].due
  <2> SUFFICES ASSUME NEW i \in DOMAIN rows
               PROVE  /\ row(i) \in ChainRows
                      /\ row(i).status = rows[i].status /\ row(i).kept = rows[i].kept
                      /\ row(i).due <= rows[i].due
    OBVIOUS
  <2>1. rows[i] \in ChainRows /\ rows[i].due \in Int
    BY RowFacts
  <2>2. /\ row(i) \in ChainRows /\ row(i).status = rows[i].status
        /\ row(i).kept = rows[i].kept /\ row(i).due = rows[i].due
    BY <2>1 DEF ChainRows
  <2> QED BY <2>1, <2>2
<1>2. rows' = [i \in DOMAIN rows |-> row(i)]
  BY DEF Takeover
<1> HIDE DEF row
<1>3. /\ rows' \in [DOMAIN rows -> ChainRows]
      /\ \A i \in DOMAIN rows :
           /\ rows'[i].status = rows[i].status /\ rows'[i].kept = rows[i].kept
           /\ rows'[i].due <= rows[i].due
  BY <1>1, <1>2
<1> DEFINE body(r) == [r EXCEPT !.cur = FALSE]
<1>4. \A r \in lost : body(r) \in LostRuns /\ body(r).due <= 0
  <2>1. \A r \in lost : r \in LostRuns /\ r.due <= 0
    BY DEF ChainInv, LostSound
  <2> QED BY <2>1 DEF LostRuns
<1>5. lost' = {body(r) : r \in lost} /\ used' = used
  BY DEF Takeover
<1> HIDE DEF body
<1>6. LostSound' /\ (lost' = {} <=> lost = {})
  BY <1>4, <1>5 DEF ChainInv, LostSound
<1>7. /\ rec' \in Passes /\ rec'.at = rec.at /\ rec'.seen = rec.seen
      /\ led' \in BOOLEAN /\ UNCHANGED <<frozen, used>>
  BY DEF ChainInv, Takeover, Passes
<1> QED BY <1>3, <1>6, <1>7, WorldSound

LEMMA WindowSound ==
  ASSUME ChainInv, WindowPasses
  PROVE  ChainInv'
<1>1. \A n \in Int : Earlier(n, -1) <= n /\ Earlier(n, -Multiplier) <= n
  BY Limits DEF Earlier
<1>2. \A n \in Dues : Earlier(n, -Multiplier) \in Dues
  BY Limits DEF Earlier, Dues
<1>3. \A n \in -1..Multiplier : Earlier(n, -1) \in -1..Multiplier
  BY Limits DEF Earlier
<1> DEFINE row(i) == [rows[i] EXCEPT !.win = Earlier(@, -1), !.due = Earlier(@, -Multiplier)]
<1>4. \A i \in DOMAIN rows :
        /\ row(i) \in ChainRows
        /\ row(i).status = rows[i].status /\ row(i).kept = rows[i].kept
        /\ row(i).due <= rows[i].due
  <2> SUFFICES ASSUME NEW i \in DOMAIN rows
               PROVE  /\ row(i) \in ChainRows
                      /\ row(i).status = rows[i].status /\ row(i).kept = rows[i].kept
                      /\ row(i).due <= rows[i].due
    OBVIOUS
  <2>1. rows[i] \in ChainRows /\ rows[i].due \in Int
    BY RowFacts
  <2>2. /\ rows[i].due \in Dues /\ rows[i].win \in -1..Multiplier
    BY <2>1 DEF ChainRows
  <2>3. Earlier(rows[i].due, -Multiplier) \in Dues /\ Earlier(rows[i].win, -1) \in -1..Multiplier
    BY <1>2, <1>3, <2>2
  <2>4. Earlier(rows[i].due, -Multiplier) <= rows[i].due
    BY <1>1, <2>1
  <2> QED BY <2>1, <2>3, <2>4 DEF ChainRows
<1>5. rows' = [i \in DOMAIN rows |-> row(i)]
  BY DEF WindowPasses
<1> HIDE DEF row
<1>6. /\ rows' \in [DOMAIN rows -> ChainRows]
      /\ \A i \in DOMAIN rows :
           /\ rows'[i].status = rows[i].status /\ rows'[i].kept = rows[i].kept
           /\ rows'[i].due <= rows[i].due
  BY <1>4, <1>5
<1> DEFINE body(r) == [r EXCEPT !.due = Earlier(@, -Multiplier)]
<1>7. \A r \in lost : body(r) \in LostRuns /\ body(r).due <= 0
  <2> SUFFICES ASSUME NEW r \in lost PROVE body(r) \in LostRuns /\ body(r).due <= 0
    OBVIOUS
  <2>1. r \in LostRuns /\ r.due <= 0
    BY DEF ChainInv, LostSound
  <2>2. r.due \in Dues /\ r.due \in Int
    BY <2>1, Limits DEF LostRuns, Dues
  <2>3. Earlier(r.due, -Multiplier) \in Dues /\ Earlier(r.due, -Multiplier) <= r.due
    BY <1>1, <1>2, <2>2
  <2>4. Earlier(r.due, -Multiplier) \in Int
    BY <2>3, Limits DEF Dues
  <2>5. Earlier(r.due, -Multiplier) <= 0
    BY <2>1, <2>2, <2>3, <2>4
  <2> QED BY <2>1, <2>3, <2>5 DEF LostRuns
<1>8. lost' = {body(r) : r \in lost} /\ used' = used
  BY DEF WindowPasses
<1> HIDE DEF body
<1>9. LostSound' /\ (lost' = {} <=> lost = {})
  BY <1>7, <1>8 DEF ChainInv, LostSound
<1>10. /\ rec' \in Passes /\ rec'.at = rec.at /\ rec'.seen = rec.seen
       /\ led' \in BOOLEAN /\ UNCHANGED <<frozen, used>>
  BY DEF ChainInv, WindowPasses, Passes
<1> QED BY <1>6, <1>9, <1>10, WorldSound
-----------------------------------------------------------------------------
(* The theorems *)

LEMMA ChainStart == Init => ChainInv
<1> SUFFICES ASSUME Init PROVE ChainInv
  OBVIOUS
<1>1. rows = <<>> /\ DOMAIN rows = {} /\ rows \in Seq(ChainRows)
  BY DEF Init
<1>2. HeadsOf(rows) = {} /\ Count(rows) = 0
  BY <1>1, FS_EmptySet DEF HeadsOf, Count
<1>3. Sound(rows) /\ LostSound /\ PassSound
  BY <1>1 DEF Init, Sound, LostSound, PassSound, Unseen, NoPass
<1>4. EndsBounded
  BY <1>2 DEF Init, EndsBounded, Ends, Strays, Forks, Unseen, NoPass
<1> QED BY <1>3, <1>4 DEF ChainInv, Init, NoPass, Passes, Faults

LEMMA ChainStep == ChainInv /\ [Next]_vars => ChainInv'
<1> SUFFICES ASSUME ChainInv, [Next]_vars PROVE ChainInv'
  OBVIOUS
<1>1. CASE UNCHANGED vars
  BY <1>1 DEF vars, ChainInv, Sound, LostSound, PassSound, EndsBounded, Unseen
<1>2. CASE Next
  BY <1>2, RowStepKept, LostStepSound, ReconcileSound, FreezeSound, TakeoverSound, WindowSound
  DEF Next
<1> QED BY <1>1, <1>2

\* The inductive invariant of a chain, of the steps of its jobs, of the bodies that
\* outlive their claims and of the reconciler (handle(), run_once()).
THEOREM ChainInvariant == Spec => []ChainInv
  BY ChainStart, ChainStep, PTL DEF Spec

\* Every row, body and pass of a chain is one that the code can make, and a body
\* without its claim comes from a lapse (claim(), fail(), _advance_chain()).
THEOREM ChainTypeCorrect == Spec => []ChainTypeOK
<1>1. ChainInv => ChainTypeOK
  BY DEF ChainInv, Sound, LostSound, ChainTypeOK
<1> QED BY <1>1, ChainInvariant, PTL

\* The reconciler's two reads (run_once(): active_chain_keys(), then
\* dead_chain_keys()) overlook no row that was there at the first, however many
\* windows, claims and deaths lie between them.
THEOREM ReadsOverlookNothing == Spec => []NothingOverlooked
<1>1. ChainInv => NothingOverlooked
  BY DEF ChainInv, PassSound, Unseen, NothingOverlooked
<1> QED BY <1>1, ChainInvariant, PTL

\* However often it is retried, frozen, reseeded and taken over, a chain has one end
\* more for a lapsed claim, one more for a redrive, and no other: what a pass seeds
\* (run_once()) and what a body enqueues (_advance_chain()) fork nothing.
THEOREM OnlyFaultsFork == Spec => []ForksExplained
<1>1. ChainInv => ForksExplained
  <2> SUFFICES ASSUME ChainInv PROVE ForksExplained
    OBVIOUS
  <2>1. Heads = HeadsOf(rows)
    BY DEF Heads, In, HeadsOf, IsHead
  <2>2. Count(rows) \in Nat
    BY TableFacts DEF ChainInv, Sound
  <2>3. Forks(used) = Cardinality(used \cap {"lapse", "redrive"})
    <3>1. /\ IsFiniteSet({}) /\ Cardinality({}) = 0
          /\ Cardinality({"lapse"}) = 1 /\ Cardinality({"redrive"}) = 1
          /\ IsFiniteSet({"lapse"})
      BY FS_EmptySet, FS_Singleton
    <3>2. Cardinality({"lapse"} \cup {"redrive"}) = 2
      BY <3>1, FS_AddElement
    <3>3. used \cap {"lapse", "redrive"} =
            (IF "lapse" \in used THEN {"lapse"} ELSE {})
            \cup (IF "redrive" \in used THEN {"redrive"} ELSE {})
      OBVIOUS
    <3>4. CASE "lapse" \in used /\ "redrive" \in used
      BY <3>2, <3>3, <3>4 DEF Forks
    <3>5. CASE "lapse" \in used /\ "redrive" \notin used
      BY <3>1, <3>3, <3>5 DEF Forks
    <3>6. CASE "lapse" \notin used
      BY <3>1, <3>3, <3>6 DEF Forks
    <3> QED BY <3>4, <3>5, <3>6
  <2>4. Ends(rows, lost) <= Forks(used) + 1 /\ Forks(used) \in Nat
    BY <2>2 DEF ChainInv, EndsBounded, Ends, Strays, Forks
  <2> QED BY <2>1, <2>2, <2>3, <2>4 DEF Ends, Strays, Count, ForksExplained
<1> QED BY <1>1, ChainInvariant, PTL
=============================================================================
