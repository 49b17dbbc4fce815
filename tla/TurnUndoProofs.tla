--------------------------- MODULE TurnUndoProofs ---------------------------
(***************************************************************************)
(* Proofs about the undo of a turn, for any number of turns, of messages   *)
(* of other conversations, of undo requests in flight and of faults, and   *)
(* any raw tail: it takes back what is the turn's and nothing else, and    *)
(* the summary a prompt may read holds no message that was deleted.        *)
(***************************************************************************)
EXTENDS TurnUndo, FiniteSetTheorems, WellFoundedInduction, TLAPS

(* Finite sets of times have a last one *)

\* A non-empty set of natural numbers has a least element.
LEMMA LeastNumber ==
  ASSUME NEW S, S \subseteq Nat, S # {}
  PROVE  \E n \in S : \A m \in S : n <= m
<1> DEFINE R == OpToRel(<, Nat)
<1>1. IsWellFoundedOn(R, Nat)
  BY NatLessThanWellFounded
<1>2. \A m, n \in Nat : m < n => <<m, n>> \in R
  BY DEF OpToRel
<1> HIDE DEF R
<1>3. PICK n \in S : \A m \in S : <<m, n>> \notin R
  BY <1>1, WFMin
<1>4. n \in Nat
  OBVIOUS
<1>5. ASSUME NEW m \in S PROVE n <= m
  <2>1. m \in Nat /\ <<m, n>> \notin R
    BY <1>3
  <2>2. ~(m < n)
    BY <1>2, <1>4, <2>1, Zenon
  <2> QED BY <1>4, <2>1, <2>2
<1> QED BY <1>5

\* S has a greatest element.
HasLast(S) == \E m \in S : \A n \in S : n <= m

\* Some set of n numbers has none.
LastMissing(n) ==
  \E S \in SUBSET Nat : IsFiniteSet(S) /\ Cardinality(S) = n /\ S # {} /\ ~HasLast(S)

\* A non-empty finite set of natural numbers has a greatest element: of a least
\* set without one, what is left without some element has one.
LEMMA FiniteHasLast ==
  ASSUME NEW S \in SUBSET Nat, IsFiniteSet(S), S # {}
  PROVE  HasLast(S)
<1> DEFINE Bad == {n \in Nat : LastMissing(n)}
<1>1. SUFFICES ASSUME ~HasLast(S) PROVE FALSE
  OBVIOUS
<1>2. Cardinality(S) \in Bad
  BY <1>1, FS_CardinalityType DEF LastMissing
<1>3. PICK n \in Bad : \A m \in Bad : n <= m
  BY <1>2, LeastNumber
<1>4. n \in Nat /\ LastMissing(n)
  OBVIOUS
<1>5. PICK U \in SUBSET Nat : IsFiniteSet(U) /\ Cardinality(U) = n /\ U # {} /\ ~HasLast(U)
  BY <1>4 DEF LastMissing
<1>6. PICK x \in U : TRUE
  BY <1>5
<1> DEFINE V == U \ {x}
<1>7. IsFiniteSet(V) /\ Cardinality(V) = n - 1 /\ V \in SUBSET Nat
  BY <1>5, <1>6, FS_RemoveElement
<1>8. V # {}
  <2>1. ASSUME V = {} PROVE FALSE
    <3>1. \A y \in U : y <= x
      BY <1>5, <1>6, <2>1
    <3> QED BY <1>5, <1>6, <3>1 DEF HasLast
  <2> QED BY <2>1
<1>9. n - 1 \in Nat
  BY <1>7, FS_CardinalityType
<1>10. HasLast(V)
  <2>1. ASSUME ~HasLast(V) PROVE FALSE
    <3>1. n - 1 \in Bad
      BY <1>7, <1>8, <1>9, <2>1 DEF LastMissing
    <3> QED BY <1>3, <1>4, <3>1
  <2> QED BY <2>1
<1>11. PICK m \in V : \A y \in V : y <= m
  BY <1>10 DEF HasLast
<1>12. m \in Nat /\ x \in Nat /\ m \in U /\ \A y \in U : y \in Nat /\ (y \in V \/ y = x)
  BY <1>5, <1>6
<1>13. \/ \A y \in U : y <= m
       \/ \A y \in U : y <= x
  BY <1>11, <1>12
<1> QED BY <1>5, <1>6, <1>12, <1>13 DEF HasLast

\* It is what Max chooses.
LEMMA LastIsMax ==
  ASSUME NEW S \in SUBSET Nat, IsFiniteSet(S), S # {}
  PROVE  Max(S) \in S /\ \A n \in S : n <= Max(S)
<1>1. PICK m \in S : \A n \in S : n <= m
  BY FiniteHasLast DEF HasLast
<1>2. \A n \in S : m >= n
  BY <1>1
<1> QED BY <1>2 DEF Max
-----------------------------------------------------------------------------
(* The types, in parts *)

InHand(b) == b.at \in {"merging", "checked"}

\* A merge in flight holds messages that were sent.
ReadSome(b) == InHand(b) => b.backlog # {} /\ \A q \in b.backlog : q.at <= sent

RowsTyped ==
  /\ rows \subseteq Rows /\ sent \in 0..LastRow /\ \A r \in rows : r.at <= sent
  /\ taken \in 0..MaxTurns /\ open \in BOOLEAN
  /\ open => taken >= 1
  /\ index \in [Turns -> Nat] /\ \A k \in Turns : index[k] < k

\* Each turn sends one message, so that the thread is not longer than the turns.
RowsCounted ==
  /\ taken <= sent /\ sent <= taken + MaxPushes
  /\ IsFiniteSet(rows)
  /\ \A r \in rows : r.turn <= taken
  /\ \A q, r \in rows : q.at = r.at => q = r
  /\ Cardinality(Thread) <= taken

BodiesTyped ==
  /\ body \in [Turns -> Bodies]
  /\ \A k \in Turns : body[k].at = "none" <=> k > taken
  /\ \A k \in Turns : ReadSome(body[k])

TracesTyped ==
  /\ written \in [Turns -> 0..taken]
  /\ memories \cup events \subseteq {k \in Turns : written[k] # 0}

ReadersTyped ==
  /\ checkpoint \in Checkpoints /\ checkpoint.upto <= sent
  /\ digest \in [by : 0..taken, stamp : Nat, asked : BOOLEAN]

UndosTyped ==
  /\ undo \in [Undoers -> Undos]
  /\ \A u \in Undoers : undo[u].at # "idle" => undo[u].turn \in 1..taken

MarksTyped ==
  /\ journals \subseteq 1..taken /\ tombstones \subseteq 1..taken
  /\ undone \subseteq 1..taken /\ faults \in 0..MaxFaults

UndoTypeInv ==
  /\ RowsTyped /\ RowsCounted /\ BodiesTyped /\ TracesTyped
  /\ ReadersTyped /\ UndosTyped /\ MarksTyped

LEMMA TypePartsSuffice == UndoTypeInv => UndoTypeOK
  BY DEF UndoTypeInv, UndoTypeOK, RowsTyped, BodiesTyped, TracesTyped,
         ReadersTyped, UndosTyped, MarksTyped

LEMMA Bounds ==
  /\ MaxTurns \in Nat /\ MaxPushes \in Nat /\ LastRow \in Nat
  /\ MaxFaults \in Nat /\ Tail \in Nat
  /\ MaxTurns >= 1 /\ LastRow = MaxTurns + MaxPushes
  BY UndoAssumption DEF LastRow

LEMMA FreshBodies ==
  ASSUME NEW phase \in Phases
  PROVE  /\ At(phase) \in Bodies /\ At(phase).at = phase
         /\ At(phase).backlog = {} /\ At(phase).stamp = 0 /\ At(phase).text = 0
         /\ NoCheckpoint \in Checkpoints
<1>1. NoCheckpoint \in Checkpoints
  BY Bounds DEF NoCheckpoint, Checkpoints
<1> QED BY <1>1, Bounds DEF At, Bodies

LEMMA FreshOthers ==
  /\ Idle \in Undos /\ Idle.at = "idle"
  /\ NoDigest.by = 0 /\ NoDigest.stamp = 0 /\ NoDigest.asked = FALSE
  /\ \A n \in Nat : NoDigest \in [by : 0..n, stamp : Nat, asked : BOOLEAN]
  BY Bounds DEF Idle, Undos, NoDigest

LEMMA InitTypes == Init => UndoTypeInv
<1> SUFFICES ASSUME Init PROVE UndoTypeInv
  OBVIOUS
<1>1. Thread = {} /\ IsFiniteSet(Thread) /\ Cardinality(Thread) = 0
  <2>1. Thread = {}
    BY DEF Init, Thread
  <2> QED BY <2>1, FS_EmptySet
<1>2. RowsTyped
  <2>1. rows \subseteq Rows /\ \A r \in rows : r.at <= sent
    BY DEF Init
  <2>2. sent \in 0..LastRow /\ taken \in 0..MaxTurns /\ open \in BOOLEAN /\ ~open
    <3>1. sent = 0 /\ taken = 0 /\ open = FALSE
      BY DEF Init
    <3>2. sent \in 0..LastRow /\ taken \in 0..MaxTurns
      BY <3>1, Bounds
    <3> QED BY <3>1, <3>2
  <2>3. index \in [Turns -> Nat] /\ \A k \in Turns : index[k] < k
    BY Bounds DEF Init, Turns
  <2> QED BY <2>1, <2>2, <2>3 DEF RowsTyped
<1>3. RowsCounted
  BY <1>1, Bounds, FS_EmptySet DEF Init, RowsCounted
<1>4. BodiesTyped
  <2>1. At("none") \in Bodies /\ At("none").at = "none"
    BY FreshBodies DEF Phases
  <2> QED BY <2>1, Bounds DEF Init, BodiesTyped, ReadSome, InHand, Turns
<1>5. TracesTyped
  BY DEF Init, TracesTyped
<1>6. ReadersTyped
  BY FreshBodies, FreshOthers DEF Init, ReadersTyped, NoCheckpoint, Phases
<1>7. UndosTyped
  BY FreshOthers DEF Init, UndosTyped
<1>8. MarksTyped
  BY Bounds DEF Init, MarksTyped
<1> QED BY <1>2, <1>3, <1>4, <1>5, <1>6, <1>7, <1>8 DEF UndoTypeInv

\* What a merge leaves: it ends at the last message of its backlog.
LEMMA LastOfBacklog ==
  ASSUME NEW B \in SUBSET Rows, B # {}
  PROVE  LET last == Max({r.at : r \in B}) IN
           /\ last \in 1..LastRow
           /\ \E r \in B : r.at = last
           /\ \A r \in B : r.at <= last
<1> DEFINE S == {r.at : r \in B}
<1>1. \A r \in B : r.at \in 1..LastRow
  BY DEF Rows
<1>2. S \in SUBSET (1..LastRow) /\ S # {}
  BY <1>1
<1>3. IsFiniteSet(1..LastRow) /\ 1..LastRow \subseteq Nat
  BY Bounds, FS_Interval
<1>4. IsFiniteSet(S) /\ S \in SUBSET Nat
  BY <1>2, <1>3, FS_Subset
<1>5. Max(S) \in S /\ \A n \in S : n <= Max(S)
  BY <1>2, <1>4, LastIsMax
<1> QED BY <1>2, <1>5

\* The stamp of a new digest is later than every stamp that is in use.
LEMMA NowIsLater ==
  ASSUME UndoTypeInv
  PROVE  Now \in Nat
<1> DEFINE f == [k \in Turns |-> body[k].stamp]
           R == {body[k].stamp : k \in Turns}
           S == {digest.stamp} \cup R
<1>1. f \in Surjection(Turns, R)
  BY DEF Surjection
<1>2. IsFiniteSet(Turns)
  BY Bounds, FS_Interval DEF Turns
<1>3. IsFiniteSet(R)
  BY <1>1, <1>2, FS_Surjection
<1>4. IsFiniteSet(S)
  <2>1. IsFiniteSet(R \cup {digest.stamp}) /\ R \cup {digest.stamp} = S
    BY <1>3, FS_AddElement
  <2> QED BY <2>1
<1>5. S \in SUBSET Nat /\ S # {}
  <2>1. digest.stamp \in Nat
    BY DEF UndoTypeInv, ReadersTyped
  <2>2. \A k \in Turns : body[k].stamp \in Nat
    BY DEF UndoTypeInv, BodiesTyped, Bodies
  <2> QED BY <2>1, <2>2
<1>6. Max(S) \in S
  BY <1>4, <1>5, LastIsMax
<1>7. Max(S) \in Nat
  BY <1>5, <1>6
<1> QED BY <1>7 DEF Now
-----------------------------------------------------------------------------
(* Steps that append a message, and the hand-over of a turn *)

LEMMA ThreadFinite ==
  ASSUME UndoTypeInv
  PROVE  /\ Thread \in SUBSET rows /\ IsFiniteSet(Thread) /\ Cardinality(Thread) \in Nat
         /\ \A r \in Thread : IsFiniteSet({q \in Thread : q.at < r.at})
<1>1. Thread \in SUBSET rows
  BY DEF Thread
<1>2. IsFiniteSet(Thread)
  BY <1>1, FS_Subset DEF UndoTypeInv, RowsCounted
<1>3. ASSUME NEW r \in Thread PROVE IsFiniteSet({q \in Thread : q.at < r.at})
  <2>1. {q \in Thread : q.at < r.at} \in SUBSET Thread
    OBVIOUS
  <2> QED BY <1>2, <2>1, FS_Subset
<1> QED BY <1>1, <1>2, <1>3, FS_CardinalityType

\* The row that the next append writes.
NextRow(turn) == [at |-> sent + 1, turn |-> turn]

\* An append leaves a message later than all others, which is one of the thread
\* unless it was said elsewhere.
LEMMA Appended ==
  ASSUME UndoTypeInv, NEW turn \in 0..MaxTurns, Append(turn), sent + 1 <= LastRow
  PROVE  /\ rows' = rows \cup {NextRow(turn)} /\ sent' = sent + 1
         /\ NextRow(turn) \in Rows /\ NextRow(turn).at = sent + 1 /\ NextRow(turn).turn = turn
         /\ rows' \subseteq Rows /\ sent' \in 0..LastRow /\ \A r \in rows' : r.at <= sent'
         /\ IsFiniteSet(rows')
         /\ \A q, r \in rows' : q.at = r.at => q = r
         /\ turn = Elsewhere => Thread' = Thread
         /\ turn # Elsewhere => Thread' = Thread \cup {NextRow(turn)}
         /\ NextRow(turn) \notin rows
<1> DEFINE new == NextRow(turn)
<1>0. /\ sent \in Nat /\ rows \subseteq Rows /\ \A r \in rows : r.at \in Nat /\ r.at <= sent
      /\ IsFiniteSet(rows)
      /\ \A q, r \in rows : q.at = r.at => q = r
  BY Bounds DEF UndoTypeInv, RowsTyped, RowsCounted, Rows
<1>1. rows' = rows \cup {new} /\ sent' = sent + 1
  BY DEF Append, NextRow
<1>2. new.at = sent + 1 /\ new.turn = turn /\ new \in Rows
  BY <1>0, Bounds DEF NextRow, Rows
<1> HIDE DEF new
<1>3. rows' \subseteq Rows /\ sent' \in 0..LastRow
  BY <1>0, <1>1, <1>2, Bounds
<1>4. \A r \in rows' : r.at \in Nat /\ r.at <= sent' /\ (r \in rows \/ r = new)
  BY <1>0, <1>1, <1>2
<1>5. new \notin rows
  BY <1>0, <1>2
<1>6. IsFiniteSet(rows')
  BY <1>0, <1>1, FS_AddElement
<1>7. \A q, r \in rows' : q.at = r.at => q = r
  BY <1>0, <1>1, <1>2
<1>8. turn = Elsewhere => Thread' = Thread
  BY <1>1, <1>2 DEF Thread
<1>9. turn # Elsewhere => Thread' = Thread \cup {new}
  BY <1>1, <1>2 DEF Thread
<1> QED BY <1>1, <1>2, <1>3, <1>4, <1>5, <1>6, <1>7, <1>8, <1>9 DEF new

\* What a step needs that leaves the bodies, the checkpoint and the digest alone
\* while time and turns go on.
LEMMA OthersStayTyped ==
  ASSUME UndoTypeInv, sent' \in Nat, sent <= sent', taken' \in Nat, taken <= taken',
         UNCHANGED <<traceVars, checkpoint, digest, undo, undone>>
  PROVE  /\ TracesTyped' /\ ReadersTyped' /\ UndosTyped'
         /\ \A b \in Bodies : ReadSome(b) => ReadSome(b)'
         /\ undone' \subseteq 1..taken'
<1>0. taken \in Nat /\ sent \in Nat
  BY Bounds DEF UndoTypeInv, RowsTyped
<1>1. TracesTyped'
  <2>1. 0..taken \subseteq 0..taken'
    BY <1>0
  <2> QED BY <2>1 DEF UndoTypeInv, TracesTyped, traceVars
<1>2. ReadersTyped'
  <2>1. digest.by \in 0..taken'
    BY <1>0 DEF UndoTypeInv, ReadersTyped
  <2>2. digest \in [by : 0..taken', stamp : Nat, asked : BOOLEAN]
    BY <2>1 DEF UndoTypeInv, ReadersTyped
  <2>3. checkpoint.upto \in Nat
    BY Bounds DEF UndoTypeInv, ReadersTyped, Checkpoints
  <2> QED BY <1>0, <2>2, <2>3 DEF UndoTypeInv, ReadersTyped
<1>3. UndosTyped'
  BY <1>0 DEF UndoTypeInv, UndosTyped
<1>4. \A b \in Bodies : ReadSome(b) => ReadSome(b)'
  <2> SUFFICES ASSUME NEW b \in Bodies, ReadSome(b) PROVE ReadSome(b)'
    OBVIOUS
  <2>1. ASSUME NEW q \in b.backlog, q.at <= sent PROVE q.at <= sent'
    <3>1. q \in Rows
      BY DEF Bodies
    <3>2. q.at \in Nat
      BY <3>1, Bounds DEF Rows
    <3> QED BY <1>0, <2>1, <3>2
  <2> QED BY <2>1 DEF ReadSome, InHand
<1>5. undone' \subseteq 1..taken'
  BY <1>0 DEF UndoTypeInv, MarksTyped
<1> QED BY <1>1, <1>2, <1>3, <1>4, <1>5

LEMMA TakeTurnTyped == UndoTypeInv /\ TakeTurn => UndoTypeInv'
<1> SUFFICES ASSUME UndoTypeInv, TakeTurn PROVE UndoTypeInv'
  OBVIOUS
<1>0. /\ taken \in Nat /\ sent \in Nat /\ taken < MaxTurns /\ taken' = taken + 1
      /\ taken <= sent /\ sent <= taken + MaxPushes
  BY Bounds DEF UndoTypeInv, RowsTyped, RowsCounted, TakeTurn
<1>1. taken' \in 1..MaxTurns /\ taken' \in Turns /\ sent + 1 <= LastRow /\ taken' # Elsewhere
  BY <1>0, Bounds DEF Turns, Elsewhere
<1>2. Append(taken')
  BY DEF TakeTurn
<1> DEFINE t == taken'
<1>3. /\ rows' = rows \cup {NextRow(t)} /\ sent' = sent + 1
      /\ NextRow(t) \in Rows /\ NextRow(t).turn = t
      /\ rows' \subseteq Rows /\ sent' \in 0..LastRow /\ \A r \in rows' : r.at <= sent'
      /\ IsFiniteSet(rows')
      /\ \A q, r \in rows' : q.at = r.at => q = r
      /\ Thread' = Thread \cup {NextRow(t)}
      /\ NextRow(t) \notin rows
  <2> HIDE DEF t
  <2>1. t \in 0..MaxTurns /\ Append(t) /\ t # Elsewhere
    BY <1>1, <1>2 DEF t
  <2> QED BY <1>1, <2>1, Appended
<1>4. Length \in Nat /\ Length <= taken
  BY ThreadFinite DEF Length, UndoTypeInv, RowsCounted
<1>5. RowsTyped'
  <2>1. index' = [index EXCEPT ![t] = Length]
    BY DEF TakeTurn
  <2>2. index \in [Turns -> Nat] /\ \A k \in Turns : index[k] < k
    BY DEF UndoTypeInv, RowsTyped
  <2>3. index' \in [Turns -> Nat] /\ \A k \in Turns : index'[k] < k
    BY <1>0, <1>1, <1>4, <2>1, <2>2
  <2>4. open' = TRUE
    BY DEF TakeTurn
  <2> QED BY <1>1, <1>3, <2>3, <2>4 DEF RowsTyped
<1>6. RowsCounted'
  <2>1. \A r \in rows' : r.turn <= taken'
    <3>1. \A r \in rows : r.turn \in Nat /\ r.turn <= taken
      BY DEF UndoTypeInv, RowsTyped, RowsCounted, Rows
    <3> QED BY <1>0, <1>3, <3>1
  <2>2. Cardinality(Thread') <= taken'
    <3>1. Cardinality(Thread') <= Cardinality(Thread) + 1 /\ Cardinality(Thread') \in Nat
      <4>1. IsFiniteSet(Thread) /\ Cardinality(Thread) \in Nat
        BY ThreadFinite
      <4>2. IsFiniteSet(Thread \cup {NextRow(t)})
        BY <4>1, FS_AddElement
      <4>3. Cardinality(Thread \cup {NextRow(t)}) <= Cardinality(Thread) + 1
        BY <4>1, FS_AddElement
      <4>4. Cardinality(Thread \cup {NextRow(t)}) \in Nat
        BY <4>2, FS_CardinalityType
      <4> QED BY <1>3, <4>3, <4>4
    <3> QED BY <1>0, <1>4, <3>1 DEF Length
  <2>3. taken' <= sent' /\ sent' <= taken' + MaxPushes
    BY <1>0, <1>3, Bounds
  <2> QED BY <1>3, <2>1, <2>2, <2>3 DEF RowsCounted, Thread
<1>7. /\ TracesTyped' /\ ReadersTyped' /\ UndosTyped'
      /\ \A b \in Bodies : ReadSome(b) => ReadSome(b)'
      /\ undone' \subseteq 1..taken'
  BY <1>0, <1>3, OthersStayTyped DEF TakeTurn
<1>8. BodiesTyped'
  <2>1. body' = [body EXCEPT ![t] = At("queued")] /\ body \in [Turns -> Bodies]
    BY DEF TakeTurn, UndoTypeInv, BodiesTyped
  <2>2. At("queued") \in Bodies /\ At("queued").at = "queued"
    BY FreshBodies DEF Phases
  <2>3. /\ body' \in [Turns -> Bodies] /\ body'[t] = At("queued")
        /\ \A k \in Turns \ {t} : body'[k] = body[k]
    BY <1>1, <2>1, <2>2
  <2>4. \A k \in Turns : body'[k].at = "none" <=> k > taken'
    <3>1. \A k \in Turns : body[k].at = "none" <=> k > taken
      BY DEF UndoTypeInv, BodiesTyped
    <3>2. \A k \in Turns : k \in Nat
      BY DEF Turns
    <3> QED BY <1>0, <2>2, <2>3, <3>1, <3>2
  <2>5. \A k \in Turns : ReadSome(body[k]) /\ body[k] \in Bodies
    BY DEF UndoTypeInv, BodiesTyped
  <2>6. ASSUME NEW k \in Turns PROVE ReadSome(body[k])'
    <3>1. CASE k = t
      BY <2>2, <2>3, <3>1 DEF ReadSome, InHand
    <3>2. CASE k # t
      <4>1. ReadSome(body[k]) /\ body[k] \in Bodies /\ body'[k] = body[k]
        BY <2>3, <2>5, <3>2
      <4>2. \A q \in body[k].backlog : q.at <= sent => q.at <= sent'
        <5> SUFFICES ASSUME NEW q \in body[k].backlog, q.at <= sent PROVE q.at <= sent'
          OBVIOUS
        <5>1. q \in Rows
          BY <4>1 DEF Bodies
        <5>2. q.at \in Nat
          BY <5>1, Bounds DEF Rows
        <5> QED BY <1>0, <1>3, <5>2
      <4> QED BY <4>1, <4>2 DEF ReadSome, InHand
    <3> QED BY <3>1, <3>2
  <2> QED BY <2>3, <2>4, <2>6 DEF BodiesTyped
<1>9. MarksTyped'
  <2>1. UNCHANGED <<journals, tombstones, faults>>
    BY DEF TakeTurn
  <2> QED BY <1>0, <1>7, <2>1 DEF UndoTypeInv, MarksTyped
<1> QED BY <1>5, <1>6, <1>7, <1>8, <1>9 DEF UndoTypeInv

LEMMA PushTyped == UndoTypeInv /\ Push => UndoTypeInv'
<1> SUFFICES ASSUME UndoTypeInv, Push PROVE UndoTypeInv'
  OBVIOUS
<1>0. /\ taken \in Nat /\ sent \in Nat /\ taken \in 0..MaxTurns
      /\ sent - taken < MaxPushes /\ taken' = taken
      /\ taken <= sent /\ sent <= taken + MaxPushes
  BY Bounds DEF UndoTypeInv, RowsTyped, RowsCounted, Push
<1>1. sent + 1 <= LastRow /\ Elsewhere \in 0..MaxTurns /\ Append(Elsewhere) /\ Elsewhere = 0
  BY <1>0, Bounds DEF Elsewhere, Push
<1>2. /\ rows' = rows \cup {NextRow(Elsewhere)} /\ sent' = sent + 1
      /\ NextRow(Elsewhere).turn = Elsewhere
      /\ rows' \subseteq Rows /\ sent' \in 0..LastRow /\ \A r \in rows' : r.at <= sent'
      /\ IsFiniteSet(rows')
      /\ \A q, r \in rows' : q.at = r.at => q = r
      /\ Thread' = Thread
  BY <1>1, Appended
<1>3. RowsTyped'
  BY <1>0, <1>2 DEF RowsTyped, UndoTypeInv, Push
<1>4. RowsCounted'
  <2>1. \A r \in rows' : r.turn <= taken'
    BY <1>0, <1>1, <1>2 DEF UndoTypeInv, RowsCounted
  <2>2. Cardinality(Thread') <= taken'
    BY <1>0, <1>2 DEF UndoTypeInv, RowsCounted
  <2>3. taken' <= sent' /\ sent' <= taken' + MaxPushes
    BY <1>0, <1>2, Bounds
  <2> QED BY <1>2, <2>1, <2>2, <2>3 DEF RowsCounted, Thread
<1>5. /\ TracesTyped' /\ ReadersTyped' /\ UndosTyped'
      /\ \A b \in Bodies : ReadSome(b) => ReadSome(b)'
      /\ undone' \subseteq 1..taken'
  BY <1>0, <1>2, OthersStayTyped DEF Push
<1>6. BodiesTyped'
  <2>1. body' = body
    BY DEF Push
  <2>2. \A k \in Turns : ReadSome(body[k]) /\ body[k] \in Bodies
    BY DEF UndoTypeInv, BodiesTyped
  <2>3. \A k \in Turns : ReadSome(body[k])'
    <3> TAKE k \in Turns
    <3>1. ASSUME NEW q \in body[k].backlog, q.at <= sent PROVE q.at <= sent'
      <4>1. q \in Rows
        BY <2>2, <3>1 DEF Bodies
      <4>2. q.at \in Nat
        BY <4>1, Bounds DEF Rows
      <4> QED BY <1>0, <1>2, <3>1, <4>2
    <3> QED BY <2>1, <2>2, <3>1 DEF ReadSome, InHand
  <2> QED BY <1>0, <2>1, <2>3 DEF UndoTypeInv, BodiesTyped
<1>7. MarksTyped'
  <2>1. UNCHANGED <<journals, tombstones, faults>>
    BY DEF Push
  <2> QED BY <1>0, <1>5, <2>1 DEF UndoTypeInv, MarksTyped
<1> QED BY <1>3, <1>4, <1>5, <1>6, <1>7 DEF UndoTypeInv

\* The parts that depend on the thread alone stay when it does.
LEMMA ThreadStays ==
  ASSUME UndoTypeInv, UNCHANGED <<rows, sent, index, taken>>,
         open' = open \/ open' = FALSE
  PROVE  /\ RowsTyped' /\ RowsCounted' /\ Thread' = Thread
         /\ \A b \in Bodies : ReadSome(b) => ReadSome(b)'
<1>1. Thread' = Thread
  BY DEF Thread
<1>2. RowsTyped'
  <2>0. open \in BOOLEAN /\ (open => taken >= 1) /\ taken' = taken
    BY DEF UndoTypeInv, RowsTyped
  <2>1. CASE open' = open
    BY <2>0, <2>1 DEF UndoTypeInv, RowsTyped
  <2>2. CASE open' = FALSE
    BY <2>0, <2>2 DEF UndoTypeInv, RowsTyped
  <2> QED BY <2>1, <2>2
<1>3. RowsCounted'
  BY <1>1 DEF UndoTypeInv, RowsCounted
<1> QED BY <1>1, <1>2, <1>3 DEF ReadSome

LEMMA PersistJournalTyped == UndoTypeInv /\ PersistJournal => UndoTypeInv'
<1> SUFFICES ASSUME UndoTypeInv, PersistJournal PROVE UndoTypeInv'
  OBVIOUS
<1>1. UNCHANGED <<rows, sent, index, taken>> /\ open' = FALSE
  BY DEF PersistJournal
<1>2. RowsTyped' /\ RowsCounted'
  BY <1>1, ThreadStays
<1>3. BodiesTyped' /\ TracesTyped' /\ ReadersTyped' /\ UndosTyped'
  BY DEF PersistJournal, UndoTypeInv, BodiesTyped, TracesTyped, ReadersTyped,
         UndosTyped, ReadSome, traceVars
<1>4. MarksTyped'
  <2>1. journals' = journals \cup {taken} /\ UNCHANGED <<taken, tombstones, undone, faults>>
    BY DEF PersistJournal
  <2>2. taken \in 1..taken
    <3>1. taken \in Nat /\ taken >= 1
      BY Bounds DEF UndoTypeInv, RowsTyped, PersistJournal
    <3> QED BY <3>1
  <2> QED BY <2>1, <2>2 DEF UndoTypeInv, MarksTyped
<1> QED BY <1>2, <1>3, <1>4 DEF UndoTypeInv
-----------------------------------------------------------------------------
(* The steps of a body, which leave the thread and the undos alone *)

LEMMA BodyMoves ==
  ASSUME UndoTypeInv, NEW k \in Turns, body[k].at # "none",
         NEW b \in Bodies, b.at # "none", ReadSome(b), Goes(k, b),
         UNCHANGED <<threadVars, journals, tombstones, undo, undone>>,
         faults' \in 0..MaxFaults, TracesTyped', ReadersTyped'
  PROVE  UndoTypeInv'
<1>1. UNCHANGED <<rows, sent, index, taken, open>>
  BY DEF threadVars
<1>2. RowsTyped' /\ RowsCounted' /\ \A c \in Bodies : ReadSome(c) => ReadSome(c)'
  BY <1>1, ThreadStays
<1>3. /\ body \in [Turns -> Bodies] /\ body' = [body EXCEPT ![k] = b]
      /\ \A j \in Turns : body[j].at = "none" <=> j > taken
      /\ \A j \in Turns : ReadSome(body[j])
  BY DEF UndoTypeInv, BodiesTyped, Goes
<1>4. body' \in [Turns -> Bodies] /\ body'[k] = b /\ \A j \in Turns \ {k} : body'[j] = body[j]
  BY <1>3
<1>5. \A j \in Turns : body'[j].at = "none" <=> j > taken
  <2> TAKE j \in Turns
  <2>1. CASE j = k
    BY <1>3, <1>4, <2>1
  <2>2. CASE j # k
    BY <1>3, <1>4, <2>2
  <2> QED BY <2>1, <2>2
<1>6. \A j \in Turns : ReadSome(body[j])'
  <2> TAKE j \in Turns
  <2>1. CASE j = k
    BY <1>1, <1>4, <2>1 DEF ReadSome, InHand
  <2>2. CASE j # k
    BY <1>1, <1>3, <1>4, <2>2 DEF ReadSome, InHand
  <2> QED BY <2>1, <2>2
<1>7. BodiesTyped'
  BY <1>1, <1>4, <1>5, <1>6 DEF BodiesTyped
<1>8. UndosTyped' /\ MarksTyped'
  BY <1>1 DEF UndoTypeInv, UndosTyped, MarksTyped
<1> QED BY <1>2, <1>7, <1>8 DEF UndoTypeInv

\* A body that waits, is done or holds no merge reads nothing.
LEMMA NotInHand ==
  ASSUME NEW b, ~InHand(b)
  PROVE  ReadSome(b)
  BY DEF ReadSome

LEMMA Asked ==
  ASSUME UndoTypeInv, NEW k \in Turns, NEW answer \in BOOLEAN, Asks(k, answer)
  PROVE  /\ faults' \in 0..MaxFaults
         /\ excused \subseteq excused'
         /\ answer => k \in tombstones
         /\ k \in tombstones /\ ~answer => <<"unasked", k>> \in excused'
<1>0. faults \in 0..MaxFaults
  BY DEF UndoTypeInv, MarksTyped
<1>1. CASE answer = Undone(k) /\ UNCHANGED <<faults, excused>>
  BY <1>0, <1>1, Zenon DEF Undone
<1>2. CASE /\ Undone(k) /\ ~answer /\ faults < MaxFaults
           /\ faults' = faults + 1
           /\ excused' = excused \cup {<<"unasked", k>>}
  <2>1. faults' \in 0..MaxFaults
    BY <1>0, <1>2, Bounds
  <2> QED BY <1>2, <2>1
<1> QED BY <1>1, <1>2 DEF Asks

\* The bodies that the steps go to.
LEMMA BodyChanged ==
  ASSUME NEW b \in Bodies, NEW phase \in Phases
  PROVE  /\ [b EXCEPT !.at = phase] \in Bodies
         /\ [b EXCEPT !.at = phase].at = phase
         /\ [b EXCEPT !.at = phase].text = b.text
         /\ [b EXCEPT !.at = phase].backlog = b.backlog
         /\ [b EXCEPT !.at = phase].seen = b.seen
         /\ [b EXCEPT !.at = phase].stamp = b.stamp
  BY DEF Bodies

LEMMA BodyStarted ==
  ASSUME NEW text \in 0..MaxTurns
  PROVE  /\ [At("extracting") EXCEPT !.text = text] \in Bodies
         /\ [At("extracting") EXCEPT !.text = text].at = "extracting"
         /\ [At("extracting") EXCEPT !.text = text].text = text
<1>1. At("extracting") \in Bodies /\ At("extracting").at = "extracting"
  BY FreshBodies DEF Phases
<1> QED BY <1>1 DEF Bodies

LEMMA BodyReads ==
  ASSUME NEW c \in Checkpoints, NEW B \in SUBSET Rows
  PROVE  LET b == [At("merging") EXCEPT !.seen = c, !.backlog = B] IN
           b \in Bodies /\ b.at = "merging" /\ b.seen = c /\ b.backlog = B
<1>1. At("merging") \in Bodies /\ At("merging").at = "merging"
  BY FreshBodies DEF Phases
<1> QED BY <1>1 DEF Bodies

LEMMA BodyDistilled ==
  ASSUME UndoTypeInv
  PROVE  Distilled \in Bodies /\ Distilled.at = "distilled"
<1>1. At("distilled") \in Bodies /\ At("distilled").at = "distilled"
  BY FreshBodies DEF Phases
<1>2. Now \in Nat
  BY NowIsLater
<1> QED BY <1>1, <1>2 DEF Bodies, Distilled

LEMMA EnterTyped ==
  ASSUME UndoTypeInv, NEW k \in Turns, Enter(k)
  PROVE  UndoTypeInv'
<1>1. /\ body[k].at = "queued"
      /\ UNCHANGED <<threadVars, journals, tombstones, traceVars, checkpoint,
                     digest, undo, undone>>
  BY DEF Enter
<1>2. faults \in 0..MaxFaults
  BY DEF UndoTypeInv, MarksTyped
<1>3. At("done") \in Bodies /\ At("done").at = "done"
  BY FreshBodies DEF Phases
<1>4. faults' \in 0..MaxFaults /\ \E b \in Bodies : b.at \in {"done", "extracting"} /\ Goes(k, b)
  <2> DEFINE found == {r \in Thread : Position(r) = index[k]}
  <2>1. CASE found = {}
    BY <1>2, <1>3, <2>1 DEF Enter
  <2>2. ASSUME NEW r \in found, NEW answer \in BOOLEAN, Asks(k, answer),
               Goes(k, IF answer THEN At("done")
                       ELSE [At("extracting") EXCEPT !.text = r.turn])
        PROVE  faults' \in 0..MaxFaults
               /\ \E b \in Bodies : b.at \in {"done", "extracting"} /\ Goes(k, b)
    <3>1. r.turn \in 0..MaxTurns
      BY DEF UndoTypeInv, RowsTyped, Thread, Rows
    <3>2. faults' \in 0..MaxFaults
      BY <2>2, Asked
    <3>3. CASE answer
      BY <1>3, <2>2, <3>2, <3>3
    <3>4. CASE ~answer
      BY <2>2, <3>1, <3>2, <3>4, BodyStarted
    <3> QED BY <3>3, <3>4
  <2> QED BY <2>1, <2>2 DEF Enter
<1>5. PICK b \in Bodies : b.at \in {"done", "extracting"} /\ Goes(k, b)
  BY <1>4
<1>6. TracesTyped' /\ ReadersTyped'
  BY <1>1 DEF UndoTypeInv, TracesTyped, ReadersTyped, traceVars, threadVars
<1>7. ReadSome(b) /\ b.at # "none" /\ body[k].at # "none"
  BY <1>1, <1>5, NotInHand DEF InHand
<1> QED BY <1>1, <1>4, <1>5, <1>6, <1>7, BodyMoves

LEMMA ClearTyped ==
  ASSUME UndoTypeInv, NEW k \in Turns, Clear(k)
  PROVE  UndoTypeInv'
<1>1. /\ body[k].at = "extracting" /\ body[k] \in Bodies
      /\ UNCHANGED <<threadVars, journals, tombstones, traceVars, checkpoint,
                     digest, undo, undone>>
  BY DEF Clear, UndoTypeInv, BodiesTyped
<1>2. PICK answer \in BOOLEAN :
        Asks(k, answer) /\ IF answer THEN Goes(k, At("done")) ELSE Moves(k, "cleared")
  BY DEF Clear
<1>3. faults' \in 0..MaxFaults
  BY <1>2, Asked
<1>4. \E b \in Bodies : b.at \in {"done", "cleared"} /\ Goes(k, b)
  <2>1. CASE answer
    BY <1>2, <2>1, FreshBodies DEF Phases
  <2>2. CASE ~answer
    <3>1. "cleared" \in Phases
      BY DEF Phases
    <3> QED BY <1>1, <1>2, <2>2, <3>1, BodyChanged DEF Moves
  <2> QED BY <2>1, <2>2
<1>5. PICK b \in Bodies : b.at \in {"done", "cleared"} /\ Goes(k, b)
  BY <1>4
<1>6. TracesTyped' /\ ReadersTyped'
  BY <1>1 DEF UndoTypeInv, TracesTyped, ReadersTyped, traceVars, threadVars
<1>7. ReadSome(b) /\ b.at # "none" /\ body[k].at # "none"
  BY <1>1, <1>5, NotInHand DEF InHand
<1> QED BY <1>1, <1>3, <1>5, <1>6, <1>7, BodyMoves

LEMMA WriteTyped ==
  ASSUME UndoTypeInv, NEW k \in Turns, Write(k)
  PROVE  UndoTypeInv'
<1>1. /\ body[k].at = "cleared" /\ body[k] \in Bodies /\ Moves(k, "wrote")
      /\ UNCHANGED <<threadVars, journals, tombstones, checkpoint, digest, undo,
                     faults, undone>>
  BY DEF Write, UndoTypeInv, BodiesTyped
<1>2. "wrote" \in Phases
  BY DEF Phases
<1>3. PICK b \in Bodies : b.at = "wrote" /\ Goes(k, b)
  BY <1>1, <1>2, BodyChanged DEF Moves
<1>4. k <= taken /\ k \in 1..taken /\ taken \in Nat
  BY <1>1, Bounds DEF UndoTypeInv, BodiesTyped, RowsTyped, Turns
<1>5. TracesTyped'
  <2>1. written' = [written EXCEPT ![k] = taken] /\ taken' = taken
        /\ memories' = memories \cup {k} /\ events' = events \cup {k}
    BY <1>1 DEF Write, threadVars
  <2>2. /\ written' \in [Turns -> 0..taken] /\ written'[k] = taken
        /\ \A j \in Turns \ {k} : written'[j] = written[j]
    BY <1>4, <2>1 DEF UndoTypeInv, TracesTyped
  <2>3. taken # 0
    BY <1>4
  <2> QED BY <2>1, <2>2, <2>3 DEF UndoTypeInv, TracesTyped
<1>6. ReadersTyped' /\ faults' \in 0..MaxFaults
  BY <1>1 DEF UndoTypeInv, ReadersTyped, MarksTyped, threadVars
<1>7. ReadSome(b) /\ b.at # "none" /\ body[k].at # "none"
  BY <1>1, <1>3, NotInHand DEF InHand
<1> QED BY <1>1, <1>3, <1>5, <1>6, <1>7, BodyMoves

LEMMA MergeReadsTyped ==
  ASSUME UndoTypeInv, NEW k \in Turns, MergeReads(k)
  PROVE  UndoTypeInv'
<1>1. /\ body[k].at = "wrote"
      /\ UNCHANGED <<threadVars, journals, tombstones, traceVars, checkpoint,
                     digest, undo, faults, undone>>
  BY DEF MergeReads
<1> DEFINE backlog == Middle(IF checkpoint.stale THEN NoCheckpoint ELSE checkpoint)
<1>2. backlog \in SUBSET rows /\ backlog \in SUBSET Rows
  BY DEF Middle, UndoTypeInv, RowsTyped
<1>3. \A q \in backlog : q.at <= sent
  BY <1>2 DEF UndoTypeInv, RowsTyped
<1>4. \E b \in Bodies : b.at # "none" /\ ReadSome(b) /\ Goes(k, b)
  <2>1. CASE Goes(k, Distilled)
    <3>1. Distilled \in Bodies /\ Distilled.at = "distilled"
      BY BodyDistilled
    <3>2. ReadSome(Distilled)
      BY <3>1, NotInHand DEF InHand
    <3> QED BY <2>1, <3>1, <3>2
  <2>2. CASE /\ backlog # {}
             /\ Goes(k, [At("merging") EXCEPT !.seen = checkpoint, !.backlog = backlog])
    <3> HIDE DEF backlog
    <3>1. checkpoint \in Checkpoints
      BY DEF UndoTypeInv, ReadersTyped
    <3> DEFINE b == [At("merging") EXCEPT !.seen = checkpoint, !.backlog = backlog]
    <3>2. b \in Bodies /\ b.at = "merging" /\ b.backlog = backlog
      BY <1>2, <3>1, BodyReads
    <3>3. ReadSome(b)
      BY <1>3, <2>2, <3>2 DEF ReadSome
    <3> QED BY <2>2, <3>2, <3>3
  <2> QED BY <2>1, <2>2 DEF MergeReads
<1>5. PICK b \in Bodies : b.at # "none" /\ ReadSome(b) /\ Goes(k, b)
  BY <1>4
<1>6. TracesTyped' /\ ReadersTyped' /\ faults' \in 0..MaxFaults
  BY <1>1 DEF UndoTypeInv, TracesTyped, ReadersTyped, MarksTyped, traceVars, threadVars
<1> QED BY <1>1, <1>5, <1>6, BodyMoves

LEMMA MergeChecksTyped ==
  ASSUME UndoTypeInv, NEW k \in Turns, MergeChecks(k)
  PROVE  UndoTypeInv'
<1>1. /\ body[k].at = "merging" /\ body[k] \in Bodies /\ ReadSome(body[k])
      /\ UNCHANGED <<threadVars, journals, tombstones, traceVars, checkpoint,
                     digest, undo, faults, undone>>
  BY DEF MergeChecks, UndoTypeInv, BodiesTyped
<1>2. \E b \in Bodies : b.at # "none" /\ ReadSome(b) /\ Goes(k, b)
  <2>1. CASE Goes(k, Distilled)
    <3>1. Distilled \in Bodies /\ Distilled.at = "distilled"
      BY BodyDistilled
    <3>2. ReadSome(Distilled)
      BY <3>1, NotInHand DEF InHand
    <3> QED BY <2>1, <3>1, <3>2
  <2>2. CASE Moves(k, "checked")
    <3> DEFINE b == [body[k] EXCEPT !.at = "checked"]
    <3>1. "checked" \in Phases
      BY DEF Phases
    <3>2. b \in Bodies /\ b.at = "checked" /\ b.backlog = body[k].backlog
      BY <1>1, <3>1, BodyChanged
    <3>3. ReadSome(b)
      BY <1>1, <3>2 DEF ReadSome, InHand
    <3> QED BY <2>2, <3>2, <3>3 DEF Moves
  <2> QED BY <2>1, <2>2 DEF MergeChecks
<1>3. PICK b \in Bodies : b.at # "none" /\ ReadSome(b) /\ Goes(k, b)
  BY <1>2
<1>4. TracesTyped' /\ ReadersTyped' /\ faults' \in 0..MaxFaults
  BY <1>1 DEF UndoTypeInv, TracesTyped, ReadersTyped, MarksTyped, traceVars, threadVars
<1> QED BY <1>1, <1>3, <1>4, BodyMoves

\* What a save leaves is a checkpoint of messages that were sent.
LEMMA MergedCheckpoint ==
  ASSUME UndoTypeInv, NEW k \in Turns, InHand(body[k])
  PROVE  LET c == Merged(body[k].seen, body[k].backlog) IN
           /\ c \in Checkpoints /\ c.upto <= sent /\ ~c.stale
           /\ c.upto = Max({r.at : r \in body[k].backlog})
           /\ c.holds = body[k].backlog \cup
                          (IF body[k].seen.stale THEN {} ELSE body[k].seen.holds)
           /\ \E r \in body[k].backlog : r.at = c.upto
           /\ \A r \in body[k].backlog : r.at <= c.upto
<1> DEFINE B == body[k].backlog
           old == IF body[k].seen.stale THEN {} ELSE body[k].seen.holds
           last == Max({r.at : r \in B})
           c == Merged(body[k].seen, B)
<1>1. B \in SUBSET Rows /\ B # {} /\ body[k].seen \in Checkpoints
      /\ \A q \in B : q.at <= sent
  BY DEF UndoTypeInv, BodiesTyped, Bodies, ReadSome
<1>2. /\ last \in 1..LastRow /\ \E r \in B : r.at = last
      /\ \A r \in B : r.at <= last
  BY <1>1, LastOfBacklog
<1>3. old \in SUBSET Rows
  BY <1>1 DEF Checkpoints
<1>4. c = [upto |-> last, stale |-> FALSE, holds |-> B \cup old]
  BY DEF Merged
<1> HIDE DEF B, old, last, c
<1>5. c.upto = last /\ c.stale = FALSE /\ c.holds = B \cup old
  BY <1>4
<1>6. last \in 0..LastRow /\ last <= sent
  BY <1>1, <1>2
<1>7. c \in Checkpoints
  BY <1>1, <1>3, <1>4, <1>6 DEF Checkpoints
<1> QED BY <1>2, <1>5, <1>6, <1>7 DEF B, old, last, c

LEMMA MergeSavesTyped ==
  ASSUME UndoTypeInv, NEW k \in Turns, MergeSaves(k)
  PROVE  UndoTypeInv'
<1>1. /\ body[k].at = "checked" /\ Goes(k, Distilled)
      /\ UNCHANGED <<threadVars, journals, tombstones, traceVars, digest, undo,
                     faults, undone>>
      /\ checkpoint' \in {checkpoint, Merged(body[k].seen, body[k].backlog)}
  BY DEF MergeSaves
<1>2. Distilled \in Bodies /\ Distilled.at = "distilled"
  BY BodyDistilled
<1>3. ReadSome(Distilled)
  BY <1>2, NotInHand DEF InHand
<1>4. checkpoint' \in Checkpoints /\ checkpoint'.upto <= sent
  <2>1. InHand(body[k])
    BY <1>1 DEF InHand
  <2> QED BY <1>1, <2>1, MergedCheckpoint DEF UndoTypeInv, ReadersTyped
<1>5. TracesTyped' /\ ReadersTyped' /\ faults' \in 0..MaxFaults
  BY <1>1, <1>4 DEF UndoTypeInv, TracesTyped, ReadersTyped, MarksTyped, traceVars, threadVars
<1> QED BY <1>1, <1>2, <1>3, <1>5, BodyMoves

\* A digest that is taken back leaves what no digest is, or the digest.
LEMMA WithdrawnTyped ==
  ASSUME UndoTypeInv, NEW stamp
  PROVE  /\ Withdrawn(stamp) \in [by : 0..taken, stamp : Nat, asked : BOOLEAN]
         /\ Withdrawn(stamp) \in {NoDigest, digest}
<1>1. taken \in Nat /\ digest \in [by : 0..taken, stamp : Nat, asked : BOOLEAN]
  BY Bounds DEF UndoTypeInv, RowsTyped, ReadersTyped
<1> QED BY <1>1, FreshOthers DEF Withdrawn

LEMMA DigestSavesTyped ==
  ASSUME UndoTypeInv, NEW k \in Turns, DigestSaves(k)
  PROVE  UndoTypeInv'
<1>1. /\ body[k].at = "distilled" /\ body[k] \in Bodies
      /\ UNCHANGED <<threadVars, journals, tombstones, traceVars, checkpoint,
                     undo, faults, undone>>
  BY DEF DigestSaves, UndoTypeInv, BodiesTyped
<1>2. k \in 0..taken /\ body[k].stamp \in Nat
  BY <1>1, Bounds DEF UndoTypeInv, BodiesTyped, RowsTyped, Turns, Bodies
<1>3. \E b \in Bodies : b.at \in {"done", "stored"} /\ Goes(k, b)
  <2>1. CASE Moves(k, "stored")
    <3>1. "stored" \in Phases
      BY DEF Phases
    <3> QED BY <1>1, <2>1, <3>1, BodyChanged DEF Moves
  <2>2. CASE Goes(k, At("done"))
    BY <2>2, FreshBodies DEF Phases
  <2> QED BY <2>1, <2>2 DEF DigestSaves
<1>4. digest' \in [by : 0..taken, stamp : Nat, asked : BOOLEAN]
  <2>1. [by |-> k, stamp |-> body[k].stamp, asked |-> FALSE]
          \in [by : 0..taken, stamp : Nat, asked : BOOLEAN]
    BY <1>2
  <2>2. digest \in [by : 0..taken, stamp : Nat, asked : BOOLEAN]
    BY DEF UndoTypeInv, ReadersTyped
  <2> QED BY <2>1, <2>2, WithdrawnTyped DEF DigestSaves
<1>5. PICK b \in Bodies : b.at \in {"done", "stored"} /\ Goes(k, b)
  BY <1>3
<1>6. TracesTyped' /\ ReadersTyped' /\ faults' \in 0..MaxFaults
  BY <1>1, <1>4 DEF UndoTypeInv, TracesTyped, ReadersTyped, MarksTyped, traceVars, threadVars
<1>7. ReadSome(b) /\ b.at # "none" /\ body[k].at # "none"
  BY <1>1, <1>5, NotInHand DEF InHand
<1> QED BY <1>1, <1>5, <1>6, <1>7, BodyMoves

\* A digest that stays is asked about or not as before, unless k is its author.
LEMMA DigestAsked ==
  ASSUME UndoTypeInv, NEW k \in Turns
  PROVE  LET d == [digest EXCEPT !.asked = @ \/ digest.by = k] IN
           /\ d \in [by : 0..taken, stamp : Nat, asked : BOOLEAN]
           /\ d.by = digest.by
           /\ d.asked => digest.asked \/ digest.by = k
<1>1. digest \in [by : 0..taken, stamp : Nat, asked : BOOLEAN]
  BY DEF UndoTypeInv, ReadersTyped
<1>2. CASE digest.by = k
  BY <1>1, <1>2
<1>3. CASE digest.by # k
  BY <1>1, <1>3
<1> QED BY <1>2, <1>3

LEMMA ValidateTyped ==
  ASSUME UndoTypeInv, NEW k \in Turns, Validate(k)
  PROVE  UndoTypeInv'
<1>1. /\ body[k].at = "stored" /\ Goes(k, At("done"))
      /\ UNCHANGED <<threadVars, journals, tombstones, traceVars, checkpoint,
                     undo, undone>>
  BY DEF Validate
<1>2. PICK answer \in BOOLEAN :
        /\ Asks(k, answer)
        /\ digest' = IF answer THEN Withdrawn(body[k].stamp)
                     ELSE [digest EXCEPT !.asked = @ \/ digest.by = k]
  BY DEF Validate
<1>3. faults' \in 0..MaxFaults
  BY <1>2, Asked
<1>4. digest' \in [by : 0..taken, stamp : Nat, asked : BOOLEAN]
  BY <1>2, WithdrawnTyped, DigestAsked
<1>5. At("done") \in Bodies /\ At("done").at = "done"
  BY FreshBodies DEF Phases
<1>6. TracesTyped' /\ ReadersTyped'
  BY <1>1, <1>4 DEF UndoTypeInv, TracesTyped, ReadersTyped, traceVars, threadVars
<1>7. ReadSome(At("done")) /\ body[k].at # "none"
  BY <1>1, <1>5, NotInHand DEF InHand
<1> QED BY <1>1, <1>3, <1>5, <1>6, <1>7, BodyMoves

LEMMA BodyDiesTyped ==
  ASSUME UndoTypeInv, NEW k \in Turns, BodyDies(k)
  PROVE  UndoTypeInv'
<1>1. /\ body[k].at \in Written /\ Goes(k, At("queued"))
      /\ faults < MaxFaults /\ faults' = faults + 1
      /\ UNCHANGED <<threadVars, journals, tombstones, traceVars, checkpoint,
                     digest, undo, undone>>
  BY DEF BodyDies
<1>2. At("queued") \in Bodies /\ At("queued").at = "queued"
  BY FreshBodies DEF Phases
<1>3. faults' \in 0..MaxFaults
  BY <1>1, Bounds DEF UndoTypeInv, MarksTyped
<1>4. TracesTyped' /\ ReadersTyped'
  BY <1>1 DEF UndoTypeInv, TracesTyped, ReadersTyped, traceVars, threadVars
<1>5. ReadSome(At("queued")) /\ body[k].at # "none"
  BY <1>1, <1>2, NotInHand DEF InHand, Written
<1> QED BY <1>1, <1>2, <1>3, <1>4, <1>5, BodyMoves
-----------------------------------------------------------------------------
(* The steps of an undo, which leave the bodies alone *)

LEMMA UndoMoves ==
  ASSUME UndoTypeInv, NEW u \in Undoers, NEW w \in Undos,
         w.at # "idle" => w.turn \in 1..taken,
         undo' = [undo EXCEPT ![u] = w], taken' = taken
  PROVE  /\ UndosTyped' /\ undo'[u] = w
         /\ \A v \in Undoers \ {u} : undo'[v] = undo[v]
<1>1. undo \in [Undoers -> Undos] /\ \A v \in Undoers : undo[v].at # "idle" => undo[v].turn \in 1..taken
  BY DEF UndoTypeInv, UndosTyped
<1>2. undo' \in [Undoers -> Undos] /\ undo'[u] = w /\ \A v \in Undoers \ {u} : undo'[v] = undo[v]
  BY <1>1
<1>3. \A v \in Undoers : undo'[v].at # "idle" => undo'[v].turn \in 1..taken
  <2> TAKE v \in Undoers
  <2>1. CASE v = u
    BY <1>2, <2>1
  <2>2. CASE v # u
    BY <1>1, <1>2, <2>2
  <2> QED BY <2>1, <2>2
<1> QED BY <1>2, <1>3 DEF UndosTyped

\* What an undo is at.
LEMMA UndoAt ==
  ASSUME UndoTypeInv, NEW u \in Undoers
  PROVE  /\ undo[u] \in Undos /\ undo[u].at \in UndoSteps \cup {"idle"}
         /\ undo[u].turn \in 0..MaxTurns /\ undo[u].owed \in SUBSET Rows
         /\ undo[u].at # "idle" => undo[u].turn \in 1..taken
  BY DEF UndoTypeInv, UndosTyped, Undos

LEMMA UndoChanged ==
  ASSUME NEW w \in Undos, NEW step \in UndoSteps \cup {"idle"}
  PROVE  /\ [w EXCEPT !.at = step] \in Undos
         /\ [w EXCEPT !.at = step].at = step /\ [w EXCEPT !.at = step].turn = w.turn
  BY DEF Undos

\* The steps that leave the thread, the bodies and the traces as they are.
LEMMA UndoLeaves ==
  ASSUME UndoTypeInv, UNCHANGED <<threadVars, body, traceVars>>
  PROVE  RowsTyped' /\ RowsCounted' /\ BodiesTyped' /\ TracesTyped'
<1>1. UNCHANGED <<rows, sent, index, taken, open>> /\ body' = body
  BY DEF threadVars
<1>2. RowsTyped' /\ RowsCounted'
  BY <1>1, ThreadStays
<1>3. BodiesTyped'
  BY <1>1 DEF UndoTypeInv, BodiesTyped, ReadSome
<1>4. TracesTyped'
  BY <1>1 DEF UndoTypeInv, TracesTyped, traceVars
<1> QED BY <1>2, <1>3, <1>4

LEMMA BeginTyped ==
  ASSUME UndoTypeInv, NEW u \in Undoers, Begin(u)
  PROVE  UndoTypeInv'
<1>1. PICK k \in journals :
        /\ undo' = [undo EXCEPT ![u] = [Idle EXCEPT !.at = "guard", !.turn = k]]
        /\ \/ tombstones' = tombstones \cup {k} /\ UNCHANGED faults
           \/ faults < MaxFaults /\ faults' = faults + 1 /\ UNCHANGED tombstones
  BY DEF Begin
<1>2. UNCHANGED <<threadVars, journals, body, traceVars, checkpoint, digest, undone>>
  BY DEF Begin
<1>3. k \in 1..taken /\ k \in 0..MaxTurns
  BY Bounds DEF UndoTypeInv, MarksTyped, RowsTyped
<1> DEFINE w == [Idle EXCEPT !.at = "guard", !.turn = k]
<1>4. w \in Undos /\ w.turn = k
  BY <1>3, FreshOthers DEF Undos, UndoSteps
<1>5. UndosTyped'
  <2> HIDE DEF w
  <2>1. undo' = [undo EXCEPT ![u] = w]
    BY <1>1 DEF w
  <2> QED BY <1>2, <1>3, <1>4, <2>1, UndoMoves DEF threadVars
<1>6. RowsTyped' /\ RowsCounted' /\ BodiesTyped' /\ TracesTyped'
  BY <1>2, UndoLeaves
<1>7. ReadersTyped'
  BY <1>2 DEF UndoTypeInv, ReadersTyped, threadVars
<1>8. MarksTyped'
  BY <1>1, <1>2, <1>3, Bounds DEF UndoTypeInv, MarksTyped, threadVars
<1> QED BY <1>5, <1>6, <1>7, <1>8 DEF UndoTypeInv

\* The guard marks the checkpoint or leaves it.
LEMMA Marked ==
  ASSUME UndoTypeInv, NEW latches \in BOOLEAN,
         checkpoint' = [checkpoint EXCEPT !.stale = @ \/ latches]
  PROVE  /\ checkpoint' \in Checkpoints /\ checkpoint'.upto = checkpoint.upto
         /\ checkpoint'.holds = checkpoint.holds
         /\ checkpoint.stale => checkpoint'.stale = checkpoint.stale
         /\ ~latches => checkpoint' = checkpoint
<1>1. checkpoint \in Checkpoints
  BY DEF UndoTypeInv, ReadersTyped
<1> QED BY <1>1 DEF Checkpoints

LEMMA GuardTyped ==
  ASSUME UndoTypeInv, NEW u \in Undoers, Guard(u)
  PROVE  UndoTypeInv'
<1> DEFINE k == undo[u].turn
           latches == Exists(checkpoint) /\ InReach(k)
           owed == IF latches THEN Reverted(k) ELSE {}
<1>1. /\ undo[u].at = "guard"
      /\ checkpoint' = [checkpoint EXCEPT !.stale = @ \/ latches]
      /\ undo' = [undo EXCEPT ![u] = [@ EXCEPT !.at = "truncate", !.owed = owed]]
      /\ UNCHANGED <<threadVars, journals, tombstones, body, traceVars, digest,
                     faults, undone>>
  BY DEF Guard
<1>2. latches \in BOOLEAN
  BY DEF Exists, InReach
<1>3. owed \in SUBSET Rows
  BY DEF Reverted, Thread, UndoTypeInv, RowsTyped
<1> HIDE DEF latches, owed
<1>4. checkpoint' \in Checkpoints /\ checkpoint'.upto = checkpoint.upto
  BY <1>1, <1>2, Marked
<1>5. ReadersTyped'
  BY <1>1, <1>4 DEF UndoTypeInv, ReadersTyped, threadVars
<1>6. UndosTyped'
  <2>1. "truncate" \in UndoSteps \cup {"idle"} /\ undo[u] \in Undos
        /\ undo[u].turn \in 1..taken
    BY <1>1, UndoAt DEF UndoSteps
  <2> DEFINE w == [undo[u] EXCEPT !.at = "truncate", !.owed = owed]
  <2>2. w \in Undos /\ w.turn \in 1..taken
    BY <1>3, <2>1 DEF Undos
  <2>3. undo' = [undo EXCEPT ![u] = w]
    BY <1>1 DEF UndoTypeInv, UndosTyped
  <2> HIDE DEF w
  <2> QED BY <1>1, <2>2, <2>3, UndoMoves DEF threadVars
<1>7. RowsTyped' /\ RowsCounted' /\ BodiesTyped' /\ TracesTyped'
  BY <1>1, UndoLeaves
<1>8. MarksTyped'
  BY <1>1 DEF UndoTypeInv, MarksTyped, threadVars
<1> QED BY <1>5, <1>6, <1>7, <1>8 DEF UndoTypeInv

LEMMA TruncateTyped ==
  ASSUME UndoTypeInv, NEW u \in Undoers, Truncate(u)
  PROVE  UndoTypeInv'
<1> DEFINE k == undo[u].turn
           dropped == Reverted(k)
<1>1. /\ undo[u].at = "truncate"
      /\ undo' = [undo EXCEPT ![u] = [@ EXCEPT !.at = "traces", !.owed = {}]]
      /\ rows' = rows \ dropped
      /\ UNCHANGED <<sent, index, taken, open, journals, tombstones, body,
                     traceVars, checkpoint, digest, faults, undone>>
  BY DEF Truncate
<1>2. rows' \in SUBSET rows /\ Thread' \in SUBSET Thread
  BY <1>1 DEF Thread
<1>3. IsFiniteSet(rows') /\ Cardinality(Thread') <= Cardinality(Thread)
      /\ Cardinality(Thread') \in Nat
  <2>1. IsFiniteSet(rows')
    BY <1>2, FS_Subset DEF UndoTypeInv, RowsCounted
  <2>2. IsFiniteSet(Thread') /\ Cardinality(Thread') <= Cardinality(Thread)
    BY <1>2, ThreadFinite, FS_Subset
  <2> QED BY <2>1, <2>2, FS_CardinalityType
<1>4. RowsTyped'
  BY <1>1, <1>2 DEF UndoTypeInv, RowsTyped
<1>5. RowsCounted'
  <2>1. Cardinality(Thread) \in Nat /\ taken \in Nat /\ Cardinality(Thread) <= taken
    BY ThreadFinite, Bounds DEF UndoTypeInv, RowsTyped, RowsCounted
  <2>2. Cardinality(Thread') <= taken'
    BY <1>1, <1>3, <2>1
  <2> QED BY <1>1, <1>2, <1>3, <2>2 DEF UndoTypeInv, RowsCounted, Thread
<1>6. UndosTyped'
  <2>1. "traces" \in UndoSteps \cup {"idle"} /\ undo[u] \in Undos
        /\ undo[u].turn \in 1..taken
    BY <1>1, UndoAt DEF UndoSteps
  <2> DEFINE w == [undo[u] EXCEPT !.at = "traces", !.owed = {}]
  <2>2. w \in Undos /\ w.turn \in 1..taken
    BY <2>1 DEF Undos
  <2>3. undo' = [undo EXCEPT ![u] = w]
    BY <1>1 DEF UndoTypeInv, UndosTyped
  <2> HIDE DEF w
  <2> QED BY <1>1, <2>2, <2>3, UndoMoves
<1>7. BodiesTyped' /\ TracesTyped'
  BY <1>1 DEF UndoTypeInv, BodiesTyped, TracesTyped, ReadSome, traceVars
<1>8. ReadersTyped' /\ MarksTyped'
  BY <1>1 DEF UndoTypeInv, ReadersTyped, MarksTyped
<1> QED BY <1>4, <1>5, <1>6, <1>7, <1>8 DEF UndoTypeInv

LEMMA DeleteTracesTyped ==
  ASSUME UndoTypeInv, NEW u \in Undoers, DeleteTraces(u)
  PROVE  UndoTypeInv'
<1>1. /\ undo[u].at = "traces" /\ Proceeds(u, "digest")
      /\ memories' \subseteq memories /\ events' \subseteq events
      /\ UNCHANGED <<threadVars, journals, tombstones, body, written, checkpoint,
                     digest, faults, undone>>
  BY DEF DeleteTraces
<1>2. UNCHANGED <<rows, sent, index, taken, open>>
  BY <1>1 DEF threadVars
<1>3. UndosTyped'
  <2>1. "digest" \in UndoSteps \cup {"idle"} /\ undo[u] \in Undos
        /\ undo[u].turn \in 1..taken
    BY <1>1, UndoAt DEF UndoSteps
  <2> DEFINE w == [undo[u] EXCEPT !.at = "digest"]
  <2>2. w \in Undos /\ w.turn \in 1..taken
    BY <2>1, UndoChanged
  <2>3. undo' = [undo EXCEPT ![u] = w]
    BY <1>1 DEF Proceeds, UndoTypeInv, UndosTyped
  <2> HIDE DEF w
  <2> QED BY <1>2, <2>2, <2>3, UndoMoves
<1>4. RowsTyped' /\ RowsCounted'
  BY <1>2, ThreadStays
<1>5. BodiesTyped' /\ TracesTyped' /\ ReadersTyped' /\ MarksTyped'
  BY <1>1, <1>2 DEF UndoTypeInv, BodiesTyped, TracesTyped, ReadersTyped, MarksTyped,
     ReadSome
<1> QED BY <1>3, <1>4, <1>5 DEF UndoTypeInv

\* The end of an undo, come to or not.
LEMMA UndoEnds ==
  ASSUME UndoTypeInv, NEW u \in Undoers, undo' = [undo EXCEPT ![u] = Idle], taken' = taken
  PROVE  UndosTyped'
  BY FreshOthers, UndoMoves

LEMMA FinishTyped ==
  ASSUME UndoTypeInv, NEW u \in Undoers, Finish(u)
  PROVE  UndoTypeInv'
<1>1. /\ undo[u].at = "digest" /\ undo' = [undo EXCEPT ![u] = Idle]
      /\ digest' = NoDigest /\ journals' = journals \ {undo[u].turn}
      /\ undone' = undone \cup {undo[u].turn}
      /\ UNCHANGED <<threadVars, tombstones, body, traceVars, checkpoint, faults>>
  BY DEF Finish
<1>2. taken' = taken /\ sent' = sent /\ taken \in Nat
  BY <1>1, Bounds DEF threadVars, UndoTypeInv, RowsTyped
<1>3. RowsTyped' /\ RowsCounted' /\ BodiesTyped' /\ TracesTyped'
  BY <1>1, UndoLeaves
<1>4. UndosTyped'
  BY <1>1, <1>2, UndoEnds
<1>5. ReadersTyped'
  BY <1>1, <1>2, FreshOthers DEF UndoTypeInv, ReadersTyped
<1>6. MarksTyped'
  <2>1. undo[u].turn \in 1..taken
    BY <1>1, UndoAt
  <2> QED BY <1>1, <1>2, <2>1 DEF UndoTypeInv, MarksTyped
<1> QED BY <1>3, <1>4, <1>5, <1>6 DEF UndoTypeInv

LEMMA AfterStep ==
  ASSUME NEW step \in {"guard", "truncate", "traces"}
  PROVE  /\ After(step) \in UndoSteps
         /\ After(step) = "digest" => step = "traces"
  BY DEF After, UndoSteps

\* A step that fails is passed over, or it was the last one.
LEMMA StepFailsShape ==
  ASSUME UndoTypeInv, NEW u \in Undoers, StepFails(u)
  PROVE  /\ undo[u].turn \in 1..taken
         /\ faults' \in 0..MaxFaults
         /\ excused' = excused \cup
              {<<step, undo[u].turn>> : step \in {undo[u].at} \cap {"traces", "digest"}}
         /\ UNCHANGED <<threadVars, tombstones, body, traceVars, checkpoint, digest>>
         /\ \E w \in Undos :
              /\ undo' = [undo EXCEPT ![u] = w]
              /\ \/ /\ undo[u].at # "digest" /\ w.turn = undo[u].turn /\ w.at # "idle"
                    /\ w.at = "digest" => undo[u].at = "traces"
                    /\ UNCHANGED <<journals, undone>>
                 \/ /\ undo[u].at = "digest" /\ w.at = "idle"
                    /\ journals' = journals \ {undo[u].turn}
                    /\ undone' = undone \cup {undo[u].turn}
<1>1. /\ undo[u].at # "idle" /\ faults < MaxFaults /\ faults' = faults + 1
      /\ UNCHANGED <<threadVars, tombstones, body, traceVars, checkpoint, digest>>
      /\ excused' = excused \cup
           {<<step, undo[u].turn>> : step \in {undo[u].at} \cap {"traces", "digest"}}
  BY DEF StepFails
<1>2. undo[u] \in Undos /\ undo[u].turn \in 1..taken /\ undo[u].at \in UndoSteps
  BY <1>1, UndoAt
<1>3. faults' \in 0..MaxFaults
  BY <1>1, Bounds DEF UndoTypeInv, MarksTyped
<1>4. CASE /\ undo[u].at # "digest"
           /\ undo' = [undo EXCEPT ![u].at = After(@)]
           /\ UNCHANGED <<journals, undone>>
  <2>1. undo[u].at \in {"guard", "truncate", "traces"}
    BY <1>2, <1>4 DEF UndoSteps
  <2> DEFINE step == After(undo[u].at)
             w == [undo[u] EXCEPT !.at = step]
  <2>2. step \in UndoSteps /\ (step = "digest" => undo[u].at = "traces")
    BY <2>1, AfterStep
  <2>3. undo' = [undo EXCEPT ![u] = w]
    BY <1>4 DEF UndoTypeInv, UndosTyped
  <2> HIDE DEF step
  <2>4. w \in Undos /\ w.at = step /\ w.turn = undo[u].turn
    BY <1>2, <2>2, UndoChanged
  <2>5. w.at # "idle"
    BY <2>2, <2>4 DEF UndoSteps
  <2> HIDE DEF w
  <2> QED BY <1>1, <1>2, <1>3, <1>4, <2>2, <2>3, <2>4, <2>5
<1>5. CASE /\ undo[u].at = "digest"
           /\ undo' = [undo EXCEPT ![u] = Idle]
           /\ journals' = journals \ {undo[u].turn}
           /\ undone' = undone \cup {undo[u].turn}
  BY <1>1, <1>2, <1>3, <1>5, FreshOthers
<1> QED BY <1>4, <1>5 DEF StepFails

LEMMA StepFailsTyped ==
  ASSUME UndoTypeInv, NEW u \in Undoers, StepFails(u)
  PROVE  UndoTypeInv'
<1>1. /\ undo[u].turn \in 1..taken /\ faults' \in 0..MaxFaults
      /\ UNCHANGED <<threadVars, tombstones, body, traceVars, checkpoint, digest>>
  BY StepFailsShape
<1>2. taken' = taken /\ sent' = sent
  BY <1>1 DEF threadVars
<1>3. PICK w \in Undos :
        /\ undo' = [undo EXCEPT ![u] = w]
        /\ w.at # "idle" => w.turn = undo[u].turn
        /\ journals' \subseteq journals /\ undone' \subseteq undone \cup {undo[u].turn}
  BY StepFailsShape
<1>4. UndosTyped'
  BY <1>1, <1>2, <1>3, UndoMoves
<1>5. RowsTyped' /\ RowsCounted' /\ BodiesTyped' /\ TracesTyped'
  BY <1>1, UndoLeaves
<1>6. ReadersTyped'
  BY <1>1, <1>2 DEF UndoTypeInv, ReadersTyped
<1>7. MarksTyped'
  BY <1>1, <1>2, <1>3 DEF UndoTypeInv, MarksTyped
<1> QED BY <1>4, <1>5, <1>6, <1>7 DEF UndoTypeInv

LEMMA UndoDiesTyped ==
  ASSUME UndoTypeInv, NEW u \in Undoers, UndoDies(u)
  PROVE  UndoTypeInv'
<1>1. /\ undo' = [undo EXCEPT ![u] = Idle]
      /\ faults < MaxFaults /\ faults' = faults + 1
      /\ UNCHANGED <<threadVars, journals, tombstones, body, traceVars, checkpoint,
                     digest, undone>>
  BY DEF UndoDies
<1>2. taken' = taken /\ sent' = sent
  BY <1>1 DEF threadVars
<1>3. UndosTyped'
  BY <1>1, <1>2, UndoEnds
<1>4. RowsTyped' /\ RowsCounted' /\ BodiesTyped' /\ TracesTyped'
  BY <1>1, UndoLeaves
<1>5. ReadersTyped'
  BY <1>1, <1>2 DEF UndoTypeInv, ReadersTyped
<1>6. MarksTyped'
  BY <1>1, <1>2, Bounds DEF UndoTypeInv, MarksTyped
<1> QED BY <1>3, <1>4, <1>5, <1>6 DEF UndoTypeInv

LEMMA StillTyped == UndoTypeInv /\ [Next]_vars => UndoTypeInv'
<1> SUFFICES ASSUME UndoTypeInv, [Next]_vars PROVE UndoTypeInv'
  OBVIOUS
<1>1. CASE TakeTurn \/ PersistJournal \/ Push
  BY <1>1, TakeTurnTyped, PersistJournalTyped, PushTyped
<1>2. ASSUME NEW k \in Turns, BodyStep(k) PROVE UndoTypeInv'
  BY <1>2, EnterTyped, ClearTyped, WriteTyped, MergeReadsTyped, MergeChecksTyped,
     MergeSavesTyped, DigestSavesTyped, ValidateTyped, BodyDiesTyped DEF BodyStep
<1>3. ASSUME NEW u \in Undoers, UndoStep(u) PROVE UndoTypeInv'
  BY <1>3, BeginTyped, GuardTyped, TruncateTyped, DeleteTracesTyped, FinishTyped,
     StepFailsTyped, UndoDiesTyped DEF UndoStep
<1>4. CASE UNCHANGED vars
  <2>1. UNCHANGED <<threadVars, body, traceVars>> /\ UNCHANGED <<sent, taken>>
        /\ UNCHANGED <<journals, tombstones, checkpoint, digest, undo, faults, undone>>
    BY <1>4 DEF vars, threadVars
  <2>2. RowsTyped' /\ RowsCounted' /\ BodiesTyped' /\ TracesTyped'
    BY <2>1, UndoLeaves
  <2>3. ReadersTyped' /\ UndosTyped' /\ MarksTyped'
    BY <2>1 DEF UndoTypeInv, ReadersTyped, UndosTyped, MarksTyped
  <2> QED BY <2>2, <2>3 DEF UndoTypeInv
<1> QED BY <1>1, <1>2, <1>3, <1>4 DEF Next

\* The messages of the thread are not more than its turns, a merge in flight
\* holds messages that were sent, and every step leaves it so.
THEOREM UndoParts == Spec => []UndoTypeInv
<1>1. Init => UndoTypeInv
  BY InitTypes
<1>2. UndoTypeInv /\ [Next]_vars => UndoTypeInv'
  BY StillTyped
<1> QED BY <1>1, <1>2, PTL DEF Spec

\* Nothing is stored of a turn whose body has not come to its writes, no
\* checkpoint covers a message that was never sent, and a turn's position lies
\* below its number, whatever undos and bodies do to each other.
THEOREM UndoTypeCorrect == Spec => []UndoTypeOK
<1>1. UndoTypeInv => UndoTypeOK
  BY TypePartsSuffice
<1> QED BY <1>1, UndoParts, PTL
-----------------------------------------------------------------------------
(* The summary and the merges in flight *)

\* A message that is gone is known to be.
Gap(r) == <<"gap", r.at>> \in excused

\* The messages a merge takes over from the checkpoint it has seen, and those of
\* which it asks no more whether they are there.
Held(b) == IF b.seen.stale THEN {} ELSE b.seen.holds
Counted(b) == Held(b) \cup (IF b.at = "checked" THEN b.backlog ELSE {})

\* The checkpoint holds the messages up to its cursor and no later one.
Contiguous ==
  /\ \A r \in rows : Covers(checkpoint, r) => r \in checkpoint.holds
  /\ \A r \in checkpoint.holds : Covers(checkpoint, r)

\* A merge leaves out no message up to the end of its backlog, and what it reads
\* lies behind the cursor it has seen.
Reads(b) ==
  InHand(b) =>
    /\ \A q \in b.backlog :
         /\ b.seen.stale \/ ~Covers(b.seen, q)
         /\ \A r \in rows : r.at <= q.at => r \in b.backlog \cup Held(b)
    /\ \A r \in b.seen.holds : Covers(b.seen, r)

\* The compare-and-swap will refuse the merge, not least for a latch.
Stopped(b) == ~b.seen.stale /\ ~Unmoved(b.seen)

\* A message that is gone and was counted is known to be, or the merge that has
\* counted it does not land.
Accounted(b) == InHand(b) => \A r \in Counted(b) \ rows : Gap(r) \/ Stopped(b)

SummaryInv ==
  /\ Contiguous /\ SummaryForgets
  /\ \A k \in Turns : Reads(body[k]) /\ Accounted(body[k])

LEMMA ExcusesStay == [Next]_vars => excused \subseteq excused'
<1> SUFFICES ASSUME [Next]_vars PROVE excused \subseteq excused'
  OBVIOUS
<1>1. CASE TakeTurn \/ PersistJournal \/ Push
  BY <1>1 DEF TakeTurn, PersistJournal, Push
<1>2. ASSUME NEW k \in Turns, NEW answer, Asks(k, answer) PROVE excused \subseteq excused'
  BY <1>2 DEF Asks
<1>3. ASSUME NEW k \in Turns, BodyStep(k) PROVE excused \subseteq excused'
  <2>1. CASE Enter(k)
    BY <1>2, <2>1 DEF Enter
  <2>2. CASE Clear(k)
    BY <1>2, <2>2 DEF Clear
  <2>3. CASE Validate(k)
    BY <1>2, <2>3 DEF Validate
  <2>4. CASE Write(k) \/ MergeReads(k) \/ DigestSaves(k) \/ BodyDies(k)
    BY <2>4 DEF Write, MergeReads, DigestSaves, BodyDies
  <2>5. CASE MergeChecks(k)
    BY <2>5 DEF MergeChecks
  <2>6. CASE MergeSaves(k)
    BY <2>6 DEF MergeSaves
  <2> QED BY <1>3, <2>1, <2>2, <2>3, <2>4, <2>5, <2>6 DEF BodyStep
<1>4. ASSUME NEW u \in Undoers, UndoStep(u) PROVE excused \subseteq excused'
  <2>1. CASE Begin(u)
    BY <2>1 DEF Begin
  <2>2. CASE Truncate(u)
    BY <2>2 DEF Truncate
  <2>3. CASE StepFails(u)
    BY <2>3 DEF StepFails
  <2>4. CASE Guard(u) \/ DeleteTraces(u) \/ Finish(u) \/ UndoDies(u)
    BY <2>4 DEF Guard, DeleteTraces, Finish, UndoDies
  <2> QED BY <1>4, <2>1, <2>2, <2>3, <2>4 DEF UndoStep
<1>5. CASE UNCHANGED vars
  BY <1>5 DEF vars
<1> QED BY <1>1, <1>3, <1>4, <1>5 DEF Next

LEMMA InitSummary == Init => SummaryInv
<1> SUFFICES ASSUME Init PROVE SummaryInv
  OBVIOUS
<1>1. rows = {} /\ checkpoint.holds = {} /\ \A k \in Turns : body[k].at = "none"
  BY DEF Init, NoCheckpoint, At
<1> QED BY <1>1 DEF SummaryInv, Contiguous, SummaryForgets, Reads, Accounted, InHand

\* Every read body is one of the type, and its messages have times.
LEMMA BodyFacts ==
  ASSUME UndoTypeInv, NEW k \in Turns
  PROVE  /\ body[k] \in Bodies /\ ReadSome(body[k])
         /\ body[k].backlog \in SUBSET Rows /\ body[k].seen \in Checkpoints
         /\ body[k].seen.holds \in SUBSET Rows /\ body[k].seen.upto \in Nat
         /\ body[k].seen.stale \in BOOLEAN
         /\ \A q \in body[k].backlog \cup body[k].seen.holds : q.at \in Nat
<1>1. body[k] \in Bodies /\ ReadSome(body[k])
  BY DEF UndoTypeInv, BodiesTyped
<1>2. body[k].backlog \in SUBSET Rows /\ body[k].seen \in Checkpoints
  BY <1>1 DEF Bodies
<1>3. body[k].seen.holds \in SUBSET Rows /\ body[k].seen.upto \in Nat
      /\ body[k].seen.stale \in BOOLEAN
  BY <1>2, Bounds DEF Checkpoints
<1>4. \A q \in Rows : q.at \in Nat
  BY Bounds DEF Rows
<1> QED BY <1>1, <1>2, <1>3, <1>4

LEMMA RowFacts ==
  ASSUME UndoTypeInv
  PROVE  /\ sent \in Nat /\ taken \in Nat
         /\ \A r \in rows : r \in Rows /\ r.at \in Nat /\ r.at <= sent /\ r.at >= 1
         /\ checkpoint \in Checkpoints /\ checkpoint.upto \in Nat /\ checkpoint.upto <= sent
         /\ checkpoint.stale \in BOOLEAN
         /\ \A r \in checkpoint.holds : r \in Rows /\ r.at \in Nat
  BY Bounds DEF UndoTypeInv, RowsTyped, ReadersTyped, Checkpoints, Rows

\* A step that leaves the messages and the checkpoint is right if the merges that
\* it moves are.
LEMMA SummaryStays ==
  ASSUME SummaryInv, UNCHANGED <<rows, checkpoint>>, excused \subseteq excused',
         \A k \in Turns : \/ body'[k] = body[k]
                          \/ ~InHand(body[k])'
                          \/ (Reads(body[k]) /\ Accounted(body[k]))'
  PROVE  SummaryInv'
<1>1. Contiguous' /\ SummaryForgets'
  BY DEF SummaryInv, Contiguous, SummaryForgets, Covers
<1>2. ASSUME NEW k \in Turns PROVE (Reads(body[k]) /\ Accounted(body[k]))'
  <2>1. CASE body'[k] = body[k]
    <3>1. Reads(body[k])'
      BY <2>1 DEF SummaryInv, Reads, InHand, Held, Covers
    <3>2. Accounted(body[k])'
      BY <2>1 DEF SummaryInv, Accounted, InHand, Counted, Held, Gap, Stopped, Unmoved
    <3> QED BY <3>1, <3>2
  <2>2. CASE ~InHand(body[k])'
    BY <2>2 DEF Reads, Accounted
  <2> QED BY <2>1, <2>2
<1> QED BY <1>1, <1>2 DEF SummaryInv

\* The same of a step of one body.
LEMMA SummaryMoves ==
  ASSUME UndoTypeInv, SummaryInv, UNCHANGED <<rows, checkpoint>>, excused \subseteq excused',
         NEW k \in Turns, NEW b, Goes(k, b),
         ~InHand(b) \/ (Reads(body[k]) /\ Accounted(body[k]))'
  PROVE  SummaryInv'
<1>1. body'[k] = b /\ \A j \in Turns \ {k} : body'[j] = body[j]
  BY DEF Goes, UndoTypeInv, BodiesTyped
<1>2. ASSUME NEW j \in Turns
      PROVE  \/ body'[j] = body[j]
             \/ ~InHand(body[j])'
             \/ (Reads(body[j]) /\ Accounted(body[j]))'
  <2>1. CASE j # k
    BY <1>1, <2>1
  <2>2. CASE j = k /\ ~InHand(b)
    BY <1>1, <2>2 DEF InHand
  <2>3. CASE j = k /\ (Reads(body[k]) /\ Accounted(body[k]))'
    BY <2>3
  <2> QED BY <2>1, <2>2, <2>3
<1> QED BY <1>2, SummaryStays

\* A message that comes is later than all that a merge has read.
LEMMA SummaryGrows ==
  ASSUME UndoTypeInv, SummaryInv, NEW turn \in 0..MaxTurns, Append(turn),
         sent + 1 <= LastRow, checkpoint' = checkpoint, excused' = excused,
         \A k \in Turns : body'[k] = body[k] \/ ~InHand(body[k])'
  PROVE  SummaryInv'
<1> DEFINE new == NextRow(turn)
<1>1. rows' = rows \cup {new} /\ new.at = sent + 1 /\ new \notin rows
  BY Appended
<1> HIDE DEF new
<1>2. Contiguous'
  <2>1. ~Covers(checkpoint, new)
    BY <1>1, RowFacts DEF Covers
  <2> QED BY <1>1, <2>1 DEF SummaryInv, Contiguous, Covers
<1>3. SummaryForgets'
  BY <1>1 DEF SummaryInv, SummaryForgets
<1>4. ASSUME NEW k \in Turns, body'[k] = body[k] PROVE Reads(body[k])' /\ Accounted(body[k])'
  <2>1. Accounted(body[k])'
    BY <1>1, <1>4 DEF SummaryInv, Accounted, InHand, Counted, Held, Gap, Stopped, Unmoved
  <2>2. ASSUME InHand(body[k]), NEW q \in body[k].backlog, NEW r \in rows', r.at <= q.at
        PROVE  r \in rows
    BY <1>1, <2>2, BodyFacts, RowFacts DEF ReadSome
  <2>3. Reads(body[k])'
    BY <1>4, <2>2 DEF SummaryInv, Reads, InHand, Held, Covers
  <2> QED BY <2>1, <2>3
<1>5. ASSUME NEW k \in Turns PROVE Reads(body[k])' /\ Accounted(body[k])'
  <2>1. CASE ~InHand(body[k])'
    BY <2>1 DEF Reads, Accounted
  <2> QED BY <1>4, <2>1
<1> QED BY <1>2, <1>3, <1>5 DEF SummaryInv

LEMMA ThreadStepKeepsSummary ==
  ASSUME UndoTypeInv, SummaryInv, TakeTurn \/ PersistJournal \/ Push
  PROVE  SummaryInv'
<1>0. taken \in Nat /\ sent \in Nat /\ sent <= taken + MaxPushes /\ taken \in 0..MaxTurns
      /\ taken <= sent
  BY Bounds DEF UndoTypeInv, RowsTyped, RowsCounted
<1>1. CASE TakeTurn
  <2>1. taken < MaxTurns /\ taken' = taken + 1 /\ body' = [body EXCEPT ![taken'] = At("queued")]
        /\ Append(taken') /\ checkpoint' = checkpoint /\ excused' = excused
    BY <1>1 DEF TakeTurn
  <2>2. taken' \in Turns /\ taken' \in 0..MaxTurns /\ sent + 1 <= LastRow
    BY <1>0, <2>1, Bounds DEF Turns
  <2>3. At("queued").at = "queued"
    BY FreshBodies DEF Phases
  <2>4. \A k \in Turns : body'[k] = body[k] \/ ~InHand(body[k])'
    BY <2>1, <2>2, <2>3 DEF InHand, UndoTypeInv, BodiesTyped
  <2> DEFINE t == taken'
  <2> HIDE DEF t
  <2>5. t \in 0..MaxTurns /\ Append(t)
    BY <2>1, <2>2 DEF t
  <2> QED BY <2>1, <2>2, <2>4, <2>5, SummaryGrows
<1>2. CASE Push
  <2>1. sent - taken < MaxPushes /\ Append(Elsewhere) /\ UNCHANGED <<body, checkpoint, excused>>
    BY <1>2 DEF Push
  <2>2. Elsewhere \in 0..MaxTurns /\ sent + 1 <= LastRow
    BY <1>0, <2>1, Bounds DEF Elsewhere
  <2> QED BY <2>1, <2>2, SummaryGrows
<1>3. CASE PersistJournal
  BY <1>3, SummaryStays DEF PersistJournal
<1> QED BY <1>1, <1>2, <1>3

\* The raw tail is a suffix: what is older than a message behind it is behind it.
LEMMA TailIsSuffix ==
  ASSUME UndoTypeInv, NEW R \in SUBSET rows, NEW q \in R \ Newest(R, Tail),
         NEW r \in R, r.at <= q.at
  PROVE  r \notin Newest(R, Tail)
<1> DEFINE after(x) == {y \in R : y.at > x.at}
<1>1. IsFiniteSet(R)
  BY FS_Subset DEF UndoTypeInv, RowsCounted
<1>2. after(r) \in SUBSET R /\ after(q) \in SUBSET R
  OBVIOUS
<1>3. IsFiniteSet(after(r)) /\ IsFiniteSet(after(q))
  BY <1>1, <1>2, FS_Subset
<1>4. after(q) \in SUBSET after(r)
  BY RowFacts
<1>5. Cardinality(after(q)) <= Cardinality(after(r))
      /\ Cardinality(after(q)) \in Nat /\ Cardinality(after(r)) \in Nat
  BY <1>3, <1>4, FS_Subset, FS_CardinalityType
<1>6. ~(Cardinality(after(q)) < Tail)
  BY DEF Newest
<1>7. ~(Cardinality(after(r)) < Tail)
  <2> HIDE DEF after
  <2> QED BY <1>5, <1>6, Bounds
<1> QED BY <1>7 DEF Newest

LEMMA MergeReadsKeepsSummary ==
  ASSUME UndoTypeInv, SummaryInv, NEW k \in Turns, MergeReads(k)
  PROVE  SummaryInv'
<1> DEFINE c == checkpoint
           read == IF c.stale THEN NoCheckpoint ELSE c
           backlog == Middle(read)
           b == [At("merging") EXCEPT !.seen = c, !.backlog = backlog]
<1>0. UNCHANGED <<rows, checkpoint>> /\ excused' = excused
  BY DEF MergeReads, threadVars
<1>1. CASE Goes(k, Distilled)
  <2>1. ~InHand(Distilled)
    BY BodyDistilled DEF InHand
  <2> QED BY <1>0, <1>1, <2>1, SummaryMoves
<1>2. CASE Goes(k, b)
  <2> DEFINE uncovered == {r \in rows : ~Covers(read, r)}
  <2>1. backlog = uncovered \ Newest(uncovered, Tail)
    BY DEF Middle
  <2>2. backlog \in SUBSET uncovered /\ uncovered \in SUBSET rows /\ backlog \in SUBSET Rows
    BY <2>1 DEF UndoTypeInv, RowsTyped
  <2>3. \A r \in uncovered : \A q \in backlog : r.at <= q.at => r \in backlog
    <3> HIDE DEF uncovered, backlog
    <3>1. ASSUME NEW r \in uncovered, NEW q \in backlog, r.at <= q.at PROVE r \in backlog
      <4>1. r \notin Newest(uncovered, Tail)
        BY <2>1, <2>2, <3>1, TailIsSuffix
      <4> QED BY <2>1, <3>1, <4>1
    <3> QED BY <3>1
  <2>4. c \in Checkpoints
    BY RowFacts
  <2>5. b \in Bodies /\ b.at = "merging" /\ b.seen = c /\ b.backlog = backlog
    <3> HIDE DEF backlog, c
    <3> QED BY <2>2, <2>4, BodyReads
  <2> HIDE DEF b
  <2>6. body'[k] = b
    BY <1>2 DEF Goes, UndoTypeInv, BodiesTyped
  <2>7. \A r \in rows : Covers(read, r) => r \in (IF c.stale THEN {} ELSE c.holds)
    <3>1. CASE c.stale
      <4>1. read.upto = 0
        BY <3>1 DEF NoCheckpoint
      <4>2. \A r \in rows : ~(r.at <= 0)
        BY RowFacts
      <4> QED BY <4>1, <4>2 DEF Covers
    <3>2. CASE ~c.stale
      BY <3>2 DEF SummaryInv, Contiguous
    <3> QED BY <3>1, <3>2
  <2>8. Reads(b)
    <3>1. ASSUME NEW q \in backlog PROVE c.stale \/ ~Covers(c, q)
      <4>1. ~Covers(read, q)
        BY <2>2
      <4> QED BY <4>1
    <3>2. ASSUME NEW q \in backlog, NEW r \in rows, r.at <= q.at
          PROVE  r \in backlog \cup Held(b)
      <4>1. CASE Covers(read, r)
        BY <2>5, <2>7, <4>1 DEF Held
      <4>2. CASE ~Covers(read, r)
        BY <2>3, <3>2, <4>2
      <4> QED BY <4>1, <4>2
    <3>3. \A r \in c.holds : Covers(c, r)
      BY DEF SummaryInv, Contiguous
    <3> HIDE DEF backlog, c
    <3> QED BY <2>5, <3>1, <3>2, <3>3 DEF Reads
  <2>9. Accounted(b)
    <3>1. Counted(b) = IF c.stale THEN {} ELSE c.holds
      BY <2>5 DEF Counted, Held
    <3>2. \A r \in Counted(b) \ rows : Gap(r)
      BY <3>1 DEF SummaryInv, SummaryForgets, Gap
    <3> QED BY <3>2 DEF Accounted
  <2>10. (Reads(body[k]) /\ Accounted(body[k]))'
    BY <1>0, <2>6, <2>8, <2>9
       DEF Reads, Accounted, InHand, Held, Counted, Gap, Stopped, Unmoved, Covers
  <2> QED BY <1>0, <1>2, <2>10, SummaryMoves
<1> QED BY <1>1, <1>2 DEF MergeReads

LEMMA MergeChecksKeepsSummary ==
  ASSUME UndoTypeInv, SummaryInv, NEW k \in Turns, MergeChecks(k), excused \subseteq excused'
  PROVE  SummaryInv'
<1>0. UNCHANGED <<rows, checkpoint>> /\ body[k].at = "merging"
  BY DEF MergeChecks, threadVars
<1>1. CASE Goes(k, Distilled)
  <2>1. ~InHand(Distilled)
    BY BodyDistilled DEF InHand
  <2> QED BY <1>0, <1>1, <2>1, SummaryMoves
<1>2. CASE /\ StillExists(body[k].backlog)
           /\ Moves(k, "checked")
           /\ LET missed == {r \in body[k].backlog \ rows : Scrolled(r)}
              IN  excused' = excused \cup {<<"gap", r.at>> : r \in missed}
  <2> DEFINE b == [body[k] EXCEPT !.at = "checked"]
  <2>1. "checked" \in Phases
    BY DEF Phases
  <2>2. b.at = "checked" /\ b.seen = body[k].seen /\ b.backlog = body[k].backlog
    BY <2>1, BodyFacts, BodyChanged
  <2>3. Goes(k, b)
    BY <1>2 DEF Moves
  <2> HIDE DEF b
  <2>4. body'[k] = b
    BY <2>3 DEF Goes, UndoTypeInv, BodiesTyped
  <2>5. InHand(body[k]) /\ Reads(body[k]) /\ Accounted(body[k])
    BY <1>0 DEF SummaryInv, InHand
  <2>6. Reads(body[k])'
    BY <1>0, <2>2, <2>4, <2>5 DEF Reads, InHand, Held, Covers
  <2>7. \A r \in body[k].backlog \ rows : <<"gap", r.at>> \in excused'
    BY <1>2 DEF StillExists
  <2>8. \A r \in Held(body[k]) \ rows : Gap(r) \/ Stopped(body[k])
    BY <2>5 DEF Accounted, Counted
  <2>9. (Counted(body[k]))' = Held(body[k]) \cup body[k].backlog
    BY <2>2, <2>4 DEF Counted, Held
  <2>10. ASSUME NEW r, r \in Held(body[k]) \cup body[k].backlog, r \notin rows
         PROVE  <<"gap", r.at>> \in excused' \/ Stopped(body[k])
    BY <2>7, <2>8, <2>10 DEF Gap
  <2>11. Stopped(body[k]) => Stopped(body[k])'
    BY <1>0, <2>2, <2>4 DEF Stopped, Unmoved
  <2>12. Accounted(body[k])'
    BY <1>0, <2>9, <2>10, <2>11 DEF Accounted, Gap
  <2> QED BY <1>0, <2>3, <2>6, <2>12, SummaryMoves
<1> QED BY <1>1, <1>2 DEF MergeChecks

\* What a merge has counted and is gone when another one lands at the cursor it
\* has seen is named by Returns.
LEMMA MergeSavesKeepsSummary ==
  ASSUME UndoTypeInv, SummaryInv, NEW k \in Turns, MergeSaves(k), excused \subseteq excused'
  PROVE  SummaryInv'
<1>0. /\ rows' = rows /\ body[k].at = "checked" /\ InHand(body[k]) /\ Goes(k, Distilled)
      /\ body[k] \in Bodies
  BY BodyFacts DEF MergeSaves, threadVars, InHand
<1>1. ~InHand(Distilled)
  BY BodyDistilled DEF InHand
<1>2. CASE ~Unmoved(body[k].seen)
  <2>1. checkpoint' = checkpoint
    BY <1>2 DEF MergeSaves
  <2> QED BY <1>0, <1>1, <2>1, SummaryMoves
<1>3. CASE Unmoved(body[k].seen)
  <2> DEFINE c == Merged(body[k].seen, body[k].backlog)
  <2>1. checkpoint' = c /\ \A r \in Returns(k) : <<"gap", r.at>> \in excused'
    BY <1>3 DEF MergeSaves
  <2>2. /\ c.upto = Max({r.at : r \in body[k].backlog}) /\ ~c.stale
        /\ c.holds = body[k].backlog \cup Held(body[k])
        /\ \E q \in body[k].backlog : q.at = c.upto
        /\ \A r \in body[k].backlog : r.at <= c.upto
    BY <1>0, MergedCheckpoint DEF Held
  <2> HIDE DEF c
  <2>3. Reads(body[k]) /\ Accounted(body[k])
    BY DEF SummaryInv
  <2>4. c.holds = Counted(body[k])
    BY <1>0, <2>2 DEF Counted
  <2>5. Contiguous'
    <3>1. \A r \in rows : r.at <= c.upto => r \in c.holds
      BY <1>0, <2>2, <2>3 DEF Reads
    <3>2. ASSUME NEW r \in Held(body[k]) PROVE r.at <= c.upto
      <4>1. ~body[k].seen.stale /\ r \in body[k].seen.holds
        BY <3>2 DEF Held
      <4>2. r.at <= body[k].seen.upto
        BY <1>0, <2>3, <4>1 DEF Reads, Covers
      <4>3. PICK q \in body[k].backlog : q.at = c.upto
        BY <2>2
      <4>4. ~(q.at <= body[k].seen.upto)
        BY <1>0, <2>3, <4>1 DEF Reads, Covers
      <4>5. q.at \in Nat /\ r.at \in Nat /\ body[k].seen.upto \in Nat
        BY <4>1, BodyFacts
      <4> QED BY <4>2, <4>3, <4>4, <4>5
    <3>3. \A r \in c.holds : r.at <= c.upto
      BY <2>2, <3>2
    <3> QED BY <1>0, <2>1, <3>1, <3>3 DEF Contiguous, Covers
  <2>6. SummaryForgets'
    <3>1. ~Stopped(body[k])
      BY <1>3 DEF Stopped
    <3>2. \A r \in c.holds \ rows : Gap(r)
      BY <1>0, <2>3, <2>4, <3>1 DEF Accounted
    <3> QED BY <1>0, <2>1, <3>2 DEF SummaryForgets, Gap
  <2>7. ASSUME NEW j \in Turns, j # k PROVE (Reads(body[j]) /\ Accounted(body[j]))'
    <3>1. body'[j] = body[j] /\ Reads(body[j]) /\ Accounted(body[j])
      BY <1>0, <2>7 DEF SummaryInv, Goes, UndoTypeInv, BodiesTyped
    <3>2. Reads(body[j])'
      BY <1>0, <3>1 DEF Reads, InHand, Held, Covers
    <3>3. ASSUME InHand(body[j]), NEW r \in Counted(body[j]) \ rows
          PROVE  <<"gap", r.at>> \in excused' \/ Stopped(body[j])'
      <4>1. CASE Gap(r)
        BY <4>1 DEF Gap
      <4>2. CASE body[j].seen.stale
        BY <3>1, <3>3, <4>2 DEF Accounted, Stopped, Gap
      <4>3. CASE ~body[j].seen.stale /\ body[j].seen.upto # c.upto
        BY <2>1, <3>1, <4>3 DEF Stopped, Unmoved
      <4>4. CASE ~body[j].seen.stale /\ body[j].seen.upto = c.upto
        <5>1. r \in Rows \ rows
          BY <3>3, BodyFacts DEF Counted, Held
        <5>2. \/ body[j].at \in {"merging", "checked"} /\ r \in body[j].seen.holds
              \/ body[j].at = "checked" /\ r \in body[j].backlog
          BY <3>3, <4>4 DEF Counted, Held, InHand
        <5>3. body[j].seen.upto = Max({q.at : q \in body[k].backlog})
          BY <2>2, <4>4
        <5>4. r \in Returns(k)
          BY <4>4, <5>1, <5>2, <5>3 DEF Returns
        <5> QED BY <2>1, <5>4
      <4> QED BY <4>1, <4>2, <4>3, <4>4
    <3>4. Accounted(body[j])'
      <4>1. Counted(body[j])' = Counted(body[j]) /\ InHand(body[j])' = InHand(body[j])
        BY <3>1 DEF Counted, Held, InHand
      <4> QED BY <1>0, <3>3, <4>1 DEF Accounted, Gap
    <3> QED BY <3>2, <3>4
  <2>8. (Reads(body[k]) /\ Accounted(body[k]))'
    <3>1. body'[k] = Distilled
      BY <1>0 DEF Goes, UndoTypeInv, BodiesTyped
    <3> QED BY <1>1, <3>1 DEF Reads, Accounted, InHand
  <2> QED BY <2>5, <2>6, <2>7, <2>8 DEF SummaryInv
<1> QED BY <1>2, <1>3

LEMMA BodyStepKeepsSummary ==
  ASSUME UndoTypeInv, SummaryInv, NEW k \in Turns, BodyStep(k), excused \subseteq excused'
  PROVE  SummaryInv'
<1>1. \A phase \in {"queued", "done"} : ~InHand(At(phase))
  BY FreshBodies DEF InHand, Phases
<1>2. ASSUME NEW phase \in {"cleared", "wrote", "stored"}, Moves(k, phase)
      PROVE  \E b : Goes(k, b) /\ ~InHand(b)
  <2>1. [body[k] EXCEPT !.at = phase].at = phase
    BY BodyFacts, BodyChanged DEF Phases
  <2> QED BY <1>2, <2>1 DEF Moves, InHand
<1>3. CASE Enter(k)
  <2>1. \E b : Goes(k, b) /\ ~InHand(b)
    <3>1. \A text : ~InHand([At("extracting") EXCEPT !.text = text])
      BY FreshBodies DEF InHand, Phases, At
    <3> QED BY <1>1, <1>3, <3>1 DEF Enter
  <2> QED BY <1>3, <2>1, SummaryMoves DEF Enter, threadVars
<1>4. CASE Clear(k)
  <2>1. \E b : Goes(k, b) /\ ~InHand(b)
    BY <1>1, <1>2, <1>4 DEF Clear
  <2> QED BY <1>4, <2>1, SummaryMoves DEF Clear, threadVars
<1>5. CASE Write(k)
  <2>1. \E b : Goes(k, b) /\ ~InHand(b)
    BY <1>2, <1>5 DEF Write
  <2> QED BY <1>5, <2>1, SummaryMoves DEF Write, threadVars
<1>6. CASE DigestSaves(k)
  <2>1. \E b : Goes(k, b) /\ ~InHand(b)
    BY <1>1, <1>2, <1>6 DEF DigestSaves
  <2> QED BY <1>6, <2>1, SummaryMoves DEF DigestSaves, threadVars
<1>7. CASE Validate(k)
  <2>1. \E b : Goes(k, b) /\ ~InHand(b)
    BY <1>1, <1>7 DEF Validate
  <2> QED BY <1>7, <2>1, SummaryMoves DEF Validate, threadVars
<1>8. CASE BodyDies(k)
  <2>1. \E b : Goes(k, b) /\ ~InHand(b)
    BY <1>1, <1>8 DEF BodyDies
  <2> QED BY <1>8, <2>1, SummaryMoves DEF BodyDies, threadVars
<1> QED BY <1>3, <1>4, <1>5, <1>6, <1>7, <1>8, MergeReadsKeepsSummary,
           MergeChecksKeepsSummary, MergeSavesKeepsSummary DEF BodyStep

\* A latch stops a merge that has seen no mark, and unstops none.
LEMMA GuardKeepsSummary ==
  ASSUME UndoTypeInv, SummaryInv, NEW u \in Undoers, Guard(u)
  PROVE  SummaryInv'
<1> DEFINE latches == Exists(checkpoint) /\ InReach(undo[u].turn)
<1>1. checkpoint' = [checkpoint EXCEPT !.stale = @ \/ latches]
      /\ UNCHANGED <<rows, body, excused>>
  BY DEF Guard, threadVars
<1>2. latches \in BOOLEAN
  BY DEF Exists, InReach
<1> HIDE DEF latches
<1>3. /\ checkpoint'.upto = checkpoint.upto /\ checkpoint'.holds = checkpoint.holds
      /\ checkpoint.stale => checkpoint'.stale = checkpoint.stale
      /\ ~latches => checkpoint' = checkpoint
  BY <1>1, <1>2, Marked
<1>4. CASE ~latches
  <2>1. checkpoint' = checkpoint
    BY <1>3, <1>4
  <2> QED BY <1>1, <2>1, SummaryStays
<1>5. CASE latches
  <2>1. checkpoint'.stale = TRUE
    BY <1>1, <1>5, RowFacts DEF Checkpoints
  <2>2. Contiguous' /\ SummaryForgets'
    BY <1>1, <1>3, <2>1 DEF SummaryInv, Contiguous, SummaryForgets, Covers
  <2>3. ASSUME NEW k \in Turns PROVE (Reads(body[k]) /\ Accounted(body[k]))'
    <3>1. Reads(body[k])'
      BY <1>1 DEF SummaryInv, Reads, InHand, Held, Covers
    <3>2. Stopped(body[k]) => Stopped(body[k])'
      BY <1>1, <1>3, <2>1, BodyFacts DEF Stopped, Unmoved
    <3>3. Accounted(body[k])'
      BY <1>1, <3>2 DEF SummaryInv, Accounted, InHand, Counted, Held, Gap
    <3> QED BY <3>1, <3>3
  <2> QED BY <2>2, <2>3 DEF SummaryInv
<1> QED BY <1>4, <1>5

\* The messages that go are not in the summary, or Gaps names them, or the mark
\* is up; and of a merge in flight, they have not been counted, or Gaps names
\* them, or the mark stops it.
LEMMA TruncateKeepsSummary ==
  ASSUME UndoTypeInv, SummaryInv, NEW u \in Undoers, Truncate(u), excused \subseteq excused'
  PROVE  SummaryInv'
<1> DEFINE dropped == Reverted(undo[u].turn)
<1>1. /\ rows' = rows \ dropped /\ UNCHANGED <<body, checkpoint>>
      /\ \A r \in Gaps(u, dropped) : <<"gap", r.at>> \in excused'
  BY DEF Truncate
<1>2. dropped \subseteq rows
  BY DEF Reverted, Thread
<1> HIDE DEF dropped
<1>3. Contiguous'
  BY <1>1 DEF SummaryInv, Contiguous, Covers
<1>4. ASSUME NEW r \in dropped, r \in checkpoint.holds, ~checkpoint.stale
      PROVE  <<"gap", r.at>> \in excused'
  <2>1. r \in Gaps(u, dropped)
    BY <1>4 DEF Gaps, Latched
  <2> QED BY <1>1, <2>1
<1>5. SummaryForgets'
  BY <1>1, <1>4 DEF SummaryInv, SummaryForgets
<1>6. ASSUME NEW k \in Turns PROVE Reads(body[k])'
  BY <1>1 DEF SummaryInv, Reads, InHand, Held, Covers
<1>7. ASSUME NEW k \in Turns, InHand(body[k]), NEW r \in Counted(body[k]), r \notin rows'
      PROVE  <<"gap", r.at>> \in excused' \/ Stopped(body[k])
  <2>1. CASE r \notin rows
    BY <1>7, <2>1 DEF SummaryInv, Accounted, Gap
  <2>2. CASE r \in dropped /\ body[k].at = "checked" /\ r \in body[k].backlog
    <3>1. CASE body[k].seen.stale \/ ~Latched(u, r)
      <4>1. r \in Gaps(u, dropped)
        BY <2>2, <3>1 DEF Gaps
      <4> QED BY <1>1, <4>1
    <3>2. CASE ~body[k].seen.stale /\ Latched(u, r)
      BY <3>2, BodyFacts DEF Latched, Stopped, Unmoved
    <3> QED BY <3>1, <3>2
  <2>3. CASE r \in dropped /\ r \in Held(body[k])
    <3>1. ~body[k].seen.stale /\ r \in body[k].seen.holds
      BY <2>3 DEF Held
    <3>2. CASE Stopped(body[k])
      BY <3>2
    <3>3. CASE Unmoved(body[k].seen)
      <4>1. checkpoint.upto = body[k].seen.upto /\ ~checkpoint.stale
        BY <3>1, <3>3 DEF Unmoved
      <4>2. r.at <= body[k].seen.upto
        BY <1>7, <3>1 DEF SummaryInv, Reads, Covers
      <4>3. r \in checkpoint.holds
        BY <1>2, <2>3, <4>1, <4>2 DEF SummaryInv, Contiguous, Covers
      <4> QED BY <1>4, <2>3, <4>1, <4>3
    <3> QED BY <3>1, <3>2, <3>3 DEF Stopped
  <2> QED BY <1>1, <1>7, <2>1, <2>2, <2>3 DEF Counted
<1>8. ASSUME NEW k \in Turns PROVE Accounted(body[k])'
  BY <1>1, <1>7 DEF Accounted, InHand, Counted, Held, Gap, Stopped, Unmoved
<1> QED BY <1>3, <1>5, <1>6, <1>8 DEF SummaryInv

LEMMA UndoStepKeepsSummary ==
  ASSUME UndoTypeInv, SummaryInv, NEW u \in Undoers, UndoStep(u), excused \subseteq excused'
  PROVE  SummaryInv'
<1>1. CASE Begin(u)
  BY <1>1, SummaryStays DEF Begin, threadVars
<1>2. CASE DeleteTraces(u)
  BY <1>2, SummaryStays DEF DeleteTraces, threadVars
<1>3. CASE Finish(u)
  BY <1>3, SummaryStays DEF Finish, threadVars
<1>4. CASE StepFails(u)
  BY <1>4, SummaryStays DEF StepFails, threadVars
<1>5. CASE UndoDies(u)
  BY <1>5, SummaryStays DEF UndoDies, threadVars
<1> QED BY <1>1, <1>2, <1>3, <1>4, <1>5, GuardKeepsSummary, TruncateKeepsSummary
    DEF UndoStep

LEMMA StillForgets == UndoTypeInv /\ SummaryInv /\ [Next]_vars => SummaryInv'
<1> SUFFICES ASSUME UndoTypeInv, SummaryInv, [Next]_vars PROVE SummaryInv'
  OBVIOUS
<1>0. excused \subseteq excused'
  BY ExcusesStay
<1>1. CASE TakeTurn \/ PersistJournal \/ Push
  BY <1>1, ThreadStepKeepsSummary
<1>2. ASSUME NEW k \in Turns, BodyStep(k) PROVE SummaryInv'
  BY <1>0, <1>2, BodyStepKeepsSummary
<1>3. ASSUME NEW u \in Undoers, UndoStep(u) PROVE SummaryInv'
  BY <1>0, <1>3, UndoStepKeepsSummary
<1>4. CASE UNCHANGED vars
  BY <1>0, <1>4, SummaryStays DEF vars, threadVars
<1> QED BY <1>1, <1>2, <1>3, <1>4 DEF Next

\* A merge leaves out no message up to the end of its backlog, and what it has
\* counted and is gone is known to be, or the compare-and-swap refuses it: this
\* is what a merge in flight owes the undo that runs beside it.
THEOREM MergesAccounted == Spec => []SummaryInv
<1>1. Init => SummaryInv
  BY InitSummary
<1>2. UndoTypeInv /\ SummaryInv /\ [Next]_vars => SummaryInv'
  BY StillForgets
<1> QED BY <1>1, <1>2, UndoParts, PTL DEF Spec

\* A summary that a prompt may read holds no message that was taken out of the
\* conversation, but for the gaps that are named: latch, re-read and
\* compare-and-swap leave no other.
THEOREM SummariesForget == Spec => []SummaryForgets
<1>1. SummaryInv => SummaryForgets
  BY DEF SummaryInv
<1> QED BY <1>1, MergesAccounted, PTL
-----------------------------------------------------------------------------
(* Positions in the thread *)

\* What is undone has its tombstone, or to raise it has failed.
Aimed ==
  /\ \A u \in Undoers : undo[u].at # "idle" => Targeted(undo[u].turn)
  /\ \A k \in undone : Targeted(k)

\* A message stands where its journal says, as long as it stands at all; and it is
\* gone by its own undo or by one that swept it.
Placed ==
  /\ \A r \in Thread : Position(r) = index[r.turn]
  /\ \A k \in 1..taken : \/ \E r \in Thread : r.turn = k
                         \/ Targeted(k) \/ Excuse(k, {"swept"})

PlaceInv == Aimed /\ Placed

LEMMA TombstonesStay == [Next]_vars => tombstones \subseteq tombstones'
<1> SUFFICES ASSUME [Next]_vars PROVE tombstones \subseteq tombstones'
  OBVIOUS
<1>1. CASE TakeTurn \/ PersistJournal \/ Push
  BY <1>1 DEF TakeTurn, PersistJournal, Push
<1>2. ASSUME NEW k \in Turns, BodyStep(k) PROVE tombstones' = tombstones
  BY <1>2 DEF BodyStep, Enter, Clear, Write, MergeReads, MergeChecks, MergeSaves,
              DigestSaves, Validate, BodyDies
<1>3. ASSUME NEW u \in Undoers, UndoStep(u) PROVE tombstones \subseteq tombstones'
  <2>1. CASE Begin(u)
    BY <2>1 DEF Begin
  <2>2. CASE ~Begin(u)
    BY <1>3, <2>2 DEF UndoStep, Guard, Truncate, DeleteTraces, Finish, StepFails, UndoDies
  <2> QED BY <2>1, <2>2
<1>4. CASE UNCHANGED vars
  BY <1>4 DEF vars
<1> QED BY <1>1, <1>2, <1>3, <1>4 DEF Next

\* The log of what is excused and the targets only grow.
Grown == excused \subseteq excused' /\ tombstones \subseteq tombstones'

LEMMA StepGrows == [Next]_vars => Grown
  BY ExcusesStay, TombstonesStay DEF Grown

LEMMA ExcuseLasts ==
  ASSUME Grown, NEW k, NEW why
  PROVE  Excuse(k, why) => Excuse(k, why)'
  BY DEF Grown, Excuse

LEMMA TargetLasts ==
  ASSUME Grown, NEW k
  PROVE  Targeted(k) => Targeted(k)'
  BY DEF Grown, Excuse, Targeted

\* An excuse for fewer causes is one for more.
LEMMA ExcuseWidens ==
  ASSUME NEW k, NEW few, NEW more, few \subseteq more, Excuse(k, few)
  PROVE  Excuse(k, more)
  BY DEF Excuse

LEMMA TargetNamed ==
  ASSUME NEW k, Targeted(k), k \notin tombstones, NEW why, "tombstone" \in why
  PROVE  Excuse(k, why)
  BY DEF Targeted, Excuse

LEMMA InitPlaces == Init => PlaceInv
<1> SUFFICES ASSUME Init PROVE PlaceInv
  OBVIOUS
<1>1. Thread = {} /\ undone = {} /\ taken = 0 /\ \A u \in Undoers : undo[u].at = "idle"
  BY DEF Init, Thread, Idle
<1>2. 1..taken = {}
  BY <1>1
<1> QED BY <1>1, <1>2 DEF PlaceInv, Aimed, Placed

LEMMA AimedStays ==
  ASSUME Aimed, Grown, UNCHANGED <<undo, undone>>
  PROVE  Aimed'
  BY TargetLasts DEF Aimed

\* A step of one undo, which goes on with its turn, ends, or takes up a target.
LEMMA AimedMoves ==
  ASSUME UndoTypeInv, Aimed, Grown, NEW u \in Undoers, NEW w \in Undos,
         undo' = [undo EXCEPT ![u] = w],
         w.at # "idle" => Targeted(w.turn)',
         \A k \in undone' \ undone : Targeted(k)
  PROVE  Aimed'
<1>1. undo'[u] = w /\ \A v \in Undoers \ {u} : undo'[v] = undo[v]
  BY DEF UndoTypeInv, UndosTyped
<1>2. ASSUME NEW v \in Undoers, undo'[v].at # "idle" PROVE Targeted(undo[v].turn)'
  <2>1. CASE v = u
    BY <1>1, <1>2, <2>1 DEF Targeted, Excuse
  <2>2. CASE v # u
    <3>1. Targeted(undo[v].turn)
      BY <1>1, <1>2, <2>2 DEF Aimed
    <3>2. undo'[v].turn = undo[v].turn
      BY <1>1, <2>2
    <3> QED BY <3>1, <3>2 DEF Targeted, Excuse, Grown
  <2> QED BY <2>1, <2>2
<1>3. \A k \in undone' : Targeted(k)'
  BY TargetLasts DEF Aimed
<1> QED BY <1>2, <1>3 DEF Aimed

LEMMA StillAimed ==
  ASSUME UndoTypeInv, Aimed, [Next]_vars
  PROVE  Aimed'
<1>0. Grown
  BY StepGrows
<1>1. CASE TakeTurn \/ PersistJournal \/ Push \/ UNCHANGED vars
  BY <1>0, <1>1, AimedStays DEF TakeTurn, PersistJournal, Push, vars
<1>2. ASSUME NEW k \in Turns, BodyStep(k) PROVE Aimed'
  <2>1. UNCHANGED <<undo, undone>>
    BY <1>2 DEF BodyStep, Enter, Clear, Write, MergeReads, MergeChecks, MergeSaves,
                DigestSaves, Validate, BodyDies
  <2> QED BY <1>0, <2>1, AimedStays
<1>3. ASSUME NEW u \in Undoers, UndoStep(u) PROVE Aimed'
  <2>0. undo[u] \in Undos /\ undo[u].turn \in 0..MaxTurns /\ undo \in [Undoers -> Undos]
    BY UndoAt DEF UndoTypeInv, UndosTyped
  <2>1. ASSUME NEW w \in Undos, undo' = [undo EXCEPT ![u] = w], undo[u].at # "idle",
               w.at # "idle" => w.turn = undo[u].turn,
               undone' \subseteq undone \cup {undo[u].turn}
        PROVE  Aimed'
    <3>1. Targeted(undo[u].turn)
      BY <2>1 DEF Aimed
    <3>2. w.at # "idle" => Targeted(w.turn)'
      <4>1. SUFFICES ASSUME w.at # "idle" PROVE Targeted(w.turn)'
        OBVIOUS
      <4>2. Targeted(w.turn)
        BY <2>1, <3>1, <4>1
      <4> QED BY <1>0, <4>2, TargetLasts
    <3> QED BY <1>0, <2>1, <3>1, <3>2, AimedMoves
  <2>2. CASE Begin(u)
    <3>1. PICK k \in journals :
            /\ undo' = [undo EXCEPT ![u] = [Idle EXCEPT !.at = "guard", !.turn = k]]
            /\ \/ tombstones' = tombstones \cup {k}
               \/ excused' = excused \cup {<<"tombstone", k>>}
      BY <2>2 DEF Begin
    <3>2. k \in 0..MaxTurns
      BY Bounds DEF UndoTypeInv, MarksTyped, RowsTyped
    <3> DEFINE w == [Idle EXCEPT !.at = "guard", !.turn = k]
    <3>3. w \in Undos /\ w.turn = k
      BY <3>2, FreshOthers DEF Undos, UndoSteps
    <3>4. Targeted(k)'
      BY <3>1 DEF Targeted, Excuse
    <3> HIDE DEF w
    <3>5. undo' = [undo EXCEPT ![u] = w] /\ undone' = undone /\ Targeted(w.turn)'
      BY <2>2, <3>1, <3>3, <3>4 DEF w, Begin
    <3> QED BY <1>0, <3>3, <3>5, AimedMoves
  <2>3. CASE Guard(u)
    <3> DEFINE k == undo[u].turn
               latches == Exists(checkpoint) /\ InReach(k)
               owed == IF latches THEN Reverted(k) ELSE {}
               w == [undo[u] EXCEPT !.at = "truncate", !.owed = owed]
    <3>1. owed \in SUBSET Rows
      BY DEF Reverted, Thread, UndoTypeInv, RowsTyped
    <3>2. undo' = [undo EXCEPT ![u] = w] /\ undone' = undone /\ undo[u].at # "idle"
      BY <2>0, <2>3 DEF Guard
    <3> HIDE DEF owed
    <3>3. w \in Undos /\ w.turn = undo[u].turn
      BY <2>0, <3>1 DEF Undos, UndoSteps
    <3> HIDE DEF w
    <3> QED BY <2>1, <3>2, <3>3
  <2>4. CASE Truncate(u)
    <3> DEFINE w == [undo[u] EXCEPT !.at = "traces", !.owed = {}]
    <3>1. undo' = [undo EXCEPT ![u] = w] /\ undone' = undone /\ undo[u].at # "idle"
      BY <2>0, <2>4 DEF Truncate
    <3>2. w \in Undos /\ w.turn = undo[u].turn
      BY <2>0 DEF Undos, UndoSteps
    <3> HIDE DEF w
    <3> QED BY <2>1, <3>1, <3>2
  <2>5. CASE DeleteTraces(u)
    <3> DEFINE w == [undo[u] EXCEPT !.at = "digest"]
    <3>1. undo' = [undo EXCEPT ![u] = w] /\ undone' = undone /\ undo[u].at # "idle"
      BY <2>0, <2>5 DEF DeleteTraces, Proceeds
    <3>2. w \in Undos /\ w.turn = undo[u].turn
      BY <2>0 DEF Undos, UndoSteps
    <3> HIDE DEF w
    <3> QED BY <2>1, <3>1, <3>2
  <2>6. CASE Finish(u)
    BY <2>1, <2>6, FreshOthers DEF Finish
  <2>7. CASE StepFails(u)
    <3>1. undo[u].at # "idle"
      BY <2>7 DEF StepFails
    <3>2. PICK w \in Undos :
            /\ undo' = [undo EXCEPT ![u] = w]
            /\ w.at # "idle" => w.turn = undo[u].turn
            /\ undone' \subseteq undone \cup {undo[u].turn}
      BY <2>7, StepFailsShape
    <3> QED BY <2>1, <3>1, <3>2
  <2>8. CASE UndoDies(u)
    BY <2>1, <2>8, FreshOthers DEF UndoDies
  <2> QED BY <1>3, <2>2, <2>3, <2>4, <2>5, <2>6, <2>7, <2>8 DEF UndoStep
<1> QED BY <1>1, <1>2, <1>3 DEF Next

\* Positions that rest on the same messages are the same.
LEMMA PlacedStays ==
  ASSUME Placed, Grown, UNCHANGED <<rows, index, taken>>
  PROVE  Placed'
<1>1. Thread' = Thread
  BY DEF Thread
<1>2. \A r \in Thread : Position(r)' = Position(r)
  BY <1>1 DEF Position
<1>3. ASSUME NEW k \in 1..taken
      PROVE  (\E r \in Thread : r.turn = k) \/ Targeted(k)' \/ Excuse(k, {"swept"})'
  BY TargetLasts, ExcuseLasts DEF Placed
<1> QED BY <1>1, <1>2, <1>3 DEF Placed

LEMMA TakeTurnPlaces ==
  ASSUME UndoTypeInv, Placed, TakeTurn, Grown
  PROVE  Placed'
<1>0. /\ taken \in Nat /\ sent \in Nat /\ taken < MaxTurns /\ taken' = taken + 1
      /\ sent <= taken + MaxPushes
  BY Bounds DEF UndoTypeInv, RowsTyped, RowsCounted, TakeTurn
<1>1. taken' \in 0..MaxTurns /\ taken' \in Turns /\ sent + 1 <= LastRow /\ taken' # Elsewhere
  BY <1>0, Bounds DEF Turns, Elsewhere
<1>t. PICK t \in Turns : t = taken'
  BY <1>1
<1>n. PICK new : new = NextRow(t)
  OBVIOUS
<1>2. /\ Thread' = Thread \cup {new} /\ new.at = sent + 1 /\ new.turn = t /\ new \notin rows
  <2>1. t \in 0..MaxTurns /\ Append(t) /\ t # Elsewhere
    BY <1>1, <1>t DEF TakeTurn
  <2> QED BY <1>1, <1>n, <2>1, Appended
<1>3. \A r \in Thread : r \in rows /\ r.at \in Nat /\ r.at <= sent /\ r.turn <= taken /\ r.turn \in Turns
  <2>1. \A r \in Thread : r \in rows /\ r.turn # Elsewhere
    BY DEF Thread
  <2>2. \A r \in rows : r.turn \in 0..MaxTurns /\ r.turn <= taken
    BY DEF UndoTypeInv, RowsTyped, RowsCounted, Rows
  <2> QED BY <2>1, <2>2, RowFacts, Bounds DEF Turns, Elsewhere
<1>4. \A r \in Thread : index'[r.turn] = index[r.turn]
  <2>1. index' = [index EXCEPT ![t] = Length] /\ index \in [Turns -> Nat]
    BY <1>t DEF TakeTurn, UndoTypeInv, RowsTyped
  <2>2. \A r \in Thread : r.turn # t
    BY <1>0, <1>3, <1>t, Bounds DEF Turns
  <2> QED BY <1>1, <1>3, <2>1, <2>2
<1>5. index'[t] = Length
  BY <1>1, <1>t DEF TakeTurn, UndoTypeInv, RowsTyped
<1>6. ASSUME NEW r \in Thread PROVE Position(r)' = index'[r.turn]
  <2>1. {q \in Thread' : q.at < r.at} = {q \in Thread : q.at < r.at}
    BY <1>0, <1>2, <1>3
  <2> QED BY <1>4, <2>1 DEF Position, Placed
<1>7. Position(new)' = Length
  <2>1. {q \in Thread' : q.at < new.at} = Thread
    BY <1>0, <1>2, <1>3
  <2> QED BY <2>1 DEF Position, Length
<1>8. \A r \in Thread' : Position(r)' = index'[r.turn]
  BY <1>2, <1>5, <1>6, <1>7
<1>9. ASSUME NEW k \in 1..taken'
      PROVE  (\E r \in Thread' : r.turn = k) \/ Targeted(k)' \/ Excuse(k, {"swept"})'
  <2>1. CASE k = taken'
    BY <1>2, <1>t, <2>1
  <2>2. CASE k \in 1..taken
    BY <1>2, <2>2, TargetLasts, ExcuseLasts DEF Placed
  <2> QED BY <1>0, <2>1, <2>2
<1> QED BY <1>8, <1>9 DEF Placed

LEMMA PushPlaces ==
  ASSUME UndoTypeInv, Placed, Push, Grown
  PROVE  Placed'
<1>0. /\ taken \in Nat /\ sent \in Nat /\ sent - taken < MaxPushes /\ taken \in 0..MaxTurns
      /\ UNCHANGED <<taken, index>> /\ Append(Elsewhere)
  BY Bounds DEF UndoTypeInv, RowsTyped, Push
<1>1. Thread' = Thread
  <2>1. sent + 1 <= LastRow /\ Elsewhere \in 0..MaxTurns
    BY <1>0, Bounds DEF Elsewhere
  <2> QED BY <1>0, <2>1, Appended
<1>2. \A r \in Thread : Position(r)' = Position(r)
  BY <1>1 DEF Position
<1>3. ASSUME NEW k \in 1..taken
      PROVE  (\E r \in Thread : r.turn = k) \/ Targeted(k)' \/ Excuse(k, {"swept"})'
  BY TargetLasts, ExcuseLasts DEF Placed
<1> QED BY <1>0, <1>1, <1>2, <1>3 DEF Placed

LEMMA EarlierIsLower ==
  ASSUME UndoTypeInv, NEW q \in Thread, NEW r \in Thread, q.at < r.at
  PROVE  Position(q) < Position(r)
<1> DEFINE before(x) == {y \in Thread : y.at < x.at}
<1>1. IsFiniteSet(before(q)) /\ IsFiniteSet(before(r))
  BY ThreadFinite
<1>2. \A y \in Thread : y.at \in Nat
  BY RowFacts DEF Thread
<1>3. before(q) \in SUBSET before(r)
  BY <1>2
<1>4. q \in before(r) /\ q \notin before(q)
  BY <1>2
<1>5. Cardinality(before(q)) <= Cardinality(before(r))
      /\ Cardinality(before(q)) # Cardinality(before(r))
      /\ Cardinality(before(q)) \in Nat /\ Cardinality(before(r)) \in Nat
  <2> HIDE DEF before
  <2> QED BY <1>1, <1>3, <1>4, FS_Subset, FS_CardinalityType
<1> QED BY <1>5 DEF Position

\* Two messages of the thread do not stand at the same position.
LEMMA PositionsDiffer ==
  ASSUME UndoTypeInv, NEW q \in Thread, NEW r \in Thread, Position(q) = Position(r)
  PROVE  q = r
<1>1. q \in rows /\ r \in rows /\ q.at \in Nat /\ r.at \in Nat
  BY RowFacts DEF Thread
<1>2. q.at = r.at => q = r
  BY <1>1 DEF UndoTypeInv, RowsCounted
<1>3. Position(q) \in Nat /\ Position(r) \in Nat
  BY ThreadFinite, FS_CardinalityType DEF Position
<1>4. ~(q.at < r.at) /\ ~(r.at < q.at)
  BY <1>3, EarlierIsLower
<1> QED BY <1>1, <1>2, <1>4

\* An undo cuts a suffix off, so that what stays keeps its position.
LEMMA TruncatePlaces ==
  ASSUME UndoTypeInv, Aimed, Placed, NEW u \in Undoers, Truncate(u), Grown
  PROVE  Placed'
<1>k. PICK k : k = undo[u].turn
  OBVIOUS
<1> DEFINE dropped == Reverted(k)
<1>1. /\ rows' = rows \ dropped /\ UNCHANGED <<index, taken>>
      /\ \A r \in dropped : r.turn # k => <<"swept", r.turn>> \in excused'
      /\ undo[u].at # "idle"
  BY <1>k DEF Truncate
<1>2. dropped = {r \in Thread : Position(r) >= index[k]}
  BY DEF Reverted
<1>3. Thread' = Thread \ dropped
  BY <1>1 DEF Thread
<1>4. Targeted(k)'
  BY <1>1, <1>k, TargetLasts DEF Aimed
<1>5. k \in Turns /\ index[k] \in Nat /\ \A r \in Thread : Position(r) \in Nat
  <2>1. k \in Turns
    BY <1>1, <1>k, UndoAt, RowFacts, Bounds DEF Turns, UndoTypeInv, RowsTyped
  <2>2. \A r \in Thread : Position(r) \in Nat
    BY ThreadFinite, FS_CardinalityType DEF Position
  <2> QED BY <2>1, <2>2 DEF UndoTypeInv, RowsTyped
<1> HIDE DEF dropped
<1>6. ASSUME NEW r \in Thread' PROVE Position(r)' = index[r.turn]
  <2>1. r \in Thread /\ Position(r) < index[k]
    BY <1>2, <1>3, <1>5
  <2>2. ASSUME NEW q \in Thread, q.at < r.at PROVE q \in Thread'
    <3>1. Position(q) < Position(r)
      BY <2>1, <2>2, EarlierIsLower
    <3>2. ~(Position(q) >= index[k])
      BY <1>5, <2>1, <3>1
    <3> QED BY <1>2, <1>3, <3>2
  <2>3. {q \in Thread' : q.at < r.at} = {q \in Thread : q.at < r.at}
    BY <1>3, <2>2
  <2> QED BY <2>1, <2>3 DEF Position, Placed
<1>7. ASSUME NEW j \in 1..taken
      PROVE  (\E r \in Thread' : r.turn = j) \/ Targeted(j)' \/ Excuse(j, {"swept"})'
  <2>1. CASE Targeted(j) \/ Excuse(j, {"swept"})
    BY <2>1, TargetLasts, ExcuseLasts
  <2>2. ASSUME NEW r \in Thread, r.turn = j
        PROVE  (\E q \in Thread' : q.turn = j) \/ Targeted(j)' \/ Excuse(j, {"swept"})'
    <3>1. CASE r \notin dropped
      BY <1>3, <2>2, <3>1
    <3>2. CASE r \in dropped /\ j = k
      BY <1>4, <3>2
    <3>3. CASE r \in dropped /\ j # k
      BY <1>1, <2>2, <3>3 DEF Excuse
    <3> QED BY <3>1, <3>2, <3>3
  <2> QED BY <2>1, <2>2 DEF Placed
<1> QED BY <1>1, <1>6, <1>7 DEF Placed

LEMMA StillPlaced == UndoTypeInv /\ PlaceInv /\ [Next]_vars => PlaceInv'
<1> SUFFICES ASSUME UndoTypeInv, PlaceInv, [Next]_vars PROVE PlaceInv'
  OBVIOUS
<1>0. Grown /\ Aimed /\ Placed /\ Aimed'
  BY StepGrows, StillAimed DEF PlaceInv
<1>1. CASE TakeTurn \/ Push
  BY <1>0, <1>1, TakeTurnPlaces, PushPlaces DEF PlaceInv
<1>2. CASE PersistJournal \/ UNCHANGED vars
  <2>1. UNCHANGED <<rows, index, taken>>
    BY <1>2 DEF PersistJournal, vars, threadVars
  <2> QED BY <1>0, <2>1, PlacedStays DEF PlaceInv
<1>3. ASSUME NEW k \in Turns, BodyStep(k) PROVE PlaceInv'
  <2>1. UNCHANGED <<rows, index, taken>>
    BY <1>3 DEF BodyStep, Enter, Clear, Write, MergeReads, MergeChecks, MergeSaves,
                DigestSaves, Validate, BodyDies, threadVars
  <2> QED BY <1>0, <2>1, PlacedStays DEF PlaceInv
<1>4. ASSUME NEW u \in Undoers, UndoStep(u) PROVE PlaceInv'
  <2>1. CASE Truncate(u)
    BY <1>0, <2>1, TruncatePlaces DEF PlaceInv
  <2>2. CASE ~Truncate(u)
    <3>1. UNCHANGED <<rows, index, taken>>
      BY <1>4, <2>2 DEF UndoStep, Begin, Guard, DeleteTraces, Finish, StepFails,
                        UndoDies, threadVars
    <3> QED BY <1>0, <3>1, PlacedStays DEF PlaceInv
  <2> QED BY <2>1, <2>2
<1> QED BY <1>1, <1>2, <1>3, <1>4 DEF Next
-----------------------------------------------------------------------------
(* Which steps touch what *)

\* The body may write, or has the text it will write about.
Reading(k) == body[k].at \in {"extracting", "cleared", "wrote"}

LEMMA TombstoneSteps == [Next]_vars => tombstones' = tombstones \/ \E u \in Undoers : Begin(u)
<1> SUFFICES ASSUME [Next]_vars PROVE tombstones' = tombstones \/ \E u \in Undoers : Begin(u)
  OBVIOUS
<1>1. CASE TakeTurn \/ PersistJournal \/ Push \/ UNCHANGED vars
  BY <1>1 DEF TakeTurn, PersistJournal, Push, vars
<1>2. ASSUME NEW k \in Turns, BodyStep(k) PROVE tombstones' = tombstones
  BY <1>2 DEF BodyStep, Enter, Clear, Write, MergeReads, MergeChecks, MergeSaves,
              DigestSaves, Validate, BodyDies
<1>3. ASSUME NEW u \in Undoers, UndoStep(u), ~Begin(u) PROVE tombstones' = tombstones
  BY <1>3 DEF UndoStep, Guard, Truncate, DeleteTraces, Finish, StepFails, UndoDies
<1> QED BY <1>1, <1>2, <1>3 DEF Next

LEMMA TraceSteps ==
  [Next]_vars => \/ UNCHANGED traceVars
                 \/ \E k \in Turns : Write(k)
                 \/ \E u \in Undoers : DeleteTraces(u)
<1> SUFFICES ASSUME [Next]_vars
             PROVE  \/ UNCHANGED traceVars
                    \/ \E k \in Turns : Write(k)
                    \/ \E u \in Undoers : DeleteTraces(u)
  OBVIOUS
<1>1. CASE TakeTurn \/ PersistJournal \/ Push \/ UNCHANGED vars
  BY <1>1 DEF TakeTurn, PersistJournal, Push, vars
<1>2. ASSUME NEW k \in Turns, BodyStep(k), ~Write(k) PROVE UNCHANGED traceVars
  BY <1>2 DEF BodyStep, Enter, Clear, MergeReads, MergeChecks, MergeSaves,
              DigestSaves, Validate, BodyDies
<1>3. ASSUME NEW u \in Undoers, UndoStep(u), ~DeleteTraces(u) PROVE UNCHANGED traceVars
  BY <1>3 DEF UndoStep, Begin, Guard, Truncate, Finish, StepFails, UndoDies
<1> QED BY <1>1, <1>2, <1>3 DEF Next

LEMMA DigestSteps ==
  [Next]_vars => \/ UNCHANGED digest
                 \/ \E k \in Turns : DigestSaves(k) \/ Validate(k)
                 \/ \E u \in Undoers : Finish(u)
<1> SUFFICES ASSUME [Next]_vars
             PROVE  \/ UNCHANGED digest
                    \/ \E k \in Turns : DigestSaves(k) \/ Validate(k)
                    \/ \E u \in Undoers : Finish(u)
  OBVIOUS
<1>1. CASE TakeTurn \/ PersistJournal \/ Push \/ UNCHANGED vars
  BY <1>1 DEF TakeTurn, PersistJournal, Push, vars
<1>2. ASSUME NEW k \in Turns, BodyStep(k), ~DigestSaves(k), ~Validate(k) PROVE UNCHANGED digest
  BY <1>2 DEF BodyStep, Enter, Clear, Write, MergeReads, MergeChecks, MergeSaves, BodyDies
<1>3. ASSUME NEW u \in Undoers, UndoStep(u), ~Finish(u) PROVE UNCHANGED digest
  BY <1>3 DEF UndoStep, Begin, Guard, Truncate, DeleteTraces, StepFails, UndoDies
<1> QED BY <1>1, <1>2, <1>3 DEF Next

\* A body comes to its text by Enter, to its writes by Clear, and goes on with the
\* same text from there.
LEMMA ReadingSteps ==
  ASSUME UndoTypeInv, [Next]_vars, NEW k \in Turns
  PROVE  \/ body'[k] = body[k]
         \/ body'[k].at = "extracting" /\ Enter(k)
         \/ body'[k].at = "cleared" /\ Clear(k)
            /\ body[k].at = "extracting" /\ body'[k].text = body[k].text
         \/ body'[k].at = "wrote" /\ body[k].at = "cleared" /\ body'[k].text = body[k].text
         \/ body'[k].at \notin {"extracting", "cleared", "wrote"}
<1> DEFINE Fine ==
         \/ body'[k] = body[k]
         \/ body'[k].at = "extracting" /\ Enter(k)
         \/ body'[k].at = "cleared" /\ Clear(k)
            /\ body[k].at = "extracting" /\ body'[k].text = body[k].text
         \/ body'[k].at = "wrote" /\ body[k].at = "cleared" /\ body'[k].text = body[k].text
         \/ body'[k].at \notin {"extracting", "cleared", "wrote"}
<1>0. body \in [Turns -> Bodies]
  BY DEF UndoTypeInv, BodiesTyped
<1>1. CASE TakeTurn
  <2>1. body' = [body EXCEPT ![taken'] = At("queued")] /\ At("queued").at = "queued"
    BY <1>1, FreshBodies DEF TakeTurn, Phases
  <2> QED BY <1>0, <2>1
<1>2. CASE PersistJournal \/ Push \/ UNCHANGED vars
  BY <1>2 DEF PersistJournal, Push, vars
<1>3. ASSUME NEW u \in Undoers, UndoStep(u) PROVE body' = body
  BY <1>3 DEF UndoStep, Begin, Guard, Truncate, DeleteTraces, Finish, StepFails, UndoDies
<1>4. ASSUME NEW j \in Turns, BodyStep(j) PROVE Fine
  <2>0. \A phase \in {"queued", "done"} : At(phase).at = phase
    BY FreshBodies DEF Phases
  <2>1. ASSUME NEW b, Goes(j, b), b.at \notin {"extracting", "cleared", "wrote"} PROVE Fine
    BY <1>0, <2>1 DEF Goes
  <2>2. CASE j # k
    <3>1. \E b : Goes(j, b)
      BY <1>4 DEF BodyStep, Enter, Clear, Write, MergeReads, MergeChecks, MergeSaves,
                  DigestSaves, Validate, BodyDies, Moves
    <3> QED BY <1>0, <2>2, <3>1 DEF Goes
  <2>3. CASE j = k
    <3>1. CASE Enter(j)
      <4>1. \A text : [At("extracting") EXCEPT !.text = text].at = "extracting"
        BY FreshBodies DEF Phases, At
      <4>2. \/ Goes(k, At("done"))
            \/ \E text : Goes(k, [At("extracting") EXCEPT !.text = text])
        BY <2>3, <3>1 DEF Enter
      <4>3. ASSUME NEW text, Goes(k, [At("extracting") EXCEPT !.text = text])
            PROVE  body'[k].at = "extracting"
        BY <1>0, <4>1, <4>3 DEF Goes
      <4>4. CASE Goes(k, At("done"))
        BY <2>0, <2>1, <2>3, <4>4
      <4> QED BY <2>3, <3>1, <4>2, <4>3, <4>4
    <3>2. CASE Clear(j)
      <4>1. body[k].at = "extracting"
        BY <2>3, <3>2 DEF Clear
      <4>2. [body[k] EXCEPT !.at = "cleared"].at = "cleared"
            /\ [body[k] EXCEPT !.at = "cleared"].text = body[k].text
        BY BodyFacts, BodyChanged DEF Phases
      <4>3. CASE Goes(k, At("done"))
        BY <2>0, <2>1, <2>3, <4>3
      <4>4. CASE Moves(k, "cleared")
        <5>1. body'[k] = [body[k] EXCEPT !.at = "cleared"]
          BY <1>0, <4>4 DEF Moves, Goes
        <5> QED BY <2>3, <3>2, <4>1, <4>2, <5>1
      <4> QED BY <2>3, <3>2, <4>3, <4>4 DEF Clear
    <3>3. CASE Write(j)
      <4>1. body[k].at = "cleared" /\ body'[k] = [body[k] EXCEPT !.at = "wrote"]
        BY <1>0, <2>3, <3>3 DEF Write, Moves, Goes
      <4>2. [body[k] EXCEPT !.at = "wrote"].at = "wrote"
            /\ [body[k] EXCEPT !.at = "wrote"].text = body[k].text
        BY BodyFacts, BodyChanged DEF Phases
      <4> QED BY <4>1, <4>2
    <3>4. CASE MergeReads(j)
      <4>1. CASE Goes(j, Distilled)
        BY <2>1, <4>1, BodyDistilled
      <4>2. ASSUME NEW c, NEW B, Goes(j, [At("merging") EXCEPT !.seen = c, !.backlog = B])
            PROVE  Fine
        <5>1. [At("merging") EXCEPT !.seen = c, !.backlog = B].at = "merging"
          BY DEF At
        <5> QED BY <2>1, <4>2, <5>1
      <4> QED BY <3>4, <4>1, <4>2 DEF MergeReads
    <3>5. CASE MergeChecks(j) \/ MergeSaves(j)
      <4>1. [body[k] EXCEPT !.at = "checked"].at = "checked"
        BY BodyFacts, BodyChanged DEF Phases
      <4>2. CASE Goes(j, Distilled)
        BY <2>1, <4>2, BodyDistilled
      <4>3. CASE Moves(j, "checked")
        BY <2>1, <2>3, <4>1, <4>3 DEF Moves
      <4> QED BY <3>5, <4>2, <4>3 DEF MergeChecks, MergeSaves
    <3>6. CASE DigestSaves(j) \/ Validate(j) \/ BodyDies(j)
      <4>1. [body[k] EXCEPT !.at = "stored"].at = "stored"
        BY BodyFacts, BodyChanged DEF Phases
      <4>2. CASE Goes(j, At("done")) \/ Goes(j, At("queued"))
        BY <2>0, <2>1, <4>2
      <4>3. CASE Moves(j, "stored")
        BY <2>1, <2>3, <4>1, <4>3 DEF Moves
      <4> QED BY <3>6, <4>2, <4>3 DEF DigestSaves, Validate, BodyDies
    <3> QED BY <1>4, <3>1, <3>2, <3>3, <3>4, <3>5, <3>6 DEF BodyStep
  <2> QED BY <2>2, <2>3
<1> QED BY <1>1, <1>2, <1>3, <1>4 DEF Next
-----------------------------------------------------------------------------
(* The text of a body *)

OwnTexts == \A k \in Turns : OwnText(k)

\* Where another turn's message stands by now, the turn's own one is gone.
LEMMA EnterReadsOwn ==
  ASSUME UndoTypeInv, PlaceInv, Grown, NEW k \in Turns, Enter(k),
         body'[k].at = "extracting", body'[k].text # k
  PROVE  Excuse(k, {"tombstone", "unasked", "swept"})'
<1>0. body \in [Turns -> Bodies] /\ k \in 1..taken
  BY RowFacts, Bounds DEF UndoTypeInv, BodiesTyped, Enter, Turns
<1>1. PICK r \in Thread, answer \in BOOLEAN :
        /\ Position(r) = index[k] /\ Asks(k, answer)
        /\ Goes(k, IF answer THEN At("done")
                   ELSE [At("extracting") EXCEPT !.text = r.turn])
  <2>1. ~Goes(k, At("done"))
    BY <1>0, FreshBodies DEF Goes, Phases
  <2> QED BY <2>1 DEF Enter
<1>2. ~answer
  BY <1>0, <1>1, FreshBodies DEF Goes, Phases
<1>3. r.turn # k
  <2>1. r.turn \in 0..MaxTurns
    BY DEF UndoTypeInv, RowsTyped, Thread, Rows
  <2>2. body'[k] = [At("extracting") EXCEPT !.text = r.turn]
    BY <1>0, <1>1, <1>2 DEF Goes
  <2> QED BY <2>1, <2>2, BodyStarted
<1>4. \A q \in Thread : q.turn # k
  <2> SUFFICES ASSUME NEW q \in Thread, q.turn = k PROVE FALSE
    OBVIOUS
  <2>1. Position(q) = index[k]
    BY DEF PlaceInv, Placed
  <2>2. q = r
    BY <1>1, <2>1, PositionsDiffer
  <2> QED BY <1>3, <2>2
<1>5. Targeted(k) \/ Excuse(k, {"swept"})
  BY <1>0, <1>4 DEF PlaceInv, Placed
<1>6. CASE Excuse(k, {"swept"})
  BY <1>6 DEF Excuse, Grown
<1>7. CASE k \in tombstones
  <2>1. <<"unasked", k>> \in excused'
    BY <1>1, <1>2, <1>7, Asked
  <2> QED BY <2>1 DEF Excuse
<1>8. CASE Excuse(k, {"tombstone"})
  BY <1>8 DEF Excuse, Grown
<1> QED BY <1>5, <1>6, <1>7, <1>8 DEF Targeted

LEMMA StillOwn == UndoTypeInv /\ PlaceInv /\ OwnTexts /\ [Next]_vars => OwnTexts'
<1> SUFFICES ASSUME UndoTypeInv, PlaceInv, OwnTexts, [Next]_vars, NEW k \in Turns
             PROVE  OwnText(k)'
  BY DEF OwnTexts
<1>0. Grown /\ OwnText(k)
  BY StepGrows DEF OwnTexts
<1>1. CASE body'[k] = body[k]
  BY <1>0, <1>1 DEF OwnText, Excuse, Grown
<1>2. CASE body'[k].at = "extracting" /\ Enter(k)
  BY <1>0, <1>2, EnterReadsOwn DEF OwnText
<1>3. CASE body[k].at \in {"extracting", "cleared"} /\ body'[k].text = body[k].text
  BY <1>0, <1>3 DEF OwnText, Excuse, Grown
<1>4. CASE body'[k].at \notin {"extracting", "cleared", "wrote"}
  BY <1>4 DEF OwnText
<1> QED BY <1>1, <1>2, <1>3, <1>4, ReadingSteps
-----------------------------------------------------------------------------
(* What a turn leaves behind *)

\* Memories are written after their turn was begun.
WrittenLater == \A k \in Turns : written[k] # 0 => written[k] >= k

\* Between the question that guards the writes and the writes, a turn becomes the
\* target of an undo by a slip, or the gate has not answered.
Unslipped ==
  \A k \in Turns :
    body[k].at = "cleared" /\ Targeted(k) => Excuse(k, {"slipped", "tombstone", "unasked"})

\* Its memories and events have been deleted.
Swept(k) ==
  k \in undone \/ \E u \in Undoers : undo[u].at = "digest" /\ undo[u].turn = k

Cleaned ==
  \A k \in Turns : Swept(k) =>
    \/ k \notin events /\ k \notin memories
    \/ Excuse(k, {"slipped", "tombstone", "unasked", "traces"})

DigestGone ==
  \A k \in Turns : k \in undone /\ digest.by = k =>
    ~digest.asked \/ Excuse(k, {"tombstone", "unasked", "digest"})

Spared == \A k \in Turns : ~Targeted(k) => AllKept(k)

TraceInv == WrittenLater /\ Unslipped /\ Cleaned /\ DigestGone /\ Spared

LEMMA ExactParts == UndoTypeInv /\ OwnTexts /\ TraceInv => UndoIsExact
<1> SUFFICES ASSUME UndoTypeInv, OwnTexts, TraceInv, NEW k \in Turns
             PROVE  /\ k \in undone => NothingLeft(k)
                    /\ ~Targeted(k) => AllKept(k)
                    /\ OwnText(k)
  BY DEF UndoIsExact
<1>1. ASSUME k \in undone PROVE NothingLeft(k)
  BY <1>1 DEF TraceInv, Cleaned, DigestGone, Swept, NothingLeft
<1> QED BY <1>1 DEF TraceInv, Spared, OwnTexts

LEMMA InitTraces == Init => OwnTexts /\ TraceInv
<1> SUFFICES ASSUME Init PROVE OwnTexts /\ TraceInv
  OBVIOUS
<1>1. /\ \A k \in Turns : body[k].at = "none" /\ written[k] = 0
      /\ events = {} /\ memories = {} /\ undone = {}
  BY DEF Init, At
<1> QED BY <1>1 DEF OwnTexts, OwnText, TraceInv, WrittenLater, Unslipped, Cleaned,
                    DigestGone, Spared, AllKept

LEMMA StillLater == UndoTypeInv /\ WrittenLater /\ [Next]_vars => WrittenLater'
<1> SUFFICES ASSUME UndoTypeInv, WrittenLater, [Next]_vars PROVE WrittenLater'
  OBVIOUS
<1>1. CASE written' = written
  BY <1>1 DEF WrittenLater
<1>2. ASSUME NEW k \in Turns, Write(k) PROVE WrittenLater'
  <2>1. written' = [written EXCEPT ![k] = taken] /\ taken >= k
    BY <1>2, RowFacts, Bounds DEF Write, UndoTypeInv, BodiesTyped, Turns
  <2>2. written'[k] = taken /\ \A j \in Turns \ {k} : written'[j] = written[j]
    BY <2>1 DEF UndoTypeInv, TracesTyped
  <2> QED BY <2>1, <2>2 DEF WrittenLater
<1> QED BY <1>1, <1>2, TraceSteps DEF traceVars, DeleteTraces

LEMMA StillUnslipped == UndoTypeInv /\ Unslipped /\ [Next]_vars => Unslipped'
<1> SUFFICES ASSUME UndoTypeInv, Unslipped, [Next]_vars, NEW k \in Turns,
                    body'[k].at = "cleared", Targeted(k)'
             PROVE  Excuse(k, {"slipped", "tombstone", "unasked"})'
  BY DEF Unslipped
<1>0. Grown
  BY StepGrows
<1>1. CASE Excuse(k, {"tombstone"})'
  BY <1>1 DEF Excuse
<1>2. CASE k \in tombstones /\ body'[k] = body[k]
  BY <1>0, <1>2 DEF Unslipped, Targeted, Excuse, Grown
<1>3. CASE k \in tombstones /\ Clear(k)
  <2>1. body \in [Turns -> Bodies] /\ At("done").at = "done"
    BY FreshBodies DEF UndoTypeInv, BodiesTyped, Phases
  <2>2. PICK answer \in BOOLEAN :
          Asks(k, answer) /\ IF answer THEN Goes(k, At("done")) ELSE Moves(k, "cleared")
    BY <1>3 DEF Clear
  <2>3. ~answer
    BY <2>1, <2>2 DEF Goes
  <2>4. <<"unasked", k>> \in excused'
    BY <1>3, <2>2, <2>3, Asked
  <2> QED BY <2>4 DEF Excuse
<1>4. CASE k \in tombstones' /\ k \notin tombstones
  <2>1. PICK u \in Undoers : Begin(u)
    BY <1>4, TombstoneSteps
  <2>2. body' = body
    BY <2>1 DEF Begin
  <2>3. <<"slipped", k>> \in excused'
    BY <1>4, <2>1, <2>2 DEF Begin
  <2> QED BY <2>3 DEF Excuse
<1>5. body'[k] = body[k] \/ Clear(k)
  BY ReadingSteps
<1> QED BY <1>1, <1>2, <1>3, <1>4, <1>5 DEF Targeted

\* A turn is swept by the deletions of its undo, or by their failure.
LEMMA SweptSteps ==
  ASSUME UndoTypeInv, [Next]_vars, NEW k \in Turns, Swept(k)'
  PROVE  \/ Swept(k)
         \/ \E u \in Undoers : DeleteTraces(u) /\ undo[u].turn = k
         \/ <<"traces", k>> \in excused'
<1>0. undo \in [Undoers -> Undos]
  BY DEF UndoTypeInv, UndosTyped
<1>1. CASE UNCHANGED <<undo, undone>>
  BY <1>1 DEF Swept
<1>2. ASSUME NEW v \in Undoers, UndoStep(v)
      PROVE  \/ Swept(k) \/ \E u \in Undoers : DeleteTraces(u) /\ undo[u].turn = k
             \/ <<"traces", k>> \in excused'
  <2>1. ASSUME NEW w, undo' = [undo EXCEPT ![v] = w], w.at # "digest", undone' = undone
        PROVE  Swept(k)
    <3>1. \A u \in Undoers : undo'[u].at = "digest" => undo'[u] = undo[u]
      BY <1>0, <2>1
    <3> QED BY <2>1, <3>1 DEF Swept
  <2>2. CASE Begin(v)
    <3>1. PICK j \in journals : undo' = [undo EXCEPT ![v] = [Idle EXCEPT !.at = "guard", !.turn = j]]
      BY <2>2 DEF Begin
    <3>2. [Idle EXCEPT !.at = "guard", !.turn = j].at = "guard"
      BY DEF Idle
    <3>3. undone' = undone
      BY <2>2 DEF Begin
    <3> QED BY <2>1, <3>1, <3>2, <3>3
  <2>3. CASE Guard(v)
    <3>1. \A owed : [undo[v] EXCEPT !.at = "truncate", !.owed = owed].at = "truncate"
      BY <1>0 DEF Undos
    <3>2. undone' = undone
          /\ \E owed : undo' = [undo EXCEPT ![v] = [undo[v] EXCEPT !.at = "truncate",
                                                                !.owed = owed]]
      BY <1>0, <2>3 DEF Guard
    <3> QED BY <2>1, <3>1, <3>2
  <2>4. CASE Truncate(v)
    <3>1. [undo[v] EXCEPT !.at = "traces", !.owed = {}].at = "traces"
      BY <1>0 DEF Undos
    <3>2. undone' = undone
          /\ undo' = [undo EXCEPT ![v] = [undo[v] EXCEPT !.at = "traces", !.owed = {}]]
      BY <1>0, <2>4 DEF Truncate
    <3> QED BY <2>1, <3>1, <3>2
  <2>5. CASE DeleteTraces(v)
    <3>1. undone' = undone /\ undo' = [undo EXCEPT ![v].at = "digest"]
      BY <2>5 DEF DeleteTraces, Proceeds
    <3>2. /\ undo'[v].turn = undo[v].turn
          /\ \A u \in Undoers \ {v} : undo'[u] = undo[u]
      BY <1>0, <3>1 DEF Undos
    <3> QED BY <2>5, <3>1, <3>2 DEF Swept
  <2>6. CASE Finish(v)
    <3>1. /\ undo[v].at = "digest" /\ undo' = [undo EXCEPT ![v] = Idle]
          /\ undone' = undone \cup {undo[v].turn}
      BY <2>6 DEF Finish
    <3>2. \A u \in Undoers : undo'[u].at = "digest" => undo'[u] = undo[u]
      BY <1>0, <3>1, FreshOthers
    <3> QED BY <3>1, <3>2 DEF Swept
  <2>7. CASE StepFails(v)
    <3>1. PICK w \in Undos :
            /\ undo' = [undo EXCEPT ![v] = w]
            /\ \/ /\ w.turn = undo[v].turn /\ undone' = undone
                  /\ w.at = "digest" => undo[v].at = "traces"
               \/ /\ undo[v].at = "digest" /\ w.at = "idle"
                  /\ undone' = undone \cup {undo[v].turn}
      BY <2>7, StepFailsShape
    <3>2. undo'[v] = w /\ \A u \in Undoers \ {v} : undo'[u] = undo[u]
      BY <1>0, <3>1
    <3>3. undo[v].at = "traces" => <<"traces", undo[v].turn>> \in excused'
      <4>1. excused' = excused \cup
              {<<step, undo[v].turn>> : step \in {undo[v].at} \cap {"traces", "digest"}}
        BY <2>7, StepFailsShape
      <4>2. undo[v].at = "traces" => "traces" \in {undo[v].at} \cap {"traces", "digest"}
        OBVIOUS
      <4> QED BY <4>1, <4>2, Zenon
    <3> QED BY <3>1, <3>2, <3>3 DEF Swept
  <2>8. CASE UndoDies(v)
    <3>1. undo' = [undo EXCEPT ![v] = Idle] /\ undone' = undone
      BY <2>8 DEF UndoDies
    <3> QED BY <2>1, <3>1, FreshOthers
  <2> QED BY <1>2, <2>2, <2>3, <2>4, <2>5, <2>6, <2>7, <2>8 DEF UndoStep
<1>3. ASSUME NEW j \in Turns, BodyStep(j) PROVE UNCHANGED <<undo, undone>>
  BY <1>3 DEF BodyStep, Enter, Clear, Write, MergeReads, MergeChecks, MergeSaves,
              DigestSaves, Validate, BodyDies
<1>4. CASE TakeTurn \/ PersistJournal \/ Push \/ UNCHANGED vars
  BY <1>1, <1>4 DEF TakeTurn, PersistJournal, Push, vars
<1> QED BY <1>1, <1>2, <1>3, <1>4 DEF Next

LEMMA StillCleaned ==
  UndoTypeInv /\ PlaceInv /\ WrittenLater /\ Unslipped /\ Cleaned /\ [Next]_vars => Cleaned'
<1> DEFINE causes == {"slipped", "tombstone", "unasked", "traces"}
<1> SUFFICES ASSUME UndoTypeInv, PlaceInv, WrittenLater, Unslipped, Cleaned, [Next]_vars,
                    NEW k \in Turns, Swept(k)'
             PROVE  (k \notin events /\ k \notin memories)' \/ Excuse(k, causes)'
  BY DEF Cleaned
<1>0. Grown
  BY StepGrows
<1>1. CASE <<"traces", k>> \in excused'
  BY <1>1 DEF Excuse
<1>2. CASE Excuse(k, causes)
  BY <1>0, <1>2, ExcuseLasts
<1>3. ASSUME NEW u \in Undoers, DeleteTraces(u), undo[u].turn = k
      PROVE  k \notin events' /\ k \notin memories'
  <2>1. memories' = memories \ Since(k) /\ events' = events \ {k}
    BY <1>3 DEF DeleteTraces
  <2>2. k \in memories => written[k] >= k
    BY DEF UndoTypeInv, TracesTyped, WrittenLater
  <2> QED BY <2>1, <2>2 DEF Since
<1>4. CASE Swept(k) /\ k \notin events /\ k \notin memories
  <2>1. CASE UNCHANGED traceVars
    BY <1>4, <2>1 DEF traceVars
  <2>2. ASSUME NEW u \in Undoers, DeleteTraces(u) PROVE k \notin events' /\ k \notin memories'
    BY <1>4, <2>2 DEF DeleteTraces
  <2>3. ASSUME NEW j \in Turns, Write(j), j # k PROVE k \notin events' /\ k \notin memories'
    BY <1>4, <2>3 DEF Write
  <2>4. CASE Write(k)
    <3>1. Targeted(k)
      BY <1>4 DEF Swept, PlaceInv, Aimed
    <3>2. Excuse(k, {"slipped", "tombstone", "unasked"})
      BY <2>4, <3>1 DEF Unslipped, Write
    <3>3. {"slipped", "tombstone", "unasked"} \subseteq causes
      OBVIOUS
    <3>4. Excuse(k, causes)
      BY <3>2, <3>3, ExcuseWidens
    <3> QED BY <1>0, <3>4, ExcuseLasts
  <2> QED BY <2>1, <2>2, <2>3, <2>4, TraceSteps
<1> QED BY <1>1, <1>2, <1>3, <1>4, SweptSteps DEF Cleaned

\* The last step of an undo takes the digest back, or has failed.
LEMMA UndoneSteps ==
  ASSUME UndoTypeInv, [Next]_vars, NEW k \in undone' \ undone
  PROVE  digest' = NoDigest \/ <<"digest", k>> \in excused'
<1>1. ASSUME NEW u \in Undoers, UndoStep(u)
      PROVE  digest' = NoDigest \/ <<"digest", k>> \in excused'
  <2>1. CASE Finish(u)
    BY <2>1 DEF Finish
  <2>2. CASE StepFails(u)
    <3>1. undo[u].at = "digest" /\ undone' = undone \cup {undo[u].turn}
      BY <2>2, StepFailsShape
    <3>2. excused' = excused \cup
            {<<step, undo[u].turn>> : step \in {undo[u].at} \cap {"traces", "digest"}}
      BY <2>2, StepFailsShape
    <3>3. k = undo[u].turn /\ "digest" \in {undo[u].at} \cap {"traces", "digest"}
      BY <3>1
    <3> QED BY <3>2, <3>3, Zenon
  <2>3. CASE ~Finish(u) /\ ~StepFails(u)
    <3>1. undone' = undone
      BY <1>1, <2>3 DEF UndoStep, Begin, Guard, Truncate, DeleteTraces, UndoDies
    <3> QED BY <3>1
  <2> QED BY <2>1, <2>2, <2>3
<1>2. ASSUME NEW j \in Turns, BodyStep(j) PROVE undone' = undone
  BY <1>2 DEF BodyStep, Enter, Clear, Write, MergeReads, MergeChecks, MergeSaves,
              DigestSaves, Validate, BodyDies
<1>3. CASE TakeTurn \/ PersistJournal \/ Push \/ UNCHANGED vars
  <2>1. undone' = undone
    BY <1>3 DEF TakeTurn, PersistJournal, Push, vars
  <2> QED BY <2>1
<1>4. undone' # undone
  OBVIOUS
<1> QED BY <1>1, <1>2, <1>3, <1>4 DEF Next

LEMMA StillDigestGone ==
  UndoTypeInv /\ PlaceInv /\ DigestGone /\ [Next]_vars => DigestGone'
<1> DEFINE causes == {"tombstone", "unasked", "digest"}
<1> SUFFICES ASSUME UndoTypeInv, PlaceInv, DigestGone, [Next]_vars, NEW k \in Turns,
                    k \in undone', digest'.by = k, digest'.asked
             PROVE  Excuse(k, causes)'
  BY DEF DigestGone
<1>0. Grown /\ k # 0
  BY StepGrows DEF Turns
<1>1. digest' # NoDigest
  BY <1>0, FreshOthers
<1>2. CASE k \notin undone
  BY <1>1, <1>2, UndoneSteps DEF Excuse
<1>3. CASE k \in undone
  <2>1. CASE digest.by = k /\ digest.asked
    <3>1. Excuse(k, causes)
      BY <1>3, <2>1 DEF DigestGone
    <3> QED BY <1>0, <3>1, ExcuseLasts
  <2>2. CASE digest' = digest
    BY <2>1, <2>2
  <2>3. ASSUME NEW j \in Turns, DigestSaves(j) PROVE Excuse(k, causes)'
    <3>1. \/ digest' = [by |-> j, stamp |-> body[j].stamp, asked |-> FALSE]
          \/ digest' \in {NoDigest, digest}
      BY <2>3, WithdrawnTyped DEF DigestSaves
    <3> QED BY <1>1, <2>2, <3>1
  <2>4. ASSUME NEW j \in Turns, Validate(j) PROVE Excuse(k, causes)'
    <3>1. PICK answer \in BOOLEAN :
            /\ Asks(j, answer)
            /\ digest' = IF answer THEN Withdrawn(body[j].stamp)
                         ELSE [digest EXCEPT !.asked = @ \/ digest.by = j]
      BY <2>4 DEF Validate
    <3>2. CASE answer
      <4>1. digest' \in {NoDigest, digest}
        BY <3>1, <3>2, WithdrawnTyped
      <4> QED BY <1>1, <2>2, <4>1
    <3>3. CASE ~answer
      <4>1. digest.by = k /\ (digest.asked \/ digest.by = j)
        BY <3>1, <3>3, DigestAsked
      <4>2. CASE digest.asked
        BY <2>1, <4>1, <4>2
      <4>3. CASE j = k
        <5>1. Targeted(k)
          BY <1>3 DEF PlaceInv, Aimed
        <5>2. CASE k \in tombstones
          <6>1. <<"unasked", k>> \in excused'
            BY <3>1, <3>3, <4>3, <5>2, Asked
          <6> QED BY <6>1 DEF Excuse
        <5>3. CASE k \notin tombstones
          <6>1. Excuse(k, causes)
            BY <5>1, <5>3, TargetNamed
          <6> QED BY <1>0, <6>1, ExcuseLasts
        <5> QED BY <5>2, <5>3
      <4> QED BY <4>1, <4>2, <4>3
    <3> QED BY <3>2, <3>3
  <2>5. ASSUME NEW u \in Undoers, Finish(u) PROVE FALSE
    BY <1>1, <2>5 DEF Finish
  <2> QED BY <2>2, <2>3, <2>4, <2>5, DigestSteps
<1> QED BY <1>2, <1>3

LEMMA StillSpared == UndoTypeInv /\ PlaceInv /\ Spared /\ [Next]_vars => Spared'
<1> SUFFICES ASSUME UndoTypeInv, PlaceInv, Spared, [Next]_vars, NEW k \in Turns,
                    ~Targeted(k)', written'[k] # 0
             PROVE  /\ k \in events'
                    /\ k \in memories' \/ \E j \in 1..written'[k] : Targeted(j)'
  BY DEF Spared, AllKept
<1>0. Grown
  BY StepGrows
<1>1. ~Targeted(k)
  BY <1>0, TargetLasts
<1>2. ASSUME written'[k] = written[k]
      PROVE  /\ k \in events
             /\ k \in memories \/ \E j \in 1..written'[k] : Targeted(j)'
  <2>1. k \in events /\ (k \in memories \/ \E j \in 1..written[k] : Targeted(j))
    BY <1>1, <1>2 DEF Spared, AllKept
  <2> QED BY <1>0, <1>2, <2>1, TargetLasts
<1>3. CASE UNCHANGED traceVars
  BY <1>2, <1>3 DEF traceVars
<1>4. ASSUME NEW j \in Turns, Write(j) PROVE
             /\ k \in events'
             /\ k \in memories' \/ \E i \in 1..written'[k] : Targeted(i)'
  <2>1. /\ written' = [written EXCEPT ![j] = taken] /\ events' = events \cup {j}
        /\ memories' = memories \cup {j}
    BY <1>4 DEF Write
  <2>2. CASE j = k
    BY <2>1, <2>2
  <2>3. CASE j # k
    <3>1. written'[k] = written[k]
      BY <2>1, <2>3 DEF UndoTypeInv, TracesTyped
    <3> QED BY <1>2, <2>1, <3>1
  <2> QED BY <2>2, <2>3
<1>5. ASSUME NEW u \in Undoers, DeleteTraces(u) PROVE
             /\ k \in events'
             /\ k \in memories' \/ \E i \in 1..written'[k] : Targeted(i)'
  <2>1. /\ memories' = memories \ Since(undo[u].turn) /\ events' = events \ {undo[u].turn}
        /\ written' = written /\ undo[u].at = "traces"
    BY <1>5 DEF DeleteTraces
  <2>2. Targeted(undo[u].turn) /\ undo[u].turn \in 1..taken
    BY <2>1, UndoAt DEF PlaceInv, Aimed
  <2>3. PICK t \in 1..taken : t = undo[u].turn
    BY <2>2
  <2>4. Targeted(t) /\ t # k /\ Targeted(t)'
    BY <1>0, <1>1, <2>2, <2>3, TargetLasts
  <2>5. k \in events'
    BY <1>2, <2>1, <2>3, <2>4
  <2>6. CASE k \in Since(t)
    <3>1. written[k] >= t /\ written[k] \in Nat /\ t \in Nat /\ t >= 1
      BY <2>6, RowFacts DEF Since, UndoTypeInv, TracesTyped
    <3>2. t \in 1..written'[k]
      BY <2>1, <3>1
    <3> QED BY <2>4, <2>5, <3>2
  <2>7. CASE k \notin Since(t)
    BY <1>2, <2>1, <2>3, <2>5, <2>7
  <2> QED BY <2>6, <2>7
<1> QED BY <1>3, <1>4, <1>5, TraceSteps

\* Positions stand as the journals say, and a target of an undo has its tombstone
\* or failed to raise it.
THEOREM PositionsHold == Spec => []PlaceInv
<1>1. Init => PlaceInv
  BY InitPlaces
<1>2. UndoTypeInv /\ PlaceInv /\ [Next]_vars => PlaceInv'
  BY StillPlaced
<1> QED BY <1>1, <1>2, UndoParts, PTL DEF Spec

\* A body writes about its own turn, memories and events are there or gone as the
\* undos have it, and so is the digest: the five facts that bear each other.
THEOREM TracesHold == Spec => [](OwnTexts /\ TraceInv)
<1>1. Init => OwnTexts /\ TraceInv
  BY InitTraces
<1>2. UndoTypeInv /\ PlaceInv /\ (OwnTexts /\ TraceInv) /\ [Next]_vars => (OwnTexts /\ TraceInv)'
  BY StillOwn, StillLater, StillUnslipped, StillCleaned, StillDigestGone, StillSpared
     DEF TraceInv
<1> QED BY <1>1, <1>2, UndoParts, PositionsHold, PTL DEF Spec

\* An undo takes back what its turn left behind and nothing of another turn,
\* whatever the order in which bodies, new turns and undos interleave and
\* wherever they fail, but for what is excused by name.
THEOREM UndoExact == Spec => []UndoIsExact
<1>1. UndoTypeInv /\ (OwnTexts /\ TraceInv) => UndoIsExact
  BY ExactParts
<1> QED BY <1>1, UndoParts, TracesHold, PTL
=============================================================================
