--------------------------- MODULE ChatTurnsProofs ---------------------------
(***************************************************************************)
(* Proofs about the turns of one conversation, for any number of turns,    *)
(* replicas, other writers and faults: the count of a draining replica,     *)
(* the lease, and the merge of the conversation's stale saves.              *)
(***************************************************************************)
EXTENDS ChatTurns, FiniteSetTheorems, SequenceTheorems, TLAPS

InFlight(r) == {t \in Turns : HomeOf[t] = r /\ turn[t].at \in Admitted}

Typed ==
  /\ thread \in Seq(Message) /\ version \in Nat
  /\ turn \in [Turns -> TurnType]
  /\ other \in [Others -> [at : {"idle", "loaded", "done"}, snap : Snapshots]]
  /\ lease \in [owner : Turns \cup {NoOwner}, live : BOOLEAN]
  /\ gauge \in [Replicas -> Nat] /\ draining \subseteq Replicas
  /\ written \subseteq Message /\ torn \in BOOLEAN /\ lapsed \in BOOLEAN
  /\ faults \in 0..MaxFaults

\* The turns in flight are finitely many at any moment, however many there are.
CountExact ==
  \A r \in Replicas : IsFiniteSet(InFlight(r)) /\ gauge[r] = Cardinality(InFlight(r))

\* A turn at work has taken the lease; unless one has lapsed, a lease is live as
\* long as its owner has not given it up.
LeaseKept ==
  /\ lease.live => lease.owner \in Turns
  /\ \A t \in Turns :
       /\ turn[t].at \in Working => turn[t].held
       /\ turn[t].held /\ ~lapsed => lease = [owner |-> t, live |-> TRUE]

\* A snapshot of the present version is the row (version 0 is the empty row), and a
\* turn that has saved has a snapshot of a former version.
Fits(snap) == snap.version <= version /\ (snap.version = version => snap.seen = thread)

SnapshotsFit ==
  /\ Fits(NoSnapshot)
  /\ \A t \in Turns :
       /\ Fits(turn[t].snap)
       /\ turn[t].at \in {"said", "answered"} => turn[t].snap.version < version
  /\ \A w \in Others : Fits(other[w].snap)

\* A message of a writer that has not come so far is not written.
Unsaid == {"idle", "entered", "loaded", "charged", "leased"}
Unanswered == Unsaid \cup {"said", "answered", "ending"}

NotYet ==
  /\ \A t \in Turns :
       /\ turn[t].at \in Unsaid => User(t) \notin written
       /\ turn[t].at \in Unanswered => Reply(t) \notin written
  /\ \A w \in Others : other[w].at # "done" => Note(w) \notin written

\* Unless a save was torn, the thread is an enumeration of what was written.
Enumerates(s, messages) ==
  /\ \A i, j \in DOMAIN s : s[i] = s[j] => i = j
  /\ messages = {s[i] : i \in DOMAIN s}

ThreadSound == ~torn => Enumerates(thread, written)

ChatInv == Typed /\ CountExact /\ LeaseKept /\ SnapshotsFit /\ NotYet /\ ThreadSound
-----------------------------------------------------------------------------
\* The n-th of finitely many positions is one of them: their ranks are distinct
\* numbers up to their count, so each number is a rank.
LEMMA NthOfFinite ==
  ASSUME NEW positions \in SUBSET Nat, IsFiniteSet(positions), NEW n \in 1..Cardinality(positions)
  PROVE  Nth(positions, n) \in positions
<1> DEFINE upto(i) == {j \in positions : j <= i}
           size == Cardinality(positions)
           rank == [i \in positions |-> Cardinality(upto(i))]
<1>1. \A i \in positions : IsFiniteSet(upto(i)) /\ Cardinality(upto(i)) \in 1..size
  <2> SUFFICES ASSUME NEW i \in positions
               PROVE  IsFiniteSet(upto(i)) /\ Cardinality(upto(i)) \in 1..size
    OBVIOUS
  <2>1. upto(i) \in SUBSET positions /\ i \in upto(i)
    OBVIOUS
  <2>2. IsFiniteSet(upto(i)) /\ Cardinality(upto(i)) <= size
    BY <2>1, FS_Subset
  <2>3. Cardinality(upto(i)) \in Nat /\ size \in Nat
    BY <2>2, FS_CardinalityType
  <2>4. Cardinality(upto(i)) # 0
    BY <2>1, <2>2, FS_EmptySet
  <2> QED
    BY <2>2, <2>3, <2>4
<1>2. \A i, j \in positions : rank[i] = rank[j] => i = j
  <2>1. ASSUME NEW i \in positions, NEW j \in positions, i < j
        PROVE  Cardinality(upto(i)) # Cardinality(upto(j))
    <3> i \in Nat /\ j \in Nat /\ \A m \in positions : m \in Nat
      OBVIOUS
    <3>1. \A m \in positions : m <= i => m <= j
      BY <2>1
    <3>2. upto(i) \in SUBSET upto(j)
      BY <3>1
    <3>3. j \in upto(j) /\ j \notin upto(i)
      BY <2>1
    <3> QED
      BY <1>1, <3>2, <3>3, FS_Subset
  <2> SUFFICES ASSUME NEW i \in positions, NEW j \in positions, rank[i] = rank[j]
               PROVE  i = j
    OBVIOUS
  <2>2. i < j \/ j < i \/ i = j
    OBVIOUS
  <2> QED
    BY <2>1, <2>2
<1>3. rank \in [positions -> 1..size]
  BY <1>1
<1>4. rank \in Injection(positions, 1..size)
  BY <1>2, <1>3 DEF Injection, IsInjective
<1>5. size \in Nat
  BY FS_CardinalityType
<1>6. IsFiniteSet(1..size) /\ Cardinality(1..size) = size
  BY <1>5, FS_Interval
<1>7. rank \in Surjection(positions, 1..size)
  BY <1>4, <1>6, FS_Injection
<1>8. PICK i \in positions : rank[i] = n
  BY <1>7 DEF Surjection
<1> QED
  BY <1>8 DEF Nth

\* The n-th position of an interval.
LEMMA NthOfInterval ==
  ASSUME NEW first \in Nat, NEW last \in Nat, NEW n \in 1..Cardinality(first + 1..last)
  PROVE  Nth(first + 1..last, n) = first + n /\ n <= last - first
<1> DEFINE positions == first + 1..last
<1>1. IsFiniteSet(positions) /\ Cardinality(positions) = IF first + 1 > last THEN 0 ELSE last - first
  BY FS_Interval
<1>2. first + n \in positions /\ n <= last - first
  BY <1>1
<1>3. ASSUME NEW i \in positions
      PROVE  Cardinality({j \in positions : j <= i}) = i - first
  <2>1. {j \in positions : j <= i} = first + 1..i
    BY <1>3
  <2>2. first + 1 \in Int /\ i \in Int /\ ~(first + 1 > i) /\ i - (first + 1) + 1 = i - first
    BY <1>3
  <2>3. Cardinality(first + 1..i) = i - (first + 1) + 1
    BY <2>2, FS_Interval
  <2> QED
    BY <2>1, <2>2, <2>3
<1> HIDE DEF positions
<1>4. \A i \in positions : Cardinality({j \in positions : j <= i}) = n => i = first + n
  BY <1>3 DEF positions
<1>5. Cardinality({j \in positions : j <= first + n}) = n
  BY <1>2, <1>3
<1>6. Nth(positions, n) = first + n
  BY <1>2, <1>4, <1>5 DEF Nth
<1> QED
  BY <1>2, <1>6 DEF positions
-----------------------------------------------------------------------------
\* A save, torn or not, leaves a thread of messages.
LEMMA SavedTyped ==
  ASSUME Typed, NEW snap, NEW web \in Seq(Message), Save(snap, web)
  PROVE  thread' \in Seq(Message) /\ version' = version + 1
<1>1. Preserved(snap, web) \in Seq(Message)
  <2>1. CASE snap.version = version
    BY <2>1 DEF Preserved
  <2>2. CASE snap.version # version
    <3> DEFINE kept == Foreign(snap, web)
    <3>1. thread \in Seq(Message) /\ DOMAIN thread = 1..Len(thread) /\ Len(thread) \in Nat
      BY DEF Typed
    <3>2. kept \in SUBSET (1..Len(thread)) /\ kept \in SUBSET Nat
      BY <3>1 DEF Foreign
    <3>3. IsFiniteSet(kept)
      <4>1. IsFiniteSet(1..Len(thread))
        BY <3>1, FS_Interval
      <4> HIDE DEF kept
      <4> QED
        BY <3>2, <4>1, FS_Subset
    <3>4. Preserved(snap, web) = [n \in 1..Cardinality(kept) |-> thread[Nth(kept, n)]]
      BY <2>2 DEF Preserved
    <3> HIDE DEF kept
    <3>5. Cardinality(kept) \in Nat
      BY <3>3, FS_CardinalityType
    <3>6. \A n \in 1..Cardinality(kept) : thread[Nth(kept, n)] \in Message
      <4> SUFFICES ASSUME NEW n \in 1..Cardinality(kept) PROVE thread[Nth(kept, n)] \in Message
        OBVIOUS
      <4>1. Nth(kept, n) \in 1..Len(thread)
        BY <3>2, <3>3, NthOfFinite
      <4> QED
        BY <3>1, <4>1
    <3> QED
      BY <3>4, <3>5, <3>6
  <2> QED
    BY <2>1, <2>2
<1> QED
  BY <1>1 DEF Save

\* A save that is not torn puts its message behind the rows it knows and moves the
\* other rows behind it, on whatever version of the row it was made.
LEMMA SavedWhole ==
  ASSUME Typed, NEW snap, Fits(snap), snap.seen \in Seq(Message),
         NEW before \in Seq(Message), NEW new \in Message,
         snap.version = version => before = <<>>,
         Intact(snap.seen \o before), Save(snap, Append(snap.seen \o before, new)),
         \A i \in DOMAIN thread : thread[i] # new
  PROVE  \E k \in 0..Len(thread) :
           /\ Len(thread') = Len(thread) + 1
           /\ \A i \in 1..Len(thread') :
                thread'[i] = IF i <= k THEN thread[i]
                             ELSE IF i = k + 1 THEN new ELSE thread[i - 1]
<1> DEFINE known == snap.seen \o before
           web == Append(known, new)
           k == Len(known)
<1>1. thread \in Seq(Message) /\ DOMAIN thread = 1..Len(thread) /\ Len(thread) \in Nat
  BY DEF Typed
<1>2. known \in Seq(Message) /\ k \in Nat /\ Len(snap.seen) \in Nat /\ Len(snap.seen) <= k
  OBVIOUS
<1>3. k <= Len(thread) /\ \A i \in 1..k : known[i] = thread[i]
  <2>1. k <= Len(thread) /\ SubSeq(thread, 1, k) = known
    BY DEF Intact
  <2> HIDE DEF known
  <2>2. \A i \in 1..k : SubSeq(thread, 1, k)[i] = thread[i]
    BY <1>1, <1>2, <2>1
  <2> QED
    BY <2>1, <2>2
<1>4. /\ web \in Seq(Message) /\ Len(web) = k + 1 /\ DOMAIN web = 1..k + 1
      /\ \A i \in 1..k : web[i] = known[i]
      /\ web[k + 1] = new
  <2> HIDE DEF known
  <2> QED
    BY <1>2
<1>5. thread' = web \o Preserved(snap, web)
  BY DEF Save
<1>6. /\ Preserved(snap, web) \in Seq(Message) /\ Len(Preserved(snap, web)) = Len(thread) - k
      /\ \A n \in 1..Len(thread) - k : Preserved(snap, web)[n] = thread[k + n]
  <2>1. CASE snap.version = version
    <3>1. known = thread
      BY <1>1, <2>1 DEF Fits
    <3> QED
      BY <1>1, <2>1, <3>1 DEF Preserved
  <2>2. CASE snap.version # version
    <3> HIDE DEF known, web
    <3>1. \A i \in 1..Len(thread) : i \in Foreign(snap, web) <=> i > k
      <4> SUFFICES ASSUME NEW i \in 1..Len(thread) PROVE i \in Foreign(snap, web) <=> i > k
        OBVIOUS
      <4>1. CASE i <= k
        BY <1>1, <1>2, <1>3, <1>4, <4>1 DEF Foreign, OwnRow
      <4>2. CASE i = k + 1
        BY <1>1, <1>2, <1>3, <1>4, <4>2 DEF Foreign, OwnRow
      <4>3. CASE i > k + 1
        BY <1>1, <1>2, <1>3, <1>4, <4>3 DEF Foreign, OwnRow
      <4> QED
        BY <1>2, <4>1, <4>2, <4>3
    <3>2. Foreign(snap, web) = k + 1..Len(thread)
      BY <1>1, <1>2, <3>1 DEF Foreign
    <3>3. Cardinality(k + 1..Len(thread)) = Len(thread) - k
      <4>1. k + 1 \in Int /\ Len(thread) \in Int
        BY <1>1, <1>2
      <4>2. Cardinality(k + 1..Len(thread)) =
              IF k + 1 > Len(thread) THEN 0 ELSE Len(thread) - (k + 1) + 1
        BY <4>1, FS_Interval
      <4>3. Len(thread) \in Nat /\ k \in Nat /\ k <= Len(thread)
        BY <1>1, <1>2, <1>3
      <4> HIDE DEF k
      <4>4. CASE k + 1 > Len(thread)
        BY <4>2, <4>3, <4>4
      <4>5. CASE ~(k + 1 > Len(thread))
        <5>1. Len(thread) - (k + 1) + 1 = Len(thread) - k
          BY <4>3
        <5> QED
          BY <4>2, <4>5, <5>1
      <4> QED
        BY <4>4, <4>5
    <3>4. Preserved(snap, web) = [n \in 1..Len(thread) - k |-> thread[Nth(k + 1..Len(thread), n)]]
      BY <2>2, <3>2, <3>3 DEF Preserved
    <3>5. \A n \in 1..Len(thread) - k : Nth(k + 1..Len(thread), n) = k + n
      BY <1>1, <1>2, <3>3, NthOfInterval
    <3>6. Preserved(snap, web) = [n \in 1..Len(thread) - k |-> thread[k + n]]
      BY <3>4, <3>5
    <3> QED
      BY <1>1, <1>2, <1>3, <3>6
  <2> QED
    BY <2>1, <2>2
<1> HIDE DEF known, web
<1>7. /\ Len(thread') = Len(thread) + 1
      /\ \A i \in 1..k + 1 : thread'[i] = web[i]
      /\ \A i \in k + 2..Len(thread) + 1 : thread'[i] = thread[i - 1]
  <2> DEFINE rest == Preserved(snap, web)
  <2>1. /\ rest \in Seq(Message) /\ Len(rest) = Len(thread) - k
        /\ \A n \in 1..Len(thread) - k : rest[n] = thread[k + n]
    BY <1>6
  <2>2. thread' = web \o rest
    BY <1>5
  <2> HIDE DEF rest
  <2>3. Len(thread') = Len(web) + Len(rest)
    BY <1>4, <2>1, <2>2, ConcatProperties
  <2>4. \A i \in 1..Len(web) + Len(rest) :
          thread'[i] = IF i <= Len(web) THEN web[i] ELSE rest[i - Len(web)]
    BY <1>4, <2>1, <2>2, ConcatProperties
  <2> HIDE DEF k
  <2>5. Len(thread') = Len(thread) + 1
    BY <1>1, <1>2, <1>3, <1>4, <2>1, <2>3
  <2>6. ASSUME NEW i \in 1..k + 1
        PROVE  thread'[i] = web[i]
    <3>1. i \in 1..Len(web) + Len(rest) /\ i <= Len(web)
      BY <1>1, <1>2, <1>3, <1>4, <2>1, <2>6
    <3> QED
      BY <2>4, <3>1
  <2>7. ASSUME NEW i \in k + 2..Len(thread) + 1
        PROVE  thread'[i] = thread[i - 1]
    <3>1. i \in 1..Len(web) + Len(rest) /\ ~(i <= Len(web)) /\ i - Len(web) \in 1..Len(thread) - k
      BY <1>1, <1>2, <1>3, <1>4, <2>1, <2>7
    <3>2. thread'[i] = rest[i - Len(web)]
      BY <2>4, <3>1
    <3>3. rest[i - Len(web)] = thread[k + (i - Len(web))]
      BY <2>1, <3>1
    <3>4. k + (i - Len(web)) = i - 1
      BY <1>2, <1>4, <2>7
    <3> QED
      BY <3>2, <3>3, <3>4
  <2> QED
    BY <2>5, <2>6, <2>7
<1>8. k \in 0..Len(thread)
  BY <1>1, <1>2, <1>3
<1> HIDE DEF k
<1> QED
  BY <1>1, <1>3, <1>4, <1>7, <1>8

\* A message put somewhere among the others: what was an enumeration is one again.
LEMMA InsertedKeeps ==
  ASSUME NEW s \in Seq(Message), NEW t \in Seq(Message), NEW messages, Enumerates(s, messages),
         NEW new, new \notin messages, NEW k \in 0..Len(s), Len(t) = Len(s) + 1,
         \A i \in 1..Len(t) : t[i] = IF i <= k THEN s[i] ELSE IF i = k + 1 THEN new ELSE s[i - 1]
  PROVE  Enumerates(t, messages \cup {new})
<1>1. Len(s) \in Nat /\ DOMAIN s = 1..Len(s) /\ DOMAIN t = 1..Len(s) + 1
  OBVIOUS
<1> DEFINE old(i) == IF i <= k THEN i ELSE i - 1
<1>2. \A i \in 1..Len(s) + 1 : i # k + 1 => old(i) \in 1..Len(s) /\ t[i] = s[old(i)]
  BY <1>1
<1>3. \A i, j \in 1..Len(s) + 1 : i # k + 1 /\ j # k + 1 /\ old(i) = old(j) => i = j
  BY <1>1
<1>4. \A i \in 1..Len(s) : s[i] \in messages
  BY <1>1 DEF Enumerates
<1>5. t[k + 1] = new /\ k + 1 \in 1..Len(s) + 1
  BY <1>1
<1>6. \A i \in 1..Len(s) : \E j \in 1..Len(s) + 1 : t[j] = s[i]
  <2> SUFFICES ASSUME NEW i \in 1..Len(s) PROVE \E j \in 1..Len(s) + 1 : t[j] = s[i]
    OBVIOUS
  <2>1. CASE i <= k
    <3>1. i \in 1..Len(s) + 1 /\ t[i] = s[i]
      BY <1>1, <2>1
    <3> QED
      BY <3>1
  <2>2. CASE i > k
    <3>1. i + 1 \in 1..Len(s) + 1 /\ t[i + 1] = s[i]
      BY <1>1, <2>2
    <3> QED
      BY <3>1
  <2> QED
    BY <2>1, <2>2
<1>7. ASSUME NEW i \in 1..Len(s) + 1, NEW j \in 1..Len(s) + 1, t[i] = t[j]
      PROVE  i = j
  <2>1. CASE i # k + 1 /\ j # k + 1
    <3>1. old(i) \in 1..Len(s) /\ old(j) \in 1..Len(s) /\ s[old(i)] = s[old(j)]
      BY <1>2, <1>7, <2>1
    <3>2. old(i) = old(j)
      BY <1>1, <3>1 DEF Enumerates
    <3> QED
      BY <1>3, <2>1, <3>2
  <2>2. CASE i = k + 1 \/ j = k + 1
    BY <1>2, <1>4, <1>5, <1>7, <2>2
  <2> QED
    BY <2>1, <2>2
<1>8. \A m : m \in messages \cup {new} <=> \E i \in 1..Len(s) + 1 : t[i] = m
  <2>1. \A m \in messages : \E i \in 1..Len(s) : s[i] = m
    BY <1>1 DEF Enumerates
  <2>2. \A i \in 1..Len(s) + 1 : t[i] \in messages \cup {new}
    BY <1>2, <1>4, <1>5
  <2> HIDE DEF old
  <2> QED
    BY <1>5, <1>6, <2>1, <2>2
<1>9. messages \cup {new} = {t[i] : i \in DOMAIN t}
  <2>1. \A m : m \in {t[i] : i \in DOMAIN t} <=> \E i \in 1..Len(s) + 1 : t[i] = m
    BY <1>1
  <2> QED
    BY <1>8, <2>1
<1>10. \A i, j \in DOMAIN t : t[i] = t[j] => i = j
  BY <1>1, <1>7
<1> QED
  BY <1>9, <1>10 DEF Enumerates
-----------------------------------------------------------------------------
LEMMA MovedTurn ==
  ASSUME Typed, NEW t \in Turns, NEW new, turn' = [turn EXCEPT ![t] = new]
  PROVE  turn'[t] = new /\ \A u \in Turns \ {t} : turn'[u] = turn[u]
  BY DEF Typed

\* The count follows a turn into its flight and out of it.
LEMMA CountFollows ==
  ASSUME Typed, CountExact, NEW t \in Turns, NEW new, turn' = [turn EXCEPT ![t] = new],
         \/ (turn[t].at \in Admitted <=> new.at \in Admitted) /\ gauge' = gauge
         \/ /\ turn[t].at \notin Admitted /\ new.at \in Admitted
            /\ gauge' = [gauge EXCEPT ![HomeOf[t]] = @ + 1]
         \/ /\ turn[t].at \in Admitted /\ new.at \notin Admitted
            /\ Uncounts(t)
  PROVE  CountExact' /\ gauge' \in [Replicas -> Nat]
<1>1. turn'[t] = new /\ \A u \in Turns \ {t} : turn'[u] = turn[u]
  BY MovedTurn
<1>2. HomeOf[t] \in Replicas /\ gauge \in [Replicas -> Nat]
  BY ChatAssumption DEF Typed
<1> DEFINE here == HomeOf[t]
<1>3. IsFiniteSet(InFlight(here)) /\ gauge[here] = Cardinality(InFlight(here)) /\ gauge[here] \in Nat
  BY <1>2 DEF CountExact
<1>4. \A r \in Replicas \ {here} : InFlight(r)' = InFlight(r)
  BY <1>1 DEF InFlight
<1>5. ASSUME turn[t].at \in Admitted <=> new.at \in Admitted, gauge' = gauge
      PROVE  CountExact' /\ gauge' \in [Replicas -> Nat]
  <2>1. InFlight(here)' = InFlight(here)
    BY <1>1, <1>5 DEF InFlight
  <2> QED
    BY <1>2, <1>4, <1>5, <2>1 DEF CountExact
<1>6. ASSUME turn[t].at \notin Admitted, new.at \in Admitted,
             gauge' = [gauge EXCEPT ![here] = @ + 1]
      PROVE  CountExact' /\ gauge' \in [Replicas -> Nat]
  <2>1. InFlight(here)' = InFlight(here) \cup {t} /\ t \notin InFlight(here)
    BY <1>1, <1>6 DEF InFlight
  <2>2. IsFiniteSet(InFlight(here)') /\ Cardinality(InFlight(here)') = gauge[here] + 1
    BY <1>3, <2>1, FS_AddElement
  <2>3. gauge'[here] = gauge[here] + 1 /\ \A r \in Replicas \ {here} : gauge'[r] = gauge[r]
    BY <1>2, <1>6
  <2> HIDE DEF here
  <2>4. CountExact'
    BY <1>4, <2>2, <2>3 DEF CountExact
  <2> QED
    BY <1>2, <1>6, <2>4 DEF here
<1>7. ASSUME turn[t].at \in Admitted, new.at \notin Admitted, Uncounts(t)
      PROVE  CountExact' /\ gauge' \in [Replicas -> Nat]
  <2>1. InFlight(here)' = InFlight(here) \ {t} /\ t \in InFlight(here)
    BY <1>1, <1>7 DEF InFlight
  <2>2. IsFiniteSet(InFlight(here)') /\ Cardinality(InFlight(here)') = gauge[here] - 1
    BY <1>3, <2>1, FS_RemoveElement
  <2>3. gauge[here] # 0
    BY <1>3, <2>1, FS_EmptySet
  <2>4. gauge' = [gauge EXCEPT ![here] = @ - 1]
    <3>1. gauge[here] > 0
      BY <1>3, <2>3
    <3> QED
      BY <1>7, <3>1, Zenon DEF Uncounts
  <2>5. gauge'[here] = gauge[here] - 1 /\ \A r \in Replicas \ {here} : gauge'[r] = gauge[r]
    BY <1>2, <2>4
  <2> HIDE DEF here
  <2>6. CountExact'
    BY <1>4, <2>2, <2>5 DEF CountExact
  <2>7. gauge[here] - 1 \in Nat
    BY <1>3, <2>3
  <2> QED
    BY <1>2, <2>4, <2>6, <2>7 DEF here
<1> QED
  BY <1>5, <1>6, <1>7

\* A step that takes no lease keeps what is known of it ...
LEMMA LeaseStays ==
  ASSUME Typed, LeaseKept, NEW t \in Turns, NEW new, turn' = [turn EXCEPT ![t] = new],
         new.at \in Working => new.held, new.held => turn[t].held, UNCHANGED <<lease, lapsed>>
  PROVE  LeaseKept'
  BY MovedTurn DEF LeaseKept

\* ... and so does one that gives up its own.
LEMMA LeaseReleased ==
  ASSUME Typed, LeaseKept, NEW t \in Turns, NEW new, turn' = [turn EXCEPT ![t] = new],
         new.at \notin Working, ~new.held, NEW reached \in BOOLEAN, Released(t, reached),
         UNCHANGED lapsed
  PROVE  LeaseKept' /\ lease' \in [owner : Turns \cup {NoOwner}, live : BOOLEAN]
<1>1. turn'[t] = new /\ \A u \in Turns \ {t} : turn'[u] = turn[u]
  BY MovedTurn
<1>2. \/ lease' = lease
      \/ lease.owner = t /\ lease' = [owner |-> NoOwner, live |-> FALSE]
  BY DEF Released
<1>3. lease'.live => lease'.owner \in Turns
  BY <1>2 DEF LeaseKept
<1>4. ASSUME NEW u \in Turns
      PROVE  /\ turn'[u].at \in Working => turn'[u].held
             /\ turn'[u].held /\ ~lapsed' => lease' = [owner |-> u, live |-> TRUE]
  <2>1. CASE u = t
    BY <1>1, <2>1
  <2>2. CASE u # t
    <3>1. turn[u].held /\ ~lapsed => lease = [owner |-> u, live |-> TRUE]
      BY DEF LeaseKept
    <3>2. turn[u].held /\ ~lapsed => lease' = lease
      BY <1>2, <2>2, <3>1
    <3> QED
      BY <1>1, <2>2, <3>1, <3>2 DEF LeaseKept
  <2> QED
    BY <2>1, <2>2
<1>5. lease' \in [owner : Turns \cup {NoOwner}, live : BOOLEAN]
  <2>1. [owner |-> NoOwner, live |-> FALSE] \in [owner : Turns \cup {NoOwner}, live : BOOLEAN]
    OBVIOUS
  <2> QED
    BY <1>2, <2>1 DEF Typed
<1> QED
  BY <1>3, <1>4, <1>5 DEF LeaseKept

\* A step of a turn that does not write.
LEMMA TurnMoves ==
  ASSUME ChatInv, NEW t \in Turns, NEW new \in TurnType, turn' = [turn EXCEPT ![t] = new],
         CountExact', gauge' \in [Replicas -> Nat],
         LeaseKept', lease' \in [owner : Turns \cup {NoOwner}, live : BOOLEAN],
         UNCHANGED <<row, other, lapsed, draining>>, faults' \in 0..MaxFaults,
         Fits(new.snap), new.at \in {"said", "answered"} => new.snap.version < version,
         new.at \in Unsaid => turn[t].at \in Unsaid,
         new.at \in Unanswered => turn[t].at \in Unanswered
  PROVE  ChatInv'
<1> USE DEF ChatInv, row
<1>1. turn'[t] = new /\ \A u \in Turns \ {t} : turn'[u] = turn[u]
  BY MovedTurn
<1>2. Typed'
  BY DEF Typed
<1>3. SnapshotsFit'
  BY <1>1 DEF SnapshotsFit, Fits
<1>4. NotYet'
  BY <1>1 DEF NotYet, User, Reply, Note
<1>5. ThreadSound'
  BY DEF ThreadSound, Enumerates
<1> QED
  BY <1>2, <1>3, <1>4, <1>5

\* What a turn of the model is made of.
LEMMA TurnParts ==
  ASSUME ChatInv, NEW t \in Turns
  PROVE  /\ turn[t] \in TurnType /\ turn[t].snap \in Snapshots /\ NoSnapshot \in Snapshots
         /\ Fits(turn[t].snap) /\ Fits(NoSnapshot) /\ Fits(Snapshot) /\ Snapshot \in Snapshots
<1>1. thread \in Seq(Message) /\ version \in Nat
  BY DEF ChatInv, Typed
<1>2. turn[t] \in TurnType /\ turn[t].snap \in Snapshots
  BY DEF ChatInv, Typed, TurnType
<1>3. NoSnapshot \in Snapshots /\ Snapshot \in Snapshots
  BY <1>1 DEF NoSnapshot, Snapshot, Snapshots
<1>4. Fits(turn[t].snap) /\ Fits(Snapshot)
  BY <1>1 DEF ChatInv, SnapshotsFit, Fits, Snapshot
<1>5. Fits(NoSnapshot)
  BY DEF ChatInv, SnapshotsFit
<1> QED
  BY <1>2, <1>3, <1>4, <1>5

\* The steps of a turn that leave row, lease and count alone.
LEMMA QuietTurn ==
  ASSUME ChatInv, NEW t \in Turns, NEW new \in TurnType, turn' = [turn EXCEPT ![t] = new],
         UNCHANGED <<row, other, holds, slots>>, faults' \in 0..MaxFaults,
         turn[t].at \in Admitted <=> new.at \in Admitted,
         new.at \in Working => new.held, new.held => turn[t].held,
         Fits(new.snap), new.at \in {"said", "answered"} => new.snap.version < version,
         new.at \in Unsaid => turn[t].at \in Unsaid,
         new.at \in Unanswered => turn[t].at \in Unanswered
  PROVE  ChatInv'
<1>1. UNCHANGED <<lease, lapsed, gauge, draining>> /\ Typed /\ CountExact /\ LeaseKept
  BY DEF holds, slots, ChatInv
<1>2. CountExact' /\ gauge' \in [Replicas -> Nat]
  BY <1>1, CountFollows
<1>3. LeaseKept'
  BY <1>1, LeaseStays
<1>4. lease' \in [owner : Turns \cup {NoOwner}, live : BOOLEAN]
  BY <1>1 DEF Typed
<1> QED
  BY <1>1, <1>2, <1>3, <1>4, TurnMoves

LEMMA LoadKeeps == ASSUME ChatInv, NEW t \in Turns, Load(t) PROVE ChatInv'
<1> DEFINE new == [turn[t] EXCEPT !.at = "loaded", !.snap = Snapshot]
<1>1. /\ turn' = [turn EXCEPT ![t] = new] /\ turn[t].at = "entered"
      /\ UNCHANGED <<row, other, holds, slots, faults>>
  BY DEF Load, At, ChatInv, Typed
<1>2. turn[t] \in TurnType /\ Fits(Snapshot) /\ Snapshot \in Snapshots
  BY TurnParts
<1>3. /\ new \in TurnType /\ new.at = "loaded" /\ new.snap = Snapshot /\ new.held = turn[t].held
  BY <1>2 DEF TurnType, Phases, Admitted
<1> HIDE DEF new
<1>4. faults' \in 0..MaxFaults
  BY <1>1 DEF ChatInv, Typed
<1> QED
  BY <1>1, <1>2, <1>3, <1>4, QuietTurn DEF Admitted, Working, Unsaid, Unanswered

LEMMA ChargeKeeps ==
  ASSUME ChatInv, NEW t \in Turns, NEW charge \in {"none", "open"}, Charge(t, charge)
  PROVE  ChatInv'
<1> DEFINE new == [turn[t] EXCEPT !.at = "charged", !.charge = charge]
<1>1. /\ turn' = [turn EXCEPT ![t] = new] /\ turn[t].at = "loaded"
      /\ UNCHANGED <<row, other, holds, slots, faults>>
  BY DEF Charge, At, ChatInv, Typed
<1>2. turn[t] \in TurnType /\ Fits(turn[t].snap)
  BY TurnParts
<1>3. /\ new \in TurnType /\ new.at = "charged" /\ new.snap = turn[t].snap /\ new.held = turn[t].held
  BY <1>2 DEF TurnType, Phases, Admitted
<1> HIDE DEF new
<1>4. faults' \in 0..MaxFaults
  BY <1>1 DEF ChatInv, Typed
<1> QED
  BY <1>1, <1>2, <1>3, <1>4, QuietTurn DEF Admitted, Working, Unsaid, Unanswered

LEMMA AnswerKeeps ==
  ASSUME ChatInv, NEW t \in Turns, NEW served \in BOOLEAN, Answer(t, served)
  PROVE  ChatInv'
<1> DEFINE new == [turn[t] EXCEPT !.at = "answered", !.served = served]
<1>1. /\ turn' = [turn EXCEPT ![t] = new] /\ turn[t].at = "said"
      /\ UNCHANGED <<row, other, holds, slots, faults>>
  BY DEF Answer, At, ChatInv, Typed
<1>2. turn[t] \in TurnType /\ Fits(turn[t].snap)
  BY TurnParts
<1>3. /\ new \in TurnType /\ new.at = "answered" /\ new.snap = turn[t].snap /\ new.held = turn[t].held
  BY <1>2 DEF TurnType, Phases, Admitted
<1> HIDE DEF new
<1>4. faults' \in 0..MaxFaults
  BY <1>1 DEF ChatInv, Typed
<1>5. turn[t].held /\ turn[t].snap.version < version
  BY <1>1 DEF ChatInv, LeaseKept, SnapshotsFit, Working
<1> QED
  BY <1>1, <1>2, <1>3, <1>4, <1>5, QuietTurn DEF Admitted, Working, Unsaid, Unanswered

\* What Ends does to a turn.
LEMMA EndedTurn ==
  ASSUME ChatInv, NEW t \in Turns, NEW phase \in Phases, NEW served \in BOOLEAN,
         Ends(t, phase, served)
  PROVE  \E new \in TurnType :
           /\ turn' = [turn EXCEPT ![t] = new] /\ new.at = phase
           /\ new.snap = NoSnapshot /\ new.held = turn[t].held
<1> DEFINE new == [turn[t] EXCEPT !.at = phase, !.snap = NoSnapshot, !.served = served]
<1>1. turn' = [turn EXCEPT ![t] = new]
  BY DEF Ends, ChatInv, Typed
<1>2. turn[t] \in TurnType /\ NoSnapshot \in Snapshots
  BY TurnParts
<1>3. new \in TurnType /\ new.at = phase /\ new.snap = NoSnapshot /\ new.held = turn[t].held
  BY <1>2 DEF TurnType
<1> HIDE DEF new
<1> QED
  BY <1>1, <1>3

LEMMA FailKeeps ==
  ASSUME ChatInv, NEW t \in Turns, NEW served \in BOOLEAN, Fail(t, served)
  PROVE  ChatInv'
<1>1. /\ turn[t].at \in {"entered", "loaded", "charged"} \cup Working
      /\ Ends(t, "ending", served) /\ UNCHANGED <<row, other, holds, slots, faults>>
  BY DEF Fail
<1>2. "ending" \in Phases
  BY DEF Phases, Admitted
<1>3. PICK new \in TurnType : /\ turn' = [turn EXCEPT ![t] = new] /\ new.at = "ending"
                              /\ new.snap = NoSnapshot /\ new.held = turn[t].held
  BY <1>1, <1>2, EndedTurn
<1>4. faults' \in 0..MaxFaults
  BY <1>1 DEF ChatInv, Typed
<1> QED
  BY <1>1, <1>3, <1>4, TurnParts, QuietTurn DEF Admitted, Working, Unsaid, Unanswered

\* A charge is closed, now or later, without the turn moving.
LEMMA ChargeMoves ==
  ASSUME ChatInv, NEW t \in Turns, NEW charge, turn' = [turn EXCEPT ![t].charge = charge],
         charge \in {"none", "open", "retrying", "abandoned", "settled", "refunded"},
         UNCHANGED <<row, other, holds, slots>>, faults' \in 0..MaxFaults
  PROVE  ChatInv'
<1> DEFINE new == [turn[t] EXCEPT !.charge = charge]
<1>1. turn' = [turn EXCEPT ![t] = new]
  BY DEF ChatInv, Typed
<1>2. turn[t] \in TurnType /\ Fits(turn[t].snap)
  BY TurnParts
<1>3. /\ new \in TurnType /\ new.at = turn[t].at /\ new.snap = turn[t].snap
      /\ new.held = turn[t].held
  BY <1>2 DEF TurnType
<1> HIDE DEF new
<1>4. /\ turn[t].at \in Working => turn[t].held
      /\ turn[t].at \in {"said", "answered"} => turn[t].snap.version < version
  BY DEF ChatInv, LeaseKept, SnapshotsFit
<1> QED
  BY <1>1, <1>2, <1>3, <1>4, QuietTurn

LEMMA FaultCounted ==
  ASSUME ChatInv, UNCHANGED faults \/ Fault PROVE faults' \in 0..MaxFaults
<1>1. faults \in 0..MaxFaults /\ MaxFaults \in Nat
  BY ChatAssumption DEF ChatInv, Typed
<1> QED
  BY <1>1 DEF Fault

LEMMA ChargeCloseKeeps ==
  ASSUME ChatInv, NEW t \in Turns, NEW reached \in BOOLEAN,
         CloseCharge(t, reached) \/ RetryClose(t, reached)
  PROVE  ChatInv'
<1>1. Outcome(t) \in {"settled", "refunded"}
  BY DEF Outcome
<1>2. CASE CloseCharge(t, reached)
  BY <1>1, <1>2, FaultCounted, ChargeMoves DEF CloseCharge
<1>3. CASE RetryClose(t, reached)
  BY <1>1, <1>3, FaultCounted, ChargeMoves DEF RetryClose
<1> QED
  BY <1>2, <1>3
-----------------------------------------------------------------------------
(* The steps of a turn into its flight and out of it, and those of its lease *)

LEMMA EnterKeeps == ASSUME ChatInv, NEW t \in Turns, Enter(t) PROVE ChatInv'
<1> DEFINE new == [turn[t] EXCEPT !.at = "entered"]
<1>1. /\ turn' = [turn EXCEPT ![t] = new] /\ turn[t].at = "idle"
      /\ gauge' = [gauge EXCEPT ![HomeOf[t]] = @ + 1]
      /\ UNCHANGED <<row, other, lease, lapsed, draining, faults>>
  BY DEF Enter, At, Goes, Counts, Counted, holds, ChatInv, Typed
<1>2. turn[t] \in TurnType /\ Fits(turn[t].snap)
  BY TurnParts
<1>3. /\ new \in TurnType /\ new.at = "entered" /\ new.snap = turn[t].snap
      /\ new.held = turn[t].held
  BY <1>2 DEF TurnType, Phases, Admitted
<1> HIDE DEF new
<1>4. CountExact' /\ gauge' \in [Replicas -> Nat]
  BY <1>1, <1>3, CountFollows DEF ChatInv, Admitted
<1>5. LeaseKept'
  BY <1>1, <1>3, LeaseStays DEF ChatInv, Working
<1>6. faults' \in 0..MaxFaults /\ lease' \in [owner : Turns \cup {NoOwner}, live : BOOLEAN]
  BY <1>1 DEF ChatInv, Typed
<1> QED
  BY <1>1, <1>2, <1>3, <1>4, <1>5, <1>6, TurnMoves DEF Unsaid, Unanswered

\* A lease is taken only when none is live, so that no other turn holds one unless
\* it has lapsed.
LEMMA AcquireKeeps == ASSUME ChatInv, NEW t \in Turns, Acquire(t) PROVE ChatInv'
<1>1. /\ turn[t].at = "charged" /\ UNCHANGED <<row, other, lapsed, draining, faults>>
      /\ ChatInv /\ Typed /\ LeaseKept /\ CountExact
  BY DEF Acquire, At, ChatInv
<1>2. faults' \in 0..MaxFaults /\ faults' = faults
  BY <1>1 DEF Typed
<1>3. CASE Free(t)
  <2> DEFINE new == [turn[t] EXCEPT !.at = "leased", !.held = TRUE]
             taken == [owner |-> t, live |-> TRUE]
  <2>1. /\ turn' = [turn EXCEPT ![t] = new] /\ lease' = taken /\ UNCHANGED gauge
    BY <1>1, <1>3 DEF Acquire, Counts, Counted, Typed
  <2>2. turn[t] \in TurnType /\ Fits(turn[t].snap)
    BY TurnParts
  <2>3. new \in TurnType /\ new.at = "leased" /\ new.snap = turn[t].snap /\ new.held
    BY <2>2 DEF TurnType, Phases, Admitted
  <2>4. taken \in [owner : Turns \cup {NoOwner}, live : BOOLEAN] /\ taken.owner = t
    OBVIOUS
  <2> HIDE DEF new
  <2>5. turn'[t] = new /\ \A u \in Turns \ {t} : turn'[u] = turn[u]
    BY <1>1, <2>1, MovedTurn
  <2>6. CountExact' /\ gauge' \in [Replicas -> Nat]
    BY <1>1, <2>1, <2>3, CountFollows DEF Admitted
  <2>7. ASSUME NEW u \in Turns \ {t}, turn[u].held
        PROVE  lapsed
    <3>1. ~lapsed => lease.live
      BY <1>1, <2>7 DEF LeaseKept
    <3> QED
      BY <1>3, <3>1 DEF Free
  <2>8. LeaseKept'
    <3>1. ASSUME NEW u \in Turns
          PROVE  /\ turn'[u].at \in Working => turn'[u].held
                 /\ turn'[u].held /\ ~lapsed' => lease' = [owner |-> u, live |-> TRUE]
      <4>1. CASE u = t
        BY <2>1, <2>3, <2>5, <4>1
      <4>2. CASE u # t
        BY <1>1, <2>5, <2>7, <4>2 DEF LeaseKept
      <4> QED
        BY <4>1, <4>2
    <3> QED
      BY <2>1, <2>4, <3>1 DEF LeaseKept
  <2> QED
    BY <1>1, <1>2, <2>1, <2>2, <2>3, <2>4, <2>6, <2>8, TurnMoves DEF Unsaid, Unanswered
<1>4. CASE ~Free(t)
  <2>1. Ends(t, "ending", FALSE) /\ UNCHANGED <<lease, gauge>>
    BY <1>4 DEF Acquire
  <2>2. "ending" \in Phases
    BY DEF Phases, Admitted
  <2>3. PICK new \in TurnType : /\ turn' = [turn EXCEPT ![t] = new] /\ new.at = "ending"
                                /\ new.snap = NoSnapshot /\ new.held = turn[t].held
    BY <2>1, <2>2, EndedTurn
  <2>4. UNCHANGED <<row, other, holds, slots>>
    BY <1>1, <2>1 DEF holds, slots
  <2> QED
    BY <1>1, <1>2, <2>3, <2>4, TurnParts, QuietTurn DEF Admitted, Working, Unsaid, Unanswered
<1> QED
  BY <1>3, <1>4

LEMMA ReleaseKeeps ==
  ASSUME ChatInv, NEW t \in Turns, NEW reached \in BOOLEAN, ReleaseLease(t, reached)
  PROVE  ChatInv'
<1> DEFINE new == [turn[t] EXCEPT !.held = FALSE]
<1>1. /\ turn' = [turn EXCEPT ![t] = new] /\ turn[t].at \in {"ending", "landed"}
      /\ Released(t, reached) /\ UNCHANGED <<row, other, lapsed, gauge, draining>>
      /\ UNCHANGED faults \/ Fault
  BY DEF ReleaseLease, At, slots, ChatInv, Typed
<1>2. turn[t] \in TurnType /\ Fits(turn[t].snap)
  BY TurnParts
<1>3. new \in TurnType /\ new.at = turn[t].at /\ new.snap = turn[t].snap /\ ~new.held
  BY <1>2 DEF TurnType
<1> HIDE DEF new
<1>4. CountExact' /\ gauge' \in [Replicas -> Nat]
  BY <1>1, <1>3, CountFollows DEF ChatInv
<1>5. LeaseKept' /\ lease' \in [owner : Turns \cup {NoOwner}, live : BOOLEAN]
  BY <1>1, <1>3, LeaseReleased DEF ChatInv, Working
<1>6. faults' \in 0..MaxFaults
  BY <1>1, FaultCounted
<1> QED
  BY <1>1, <1>2, <1>3, <1>4, <1>5, <1>6, TurnMoves

LEMMA LeaveKeeps == ASSUME ChatInv, NEW t \in Turns, Leave(t) PROVE ChatInv'
<1> DEFINE new == [turn[t] EXCEPT !.at = "left"]
<1>1. /\ turn' = [turn EXCEPT ![t] = new] /\ turn[t].at \in {"ending", "landed"} /\ ~turn[t].held
      /\ Uncounts(t) /\ UNCHANGED <<row, other, lease, lapsed, draining, faults>>
  BY DEF Leave, At, Goes, holds, ChatInv, Typed
<1>2. turn[t] \in TurnType /\ Fits(turn[t].snap)
  BY TurnParts
<1>3. /\ new \in TurnType /\ new.at = "left" /\ new.snap = turn[t].snap
      /\ new.held = turn[t].held
  BY <1>2 DEF TurnType, Phases
<1> HIDE DEF new
<1>4. CountExact' /\ gauge' \in [Replicas -> Nat]
  BY <1>1, <1>3, CountFollows DEF ChatInv, Admitted
<1>5. LeaseKept'
  BY <1>1, <1>3, LeaseStays DEF ChatInv, Working
<1>6. faults' \in 0..MaxFaults /\ lease' \in [owner : Turns \cup {NoOwner}, live : BOOLEAN]
  BY <1>1 DEF ChatInv, Typed
<1> QED
  BY <1>1, <1>2, <1>3, <1>4, <1>5, <1>6, TurnMoves DEF Unsaid, Unanswered

LEMMA CutShortKeeps ==
  ASSUME ChatInv, NEW t \in Turns, NEW reached \in BOOLEAN, CutShort(t, reached)
  PROVE  ChatInv'
<1> DEFINE new == [turn[t] EXCEPT !.at = "left", !.held = FALSE]
<1>1. /\ turn' = [turn EXCEPT ![t] = new] /\ turn[t].at = "ending" /\ Fault
      /\ Released(t, reached) /\ Uncounts(t) /\ UNCHANGED <<row, other, lapsed, draining>>
  BY DEF CutShort, At, ChatInv, Typed
<1>2. turn[t] \in TurnType /\ Fits(turn[t].snap)
  BY TurnParts
<1>3. new \in TurnType /\ new.at = "left" /\ new.snap = turn[t].snap /\ ~new.held
  BY <1>2 DEF TurnType, Phases
<1> HIDE DEF new
<1>4. CountExact' /\ gauge' \in [Replicas -> Nat]
  BY <1>1, <1>3, CountFollows DEF ChatInv, Admitted
<1>5. LeaseKept' /\ lease' \in [owner : Turns \cup {NoOwner}, live : BOOLEAN]
  BY <1>1, <1>3, LeaseReleased DEF ChatInv, Working
<1>6. faults' \in 0..MaxFaults
  BY <1>1, FaultCounted
<1> QED
  BY <1>1, <1>2, <1>3, <1>4, <1>5, <1>6, TurnMoves DEF Unsaid, Unanswered
-----------------------------------------------------------------------------
(* The steps that write the row *)

\* A message is saved by a writer that loaded the row once and has saved since only
\* messages of its own.
LEMMA SavesKeep ==
  ASSUME Typed, ThreadSound, NEW snap \in Snapshots, Fits(snap), NEW before \in Seq(Message),
         snap.version = version => before = <<>>,
         NEW new \in Message, new \notin written, Saves(snap, before, new)
  PROVE  /\ thread' \in Seq(Message) /\ version' = version + 1
         /\ written' = written \cup {new} /\ written' \subseteq Message
         /\ torn' \in BOOLEAN /\ ThreadSound'
<1> DEFINE known == snap.seen \o before
<1>1. /\ Save(snap, Append(known, new)) /\ written' = written \cup {new}
      /\ torn' = (torn \/ ~Intact(known))
  BY DEF Saves
<1>2. snap.seen \in Seq(Message) /\ known \in Seq(Message)
  BY DEF Snapshots
<1>3. thread' \in Seq(Message) /\ version' = version + 1
  <2>1. Append(known, new) \in Seq(Message)
    BY <1>2
  <2> HIDE DEF known
  <2> QED
    BY <1>1, <2>1, SavedTyped
<1>4. torn' \in BOOLEAN /\ written' \subseteq Message
  BY <1>1 DEF Typed
<1>5. ASSUME ~torn' PROVE Enumerates(thread', written')
  <2>1. ~torn /\ Intact(known)
    BY <1>1, <1>5
  <2>2. Enumerates(thread, written)
    BY <2>1 DEF ThreadSound
  <2>3. \A i \in DOMAIN thread : thread[i] # new
    BY <2>2 DEF Enumerates
  <2>4. PICK k \in 0..Len(thread) :
           /\ Len(thread') = Len(thread) + 1
           /\ \A i \in 1..Len(thread') :
                thread'[i] = IF i <= k THEN thread[i]
                             ELSE IF i = k + 1 THEN new ELSE thread[i - 1]
    BY <1>1, <1>2, <2>1, <2>3, SavedWhole
  <2>5. thread \in Seq(Message)
    BY DEF Typed
  <2> QED
    BY <1>1, <1>3, <2>2, <2>4, <2>5, InsertedKeeps
<1>6. ThreadSound'
  BY <1>5 DEF ThreadSound, Enumerates
<1> QED
  BY <1>1, <1>3, <1>4, <1>6

LEMMA AppendKeeps ==
  ASSUME Typed, ThreadSound, NEW new \in Message, new \notin written, AppendTail(new),
         written' = written \cup {new}, UNCHANGED torn
  PROVE  /\ thread' \in Seq(Message) /\ version' = version + 1
         /\ written' \subseteq Message /\ ThreadSound'
<1>1. thread \in Seq(Message) /\ thread' = Append(thread, new) /\ version' = version + 1
  BY DEF AppendTail, Typed
<1>2. /\ thread' \in Seq(Message) /\ Len(thread') = Len(thread) + 1 /\ Len(thread) \in 0..Len(thread)
      /\ \A i \in 1..Len(thread') :
           thread'[i] = IF i <= Len(thread) THEN thread[i]
                        ELSE IF i = Len(thread) + 1 THEN new ELSE thread[i - 1]
  BY <1>1
<1>3. ASSUME ~torn' PROVE Enumerates(thread', written')
  <2>1. Enumerates(thread, written)
    BY <1>3 DEF ThreadSound
  <2> QED
    BY <1>1, <1>2, <2>1, InsertedKeeps
<1>4. ThreadSound'
  BY <1>3 DEF ThreadSound, Enumerates
<1> QED
  BY <1>1, <1>2, <1>4 DEF Typed

\* Behind a write every snapshot is one of a former version.
LEMMA Outdated ==
  ASSUME Typed, version' = version + 1, NEW snap \in Snapshots, Fits(snap)
  PROVE  /\ snap.version < version' /\ snap.version <= version'
         /\ (snap.version = version' => snap.seen = thread')
  BY DEF Typed, Snapshots, Fits

LEMMA MessageTypes ==
  /\ \A t \in Turns : User(t) \in Message /\ Reply(t) \in Message
  /\ \A w \in Others : Note(w) \in Message
  BY DEF User, Reply, Note, Message

\* A turn that writes a message of its own, in a phase that did not write it yet.
LEMMA TurnWrites ==
  ASSUME ChatInv, NEW t \in Turns, NEW new \in TurnType, turn' = [turn EXCEPT ![t] = new],
         UNCHANGED <<other, holds, slots, faults>>,
         turn[t].at \in Working, new.at \in {"said", "landed"}, new.held = turn[t].held,
         new.snap \in {turn[t].snap, NoSnapshot},
         thread' \in Seq(Message), version' = version + 1, torn' \in BOOLEAN, ThreadSound',
         written' \subseteq Message,
         \/ new.at = "said" /\ turn[t].at = "leased" /\ written' = written \cup {User(t)}
         \/ new.at = "landed" /\ written' = written \cup {Reply(t)}
  PROVE  ChatInv'
<1>1. turn'[t] = new /\ \A u \in Turns \ {t} : turn'[u] = turn[u]
  BY MovedTurn DEF ChatInv
<1>2. UNCHANGED <<lease, lapsed, gauge, draining>> /\ Typed /\ CountExact /\ LeaseKept
  BY DEF holds, slots, ChatInv
<1>3. CountExact'
  BY <1>2, CountFollows DEF Admitted, Working
<1>4. LeaseKept'
  BY <1>2, LeaseStays DEF LeaseKept
<1>5. Typed'
  BY <1>2 DEF Typed
<1>6. SnapshotsFit'
  <2>1. /\ \A u \in Turns : turn[u].snap \in Snapshots /\ Fits(turn[u].snap)
        /\ \A w \in Others : other[w].snap \in Snapshots /\ Fits(other[w].snap)
        /\ NoSnapshot \in Snapshots /\ Fits(NoSnapshot)
    BY TurnParts DEF ChatInv, Typed, SnapshotsFit, TurnType
  <2>2. \A snap \in Snapshots : Fits(snap) =>
          /\ snap.version < version' /\ snap.version <= version'
          /\ (snap.version = version' => snap.seen = thread')
    BY <1>2, Outdated
  <2>3. ASSUME NEW u \in Turns
        PROVE  /\ Fits(turn[u].snap)'
               /\ turn'[u].at \in {"said", "answered"} => turn'[u].snap.version < version'
    <3>1. turn'[u].snap \in Snapshots /\ Fits(turn'[u].snap)
      BY <1>1, <2>1
    <3> QED
      BY <2>2, <3>1 DEF Fits
  <2>4. \A w \in Others : Fits(other[w].snap)'
    BY <2>1, <2>2 DEF Fits
  <2>5. Fits(NoSnapshot)'
    BY <2>1, <2>2 DEF Fits, NoSnapshot
  <2> QED
    BY <2>3, <2>4, <2>5 DEF SnapshotsFit
<1>7. NotYet'
  <2>1. \A u \in Turns \ {t} : User(u) # User(t) /\ User(u) # Reply(t) /\ Reply(u) # Reply(t)
                               /\ Reply(u) # User(t)
    BY DEF User, Reply
  <2>2. \A w \in Others : Note(w) # User(t) /\ Note(w) # Reply(t)
    BY DEF User, Reply, Note
  <2>3. Reply(t) # User(t)
    BY DEF User, Reply
  <2>4. \A u \in Turns : User(u)' = User(u) /\ Reply(u)' = Reply(u)
    BY DEF User, Reply
  <2>5. new.at \notin Unsaid /\ (new.at \in Unanswered => new.at = "said")
    BY DEF Unsaid, Unanswered
  <2>6. turn[t].at = "leased" => Reply(t) \notin written
    BY DEF ChatInv, NotYet, Unsaid, Unanswered
  <2> QED
    BY <1>1, <2>1, <2>2, <2>3, <2>5, <2>6 DEF ChatInv, NotYet
<1> QED
  BY <1>3, <1>4, <1>5, <1>6, <1>7 DEF ChatInv

LEMMA SayKeeps == ASSUME ChatInv, NEW t \in Turns, Say(t) PROVE ChatInv'
<1> DEFINE new == [turn[t] EXCEPT !.at = "said"]
<1>1. /\ turn' = [turn EXCEPT ![t] = new] /\ turn[t].at = "leased"
      /\ Saves(turn[t].snap, <<>>, User(t)) /\ UNCHANGED <<other, holds, slots, faults>>
  BY DEF Say, At, Goes, ChatInv, Typed
<1>2. turn[t] \in TurnType /\ turn[t].snap \in Snapshots /\ Fits(turn[t].snap)
  BY TurnParts
<1>3. /\ new \in TurnType /\ new.at = "said" /\ new.snap = turn[t].snap
      /\ new.held = turn[t].held
  BY <1>2 DEF TurnType, Phases, Admitted
<1> HIDE DEF new
<1>4. User(t) \in Message /\ User(t) \notin written /\ <<>> \in Seq(Message)
  BY <1>1, MessageTypes DEF ChatInv, NotYet, Unsaid
<1>5. /\ thread' \in Seq(Message) /\ version' = version + 1
      /\ written' = written \cup {User(t)} /\ written' \subseteq Message
      /\ torn' \in BOOLEAN /\ ThreadSound'
  BY <1>1, <1>2, <1>4, SavesKeep DEF ChatInv
<1> QED
  BY <1>1, <1>3, <1>5, TurnWrites DEF Working

LEMMA LandKeeps == ASSUME ChatInv, NEW t \in Turns, Land(t) PROVE ChatInv'
<1>1. /\ turn[t].at = "answered" /\ Ends(t, "landed", turn[t].served)
      /\ Saves(turn[t].snap, <<User(t)>>, Reply(t)) /\ UNCHANGED <<other, holds, slots, faults>>
  BY DEF Land, At
<1>2. turn[t] \in TurnType /\ turn[t].snap \in Snapshots /\ Fits(turn[t].snap)
  BY TurnParts
<1>3. "landed" \in Phases /\ turn[t].served \in BOOLEAN
  BY <1>2 DEF Phases, Admitted, TurnType
<1>4. PICK new \in TurnType : /\ turn' = [turn EXCEPT ![t] = new] /\ new.at = "landed"
                              /\ new.snap = NoSnapshot /\ new.held = turn[t].held
  BY <1>1, <1>3, EndedTurn
<1>5. /\ Reply(t) \in Message /\ Reply(t) \notin written
      /\ User(t) \in Message /\ <<User(t)>> \in Seq(Message)
  BY <1>1, MessageTypes DEF ChatInv, NotYet, Unanswered
<1>6. turn[t].snap.version # version
  BY <1>1, <1>2 DEF ChatInv, SnapshotsFit, Typed, Snapshots
<1>7. /\ thread' \in Seq(Message) /\ version' = version + 1
      /\ written' = written \cup {Reply(t)} /\ written' \subseteq Message
      /\ torn' \in BOOLEAN /\ ThreadSound'
  BY <1>1, <1>2, <1>5, <1>6, SavesKeep DEF ChatInv
<1> QED
  BY <1>1, <1>4, <1>7, TurnWrites DEF Working

\* A step of another writer: it loads the row, or writes its message and is done.
LEMMA OtherMoves ==
  ASSUME ChatInv, NEW w \in Others, NEW new \in [at : {"idle", "loaded", "done"}, snap : Snapshots],
         other' = [other EXCEPT ![w] = new], UNCHANGED <<turn, holds, slots, faults>>,
         \/ UNCHANGED row /\ new.at = "loaded" /\ Fits(new.snap) /\ other[w].at = "idle"
         \/ /\ thread' \in Seq(Message) /\ version' = version + 1 /\ torn' \in BOOLEAN
            /\ written' = written \cup {Note(w)} /\ written' \subseteq Message /\ ThreadSound'
            /\ new = Done
  PROVE  ChatInv'
<1>1. other'[w] = new /\ \A x \in Others \ {w} : other'[x] = other[x]
  BY DEF ChatInv, Typed
<1>2. /\ UNCHANGED <<turn, lease, lapsed, gauge, draining, faults>>
      /\ Typed /\ CountExact /\ LeaseKept /\ ThreadSound
  BY DEF holds, slots, ChatInv
<1>3. CountExact' /\ LeaseKept'
  BY <1>2 DEF CountExact, InFlight, LeaseKept
<1>4. /\ \A u \in Turns : turn[u].snap \in Snapshots /\ Fits(turn[u].snap)
      /\ \A x \in Others : other[x].snap \in Snapshots /\ Fits(other[x].snap)
      /\ NoSnapshot \in Snapshots /\ Fits(NoSnapshot)
  <2>1. NoSnapshot \in Snapshots
    BY DEF NoSnapshot, Snapshots
  <2> QED
    BY <2>1 DEF ChatInv, Typed, SnapshotsFit, TurnType
<1>5. CASE UNCHANGED row /\ new.at = "loaded" /\ Fits(new.snap) /\ other[w].at = "idle"
  <2>1. UNCHANGED <<thread, version, written, torn>>
    BY <1>5 DEF row
  <2>2. Typed'
    BY <1>2, <2>1 DEF Typed
  <2>3. SnapshotsFit'
    BY <1>1, <1>2, <1>5, <2>1 DEF ChatInv, SnapshotsFit, Fits
  <2>4. NotYet'
    BY <1>1, <1>2, <1>5, <2>1 DEF ChatInv, NotYet, User, Reply, Note
  <2>5. ThreadSound'
    BY <1>2, <2>1 DEF ThreadSound, Enumerates
  <2> QED
    BY <1>3, <2>2, <2>3, <2>4, <2>5 DEF ChatInv
<1>6. CASE /\ thread' \in Seq(Message) /\ version' = version + 1 /\ torn' \in BOOLEAN
           /\ written' = written \cup {Note(w)} /\ written' \subseteq Message /\ ThreadSound'
           /\ new = Done
  <2>1. new.snap = NoSnapshot /\ new.at = "done"
    BY <1>6 DEF Done
  <2>2. Typed'
    BY <1>2, <1>6 DEF Typed
  <2>3. \A snap \in Snapshots : Fits(snap) =>
          /\ snap.version < version' /\ snap.version <= version'
          /\ (snap.version = version' => snap.seen = thread')
    BY <1>2, <1>6, Outdated
  <2>4. SnapshotsFit'
    <3>1. \A x \in Others : other'[x].snap \in Snapshots /\ Fits(other'[x].snap)
      BY <1>1, <1>4, <2>1
    <3>2. \A x \in Others : Fits(other[x].snap)'
      BY <2>3, <3>1 DEF Fits
    <3>3. Fits(NoSnapshot)'
      BY <1>4, <2>3 DEF Fits, NoSnapshot
    <3>4. \A u \in Turns : /\ Fits(turn[u].snap)'
                           /\ turn'[u].at \in {"said", "answered"} => turn'[u].snap.version < version'
      BY <1>2, <1>4, <2>3 DEF Fits
    <3> QED
      BY <3>2, <3>3, <3>4 DEF SnapshotsFit
  <2>5. NotYet'
    <3>1. \A u \in Turns : User(u) # Note(w) /\ Reply(u) # Note(w)
      BY DEF User, Reply, Note
    <3>2. \A x \in Others \ {w} : Note(x) # Note(w)
      BY DEF Note
    <3> QED
      BY <1>1, <1>2, <1>6, <2>1, <3>1, <3>2 DEF ChatInv, NotYet
  <2> QED
    BY <1>3, <1>6, <2>2, <2>4, <2>5 DEF ChatInv
<1> QED
  BY <1>5, <1>6

LEMMA OthersKeep ==
  ASSUME ChatInv, NEW w \in Others, SceneAppends(w) \/ PushLoad(w) \/ PushSave(w)
  PROVE  ChatInv'
<1> USE DEF ChatInv
<1>1. Snapshot \in Snapshots /\ Fits(Snapshot) /\ NoSnapshot \in Snapshots
  BY DEF Typed, Snapshot, Snapshots, NoSnapshot, Fits
<1>2. Done \in [at : {"idle", "loaded", "done"}, snap : Snapshots]
  BY <1>1 DEF Done
<1>3. other[w].snap \in Snapshots /\ Fits(other[w].snap) /\ Note(w) \in Message
  BY MessageTypes DEF Typed, SnapshotsFit
<1>4. CASE SceneAppends(w)
  <2>1. /\ other[w].at = "idle" /\ other' = [other EXCEPT ![w] = Done] /\ AppendTail(Note(w))
        /\ written' = written \cup {Note(w)} /\ UNCHANGED <<torn, turn, holds, slots, faults>>
    BY <1>4 DEF SceneAppends
  <2>2. Note(w) \notin written
    BY <2>1 DEF NotYet
  <2>3. torn' \in BOOLEAN
    BY <2>1 DEF Typed
  <2> QED
    BY <1>2, <1>3, <2>1, <2>2, <2>3, AppendKeeps, OtherMoves
<1>5. CASE PushLoad(w)
  <2> DEFINE new == [at |-> "loaded", snap |-> Snapshot]
  <2>1. /\ other[w].at = "idle" /\ other' = [other EXCEPT ![w] = new]
        /\ UNCHANGED <<turn, holds, slots, faults>> /\ UNCHANGED row
    BY <1>5 DEF PushLoad
  <2>2. new \in [at : {"idle", "loaded", "done"}, snap : Snapshots] /\ new.at = "loaded" /\ Fits(new.snap)
    BY <1>1
  <2> HIDE DEF new
  <2> QED
    BY <2>1, <2>2, OtherMoves
<1>6. CASE PushSave(w)
  <2>1. /\ other[w].at = "loaded" /\ other' = [other EXCEPT ![w] = Done]
        /\ Saves(other[w].snap, <<>>, Note(w)) /\ UNCHANGED <<turn, holds, slots, faults>>
    BY <1>6 DEF PushSave
  <2>2. Note(w) \notin written /\ <<>> \in Seq(Message)
    BY <2>1 DEF NotYet
  <2>3. /\ thread' \in Seq(Message) /\ version' = version + 1
        /\ written' = written \cup {Note(w)} /\ written' \subseteq Message
        /\ torn' \in BOOLEAN /\ ThreadSound'
    BY <1>3, <2>1, <2>2, SavesKeep
  <2> QED
    BY <1>2, <2>1, <2>3, OtherMoves
<1> QED
  BY <1>4, <1>5, <1>6
-----------------------------------------------------------------------------
(* The replicas, and the lease that runs out *)

LEMMA BeginDrainKeeps == ASSUME ChatInv, NEW r \in Replicas, BeginDrain(r) PROVE ChatInv'
<1>1. /\ draining' = draining \cup {r}
      /\ UNCHANGED <<thread, version, written, torn, turn, other, lease, lapsed, gauge, faults>>
  BY DEF BeginDrain, row, holds
<1>2. Typed'
  BY <1>1 DEF ChatInv, Typed
<1>3. CountExact' /\ LeaseKept'
  BY <1>1 DEF ChatInv, CountExact, InFlight, LeaseKept
<1>4. SnapshotsFit' /\ NotYet' /\ ThreadSound'
  BY <1>1 DEF ChatInv, SnapshotsFit, Fits, NotYet, User, Reply, Note, ThreadSound, Enumerates
<1> QED
  BY <1>2, <1>3, <1>4 DEF ChatInv

\* The turns of a process that dies leave the count together.
LEMMA CrashKeeps == ASSUME ChatInv, NEW r \in Replicas, Crash(r) PROVE ChatInv'
<1> DEFINE gone(t) == HomeOf[t] = r /\ turn[t].at \in Admitted
           dead(t) == [turn[t] EXCEPT !.at = "dead", !.held = FALSE, !.snap = NoSnapshot]
<1>1. /\ turn' = [t \in Turns |-> IF gone(t) THEN dead(t) ELSE turn[t]]
      /\ gauge' = [gauge EXCEPT ![r] = 0] /\ draining' = draining \ {r} /\ Fault
      /\ UNCHANGED <<thread, version, written, torn, other, lease, lapsed>>
  BY DEF Crash, row, holds
<1>2. \A t \in Turns : /\ dead(t) \in TurnType /\ dead(t).at = "dead" /\ ~dead(t).held
                       /\ dead(t).snap = NoSnapshot
  <2> SUFFICES ASSUME NEW t \in Turns
               PROVE  /\ dead(t) \in TurnType /\ dead(t).at = "dead" /\ ~dead(t).held
                      /\ dead(t).snap = NoSnapshot
    OBVIOUS
  <2>1. turn[t] \in TurnType /\ NoSnapshot \in Snapshots
    BY TurnParts
  <2> QED
    BY <2>1 DEF TurnType, Phases
<1> HIDE DEF dead
<1>3. \A t \in Turns : /\ gone(t) => turn'[t] = dead(t)
                       /\ ~gone(t) => turn'[t] = turn[t]
  BY <1>1
<1>4. Typed'
  <2>1. turn' \in [Turns -> TurnType]
    BY <1>1, <1>2 DEF ChatInv, Typed
  <2>2. gauge' \in [Replicas -> Nat]
    BY <1>1 DEF ChatInv, Typed
  <2>3. faults' \in 0..MaxFaults
    BY <1>1, FaultCounted
  <2> QED
    BY <1>1, <2>1, <2>2, <2>3 DEF ChatInv, Typed
<1>5. CountExact'
  <2>1. \A s \in Replicas \ {r} : InFlight(s)' = InFlight(s) /\ gauge'[s] = gauge[s]
    BY <1>1, <1>3 DEF InFlight, ChatInv, Typed
  <2>2. \A t \in Turns : ~(HomeOf[t] = r /\ turn'[t].at \in Admitted)
    BY <1>2, <1>3 DEF Admitted
  <2>3. InFlight(r)' = {}
    BY <2>2 DEF InFlight
  <2>4. gauge'[r] = 0
    BY <1>1 DEF ChatInv, Typed
  <2> QED
    BY <2>1, <2>3, <2>4, FS_EmptySet DEF ChatInv, CountExact
<1>6. LeaseKept'
  BY <1>1, <1>2, <1>3 DEF ChatInv, LeaseKept, Working
<1>7. SnapshotsFit'
  <2>1. ASSUME NEW t \in Turns
        PROVE  /\ Fits(turn[t].snap)'
               /\ turn'[t].at \in {"said", "answered"} => turn'[t].snap.version < version'
    <3>1. CASE gone(t)
      BY <1>1, <1>2, <1>3, <3>1 DEF ChatInv, SnapshotsFit, Fits
    <3>2. CASE ~gone(t)
      BY <1>1, <1>3, <3>2 DEF ChatInv, SnapshotsFit, Fits
    <3> QED
      BY <3>1, <3>2
  <2>2. Fits(NoSnapshot)' /\ \A w \in Others : Fits(other[w].snap)'
    BY <1>1 DEF ChatInv, SnapshotsFit, Fits, NoSnapshot
  <2> QED
    BY <2>1, <2>2 DEF SnapshotsFit
<1>8. NotYet'
  BY <1>1, <1>2, <1>3 DEF ChatInv, NotYet, User, Reply, Note, Unsaid, Unanswered
<1>9. ThreadSound'
  BY <1>1 DEF ChatInv, ThreadSound, Enumerates
<1> QED
  BY <1>4, <1>5, <1>6, <1>7, <1>8, <1>9 DEF ChatInv

\* A lease whose turn still holds it runs out only as a lapse.
LEMMA LeaseEndsKeeps == ASSUME ChatInv, Expire \/ Lapse PROVE ChatInv'
<1>1. /\ lease' = [lease EXCEPT !.live = FALSE] /\ lease.live
      /\ UNCHANGED <<thread, version, written, torn, turn, other, gauge, draining>>
      /\ \/ ~turn[lease.owner].held /\ UNCHANGED <<lapsed, faults>>
         \/ lapsed' = TRUE /\ Fault
  BY DEF Expire, Lapse, row, slots
<1>2. lease \in [owner : Turns \cup {NoOwner}, live : BOOLEAN]
  BY DEF ChatInv, Typed
<1>3. lease' \in [owner : Turns \cup {NoOwner}, live : BOOLEAN] /\ ~lease'.live
  BY <1>1, <1>2
<1>4. faults' \in 0..MaxFaults /\ lapsed' \in BOOLEAN
  BY <1>1, FaultCounted DEF ChatInv, Typed
<1>5. Typed'
  BY <1>1, <1>3, <1>4 DEF ChatInv, Typed
<1>6. CountExact'
  BY <1>1 DEF ChatInv, CountExact, InFlight
<1>7. ASSUME NEW t \in Turns, turn[t].held, ~lapsed' PROVE FALSE
  <2>1. ~turn[lease.owner].held /\ ~lapsed
    BY <1>1, <1>7
  <2>2. lease = [owner |-> t, live |-> TRUE]
    BY <1>7, <2>1 DEF ChatInv, LeaseKept
  <2>3. lease.owner = t
    BY <2>2
  <2> QED
    BY <1>7, <2>1, <2>3
<1>8. LeaseKept'
  BY <1>1, <1>3, <1>7 DEF ChatInv, LeaseKept
<1>9. SnapshotsFit' /\ NotYet' /\ ThreadSound'
  BY <1>1 DEF ChatInv, SnapshotsFit, Fits, NotYet, User, Reply, Note, ThreadSound, Enumerates
<1> QED
  BY <1>5, <1>6, <1>8, <1>9 DEF ChatInv
-----------------------------------------------------------------------------
LEMMA InitialChat == Init => ChatInv
<1> SUFFICES ASSUME Init PROVE ChatInv
  OBVIOUS
<1>1. NoSnapshot \in Snapshots /\ <<>> \in Seq(Message) /\ Len(<<>>) = 0
  BY DEF NoSnapshot, Snapshots
<1>2. ASSUME NEW t \in Turns
      PROVE  /\ turn[t] \in TurnType /\ turn[t].at = "idle" /\ ~turn[t].held
             /\ turn[t].snap = NoSnapshot
  BY <1>1 DEF Init, TurnType, Phases
<1>3. \A w \in Others : /\ other[w] \in [at : {"idle", "loaded", "done"}, snap : Snapshots]
                        /\ other[w].snap = NoSnapshot
  BY <1>1 DEF Init
<1>4. turn \in [Turns -> TurnType]
  BY <1>2 DEF Init
<1>5. other \in [Others -> [at : {"idle", "loaded", "done"}, snap : Snapshots]]
  BY <1>3 DEF Init
<1>6. lease \in [owner : Turns \cup {NoOwner}, live : BOOLEAN] /\ ~lease.live
  BY DEF Init
<1>7. Typed
  <2>1. gauge \in [Replicas -> Nat] /\ faults \in 0..MaxFaults
    BY ChatAssumption DEF Init
  <2>2. /\ thread \in Seq(Message) /\ version \in Nat /\ draining \subseteq Replicas
        /\ written \subseteq Message /\ torn \in BOOLEAN /\ lapsed \in BOOLEAN
    BY <1>1 DEF Init
  <2> QED
    BY <1>4, <1>5, <1>6, <2>1, <2>2 DEF Typed
<1>8. \A r \in Replicas : InFlight(r) = {}
  BY <1>2 DEF InFlight, Admitted
<1>9. CountExact
  BY <1>8, FS_EmptySet DEF Init, CountExact
<1>10. LeaseKept
  BY <1>2, <1>6 DEF LeaseKept, Working
<1>11. SnapshotsFit
  BY <1>2, <1>3 DEF Init, SnapshotsFit, Fits, NoSnapshot
<1>12. NotYet
  BY DEF Init, NotYet
<1>13. ThreadSound
  BY DEF Init, ThreadSound, Enumerates
<1> QED
  BY <1>7, <1>9, <1>10, <1>11, <1>12, <1>13 DEF ChatInv

\* The inductive invariant of a conversation's turns, for any number of turns,
\* replicas and other writers (send_message(), save(), append_messages()).
THEOREM ChatInvariant == Spec => []ChatInv
<1>1. ChatInv /\ [Next]_vars => ChatInv'
  <2> SUFFICES ASSUME ChatInv, [Next]_vars PROVE ChatInv'
    OBVIOUS
  <2>1. ASSUME NEW t \in Turns, TurnStep(t) PROVE ChatInv'
    <3>1. CASE Finish(t)
      BY <3>1, LoadKeeps, ChargeKeeps, AcquireKeeps, SayKeeps, AnswerKeeps, LandKeeps,
         ChargeCloseKeeps, ReleaseKeeps, LeaveKeeps DEF Finish
    <3>2. CASE ~Finish(t)
      BY <2>1, <3>2, EnterKeeps, ChargeCloseKeeps, CutShortKeeps, FailKeeps, ReleaseKeeps DEF TurnStep
    <3> QED
      BY <3>1, <3>2
  <2>2. CASE UNCHANGED vars
    <3>1. UNCHANGED <<thread, version, turn, other, lease, gauge, draining, written, torn,
                      lapsed, faults>>
      BY <2>2 DEF vars
    <3>2. Typed' /\ CountExact' /\ LeaseKept'
      BY <3>1 DEF ChatInv, Typed, CountExact, InFlight, LeaseKept
    <3>3. SnapshotsFit' /\ NotYet' /\ ThreadSound'
      BY <3>1 DEF ChatInv, SnapshotsFit, Fits, NotYet, User, Reply, Note, ThreadSound, Enumerates
    <3> QED
      BY <3>2, <3>3 DEF ChatInv
  <2> QED
    BY <2>1, <2>2, OthersKeep, BeginDrainKeeps, CrashKeeps, LeaseEndsKeeps DEF Next
<1> QED
  BY <1>1, InitialChat, PTL DEF Spec
-----------------------------------------------------------------------------
\* The count of a replica is the number of its turns in flight, through refusals,
\* failures, cut clean-ups and crashes.
THEOREM ChatTypeCorrect == Spec => []ChatTypeOK
<1>1. ChatInv => ChatTypeOK
  BY DEF ChatInv, Typed, CountExact, InFlight, SnapshotsFit, Fits, ChatTypeOK
<1> QED
  BY <1>1, ChatInvariant, PTL

\* At most one turn at a time works on the conversation, on whatever replica, unless
\* a lease ran out under a turn.
THEOREM TurnsExclude == Spec => []OneTurnAtATime
<1>1. ChatInv => OneTurnAtATime
  <2> SUFFICES ASSUME ChatInv, ~lapsed, NEW t \in Turns, NEW u \in Turns,
                      turn[t].at \in Working, turn[u].at \in Working
               PROVE  t = u
    BY DEF OneTurnAtATime
  <2>1. lease = [owner |-> t, live |-> TRUE] /\ lease = [owner |-> u, live |-> TRUE]
    BY DEF ChatInv, LeaseKept
  <2>2. lease.owner = t /\ lease.owner = u
    BY <2>1
  <2> QED
    BY <2>2
<1> QED
  BY <1>1, ChatInvariant, PTL

\* A draining replica that counts no turn has none in flight: the deployment may
\* stop it.
THEOREM DrainIsSafe == Spec => []DrainedIsIdle
<1>1. ChatInv => DrainedIsIdle
  <2> SUFFICES ASSUME ChatInv, NEW r \in draining, gauge[r] = 0, NEW t \in Turns, HomeOf[t] = r
               PROVE  turn[t].at \notin Admitted
    BY DEF DrainedIsIdle
  <2>1. r \in Replicas
    BY DEF ChatInv, Typed
  <2>2. InFlight(r) = {}
    BY <2>1, FS_EmptySet DEF ChatInv, CountExact
  <2> QED
    BY <2>2 DEF InFlight
<1> QED
  BY <1>1, ChatInvariant, PTL

\* However appends and saves of any number of writers fall between the load of a
\* turn and its saves, each message written stands in the thread once, unless a
\* save was torn.
THEOREM NoMessageLost == Spec => []NothingLost
<1>1. ChatInv => NothingLost
  <2> SUFFICES ASSUME ChatInv, ~torn, NEW m \in written PROVE Cardinality(Places(m)) = 1
    BY DEF NothingLost
  <2>1. Enumerates(thread, written)
    BY DEF ChatInv, ThreadSound
  <2>2. PICK i \in DOMAIN thread : thread[i] = m
    BY <2>1 DEF Enumerates
  <2>3. Places(m) = {i}
    BY <2>1, <2>2 DEF Enumerates, Places
  <2> QED
    BY <2>3, FS_Singleton
<1> QED
  BY <1>1, ChatInvariant, PTL
=============================================================================
