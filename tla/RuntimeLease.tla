---------------------------- MODULE RuntimeLease ----------------------------
(***************************************************************************)
(* One row of background_runtime_leases: a TTL lease with a fencing epoch  *)
(* that is bumped on every change of ownership and never reset.  The row's *)
(* operations are stated here on a row value; the modules that own a lease *)
(* (the coordinator, the studio runners, the chat turns) apply them inside *)
(* their own actions, each of which is one database transaction under the  *)
(* row lock (SELECT ... FOR UPDATE).                                       *)
(*                                                                         *)
(* Time is kept relative: `left' is lease_until minus the current instant, *)
(* counted in ticks and floored at Expired, from which no call can tell it *)
(* from any earlier instant.  A caller reads its clock before it enters    *)
(* the transaction, so a call carries an `age': how many ticks ago its     *)
(* `now' argument was read, at most MaxAge.                                *)
(***************************************************************************)
EXTENDS Integers

CONSTANTS NoOwner,   \* owner_id of a vacated or absent row
          MaxAge     \* bound on the age of a caller's clock reading

ASSUME MaxAgeAssumption == MaxAge \in Nat

Ages == 0..MaxAge

\* The least value of `left' that matters: with every allowed age the lease
\* has then expired.
Expired == -(MaxAge + 1)

Rows(Owners, TTL) ==
  [epoch : Nat, owner : Owners \cup {NoOwner}, left : Expired..TTL]

\* The row before its first acquire (row is None): epoch 0 stands for absence.
AbsentRow == [epoch |-> 0, owner |-> NoOwner, left |-> Expired]

\* lease_until >= now and lease_until > now, as a caller of this age sees them.
LiveFor(left, age)   == left + age >= 0
BeyondFor(left, age) == left + age > 0

\* Mutant of HeldBy: an expired lease is renewed by its old owner.
HeldEvenExpired(row, o, age) == row.owner = o

\* The caller owns a lease that is live by its own reading: the guard of
\* renew(), and of the renewal inside acquire().
HeldBy(row, o, age) == row.owner = o /\ LiveFor(row.left, age)

\* Mutant of Takeable: only a row nobody has ever owned is free.
NeverOwned(row, age) == row.epoch = 0

\* acquire() finds no lease beyond `now': absent, vacated or expired, the
\* caller's own expired lease included.
Takeable(row, age) == ~BeyondFor(row.left, age)

\* Mutant of Renewed: the age of the reading is added to the lease.
RenewedFromReply(row, ttl, age) == [row EXCEPT !.left = ttl + age]

Renewed(row, ttl, age) == [row EXCEPT !.left = ttl - age]

\* Mutant of Taken: the takeover of an expired lease keeps its epoch.
TakenSameEpoch(row, o, ttl, age) ==
  [epoch |-> IF row.epoch = 0 THEN 1 ELSE row.epoch, owner |-> o, left |-> ttl - age]

Taken(row, o, ttl, age) ==
  [epoch |-> row.epoch + 1, owner |-> o, left |-> ttl - age]

\* acquire() either keeps the epoch of a lease the caller still holds, or
\* takes a free one over at the next epoch; a row that is neither is denied.
Acquirable(row, o, age) == HeldBy(row, o, age) \/ Takeable(row, age)

Acquired(row, o, ttl, age) ==
  IF HeldBy(row, o, age) THEN Renewed(row, ttl, age) ELSE Taken(row, o, ttl, age)

\* One tick of the wall clock.
Aged(left) == IF left > Expired THEN left - 1 ELSE left
=============================================================================
