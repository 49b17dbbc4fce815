---------------------------- MODULE Conversation ----------------------------
(***************************************************************************)
(* The row of one conversation.  There are two ways to write it: an append *)
(* at an expected position, and save(), which replaces the whole row by    *)
(* what the writer makes of the snapshot it loaded.  A save that finds the  *)
(* row changed since keeps the rows behind its snapshot that are not its    *)
(* own and puts them after its messages.                                   *)
(***************************************************************************)
EXTENDS Integers, Sequences, FiniteSets

VARIABLES thread,    \* the messages, in the order of their positions
          version    \* ConversationRow.version

rowVars == <<thread, version>>

\* What a writer loaded; neither part changes when it saves.
Snapshot == [seen |-> thread, version |-> version]

\* The thread still begins with these messages.
Intact(messages) ==
  Len(messages) <= Len(thread) /\ SubSeq(thread, 1, Len(messages)) = messages

\* A row the writer has put there itself, by an earlier save.
OwnRow(web, i) == i \in DOMAIN web /\ web[i] = thread[i]

\* The positions whose rows a stale save preserves.
Foreign(snap, web) ==
  {i \in DOMAIN thread : i > Len(snap.seen) /\ ~OwnRow(web, i)}

\* The n-th of these positions.
Nth(positions, n) ==
  CHOOSE i \in positions : Cardinality({j \in positions : j <= i}) = n

\* Mutant of Preserved: the row is replaced as it was before the merge.
PreservedNever(snap, web) == <<>>

\* Mutant of Preserved: the writer takes its own rows for those of others.
PreservedOwnToo(snap, web) ==
  IF snap.version = version THEN <<>>
  ELSE SubSeq(thread, Len(snap.seen) + 1, Len(thread))

Preserved(snap, web) ==
  IF snap.version = version THEN <<>>
  ELSE LET kept == Foreign(snap, web)
       IN [n \in 1..Cardinality(kept) |-> thread[Nth(kept, n)]]

\* save() of the messages `web' by a writer that loaded `snap'.
Save(snap, web) ==
  /\ thread' = web \o Preserved(snap, web)
  /\ version' = version + 1

\* append_messages() whose expected position was the tail; one that lost the
\* race changes nothing.
AppendTail(m) ==
  /\ thread' = Append(thread, m)
  /\ version' = version + 1
=============================================================================
