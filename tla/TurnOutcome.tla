----------------------------- MODULE TurnOutcome -----------------------------
(***************************************************************************)
(* What the external-chat surface promises to the channel about one        *)
(* request, however often it is delivered: the turn is decided once, with  *)
(* a reply or a refusal, and every final answer tells that decision.       *)
(***************************************************************************)

CONSTANTS Outcomes,   \* the replies that may be generated, and the refusal
          Open        \* the turn is not decided yet; no outcome

VARIABLES outcome, told

TypeOK == outcome \in Outcomes \cup {Open} /\ told \subseteq Outcomes

Init == outcome = Open /\ told = {}

Decide ==
  /\ outcome = Open /\ outcome' \in Outcomes
  /\ told' \in {told, told \cup {outcome'}}

Tell ==
  /\ outcome # Open /\ UNCHANGED outcome
  /\ told' = told \cup {outcome}

Next == Decide \/ Tell

Spec == Init /\ [][Next]_<<outcome, told>>
=============================================================================
