---------------------------- MODULE Conversation ----------------------------
(***************************************************************************)
(* What the intake promises about each conversation, with no stores, turns *)
(* or tools: at most MaxRounds questions, then one decision, which is      *)
(* either to file exactly one issue or to hand the request to a person     *)
(* without filing any (contracts/draft.py:9-11, loop.py:1-8).              *)
(***************************************************************************)
EXTENDS Naturals

CONSTANTS Sessions, MaxRounds

VARIABLES
  stage,   \* new, asking, filed or escalated
  asked,   \* clarifying questions so far
  opened   \* issues opened in the tracker for the conversation

vars == <<stage, asked, opened>>

TypeOK ==
  /\ stage \in [Sessions -> {"new", "asking", "filed", "escalated"}]
  /\ asked \in [Sessions -> 0..MaxRounds]
  /\ opened \in [Sessions -> 0..1]

Init ==
  /\ stage = [s \in Sessions |-> "new"]
  /\ asked = [s \in Sessions |-> 0]
  /\ opened = [s \in Sessions |-> 0]

Undecided(s) == stage[s] \in {"new", "asking"}

Ask(s) ==
  /\ Undecided(s)
  /\ opened[s] = 0
  /\ asked[s] < MaxRounds
  /\ stage' = [stage EXCEPT ![s] = "asking"]
  /\ asked' = [asked EXCEPT ![s] = @ + 1]
  /\ UNCHANGED opened

Open(s) ==
  /\ Undecided(s)
  /\ opened[s] = 0
  /\ opened' = [opened EXCEPT ![s] = 1]
  /\ UNCHANGED <<stage, asked>>

Decide(s) ==
  /\ Undecided(s)
  /\ stage' = [stage EXCEPT ![s] = IF opened[s] = 1 THEN "filed"
                                                    ELSE "escalated"]
  /\ UNCHANGED <<asked, opened>>

Next == \E s \in Sessions : Ask(s) \/ Open(s) \/ Decide(s)

Spec == Init /\ [][Next]_vars
=============================================================================
