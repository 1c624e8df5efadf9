------------------------------ MODULE StubChat ------------------------------
(***************************************************************************)
(* The web chat with the StubOrchestrator (web/orchestrator.py), which     *)
(* serves when no model key is configured.  It keeps nothing of its own    *)
(* and calls no tool: it takes the draft the transport has read and fills  *)
(* one required field with each answer.                                    *)
(***************************************************************************)
EXTENDS Chat

Init == ChatInit

\* _start: the category is read off the text; nothing is extracted from it.
Started(c) == [NewDraft EXCEPT !.category = c]

\* Variant: the answer is stored under no field.
AnswersLost(d) == {d}

\* _absorb_answer: the message answers the field asked for; any of the missing
\* ones stands for the first.
Answered(d) ==
  IF Missing(d) = {} THEN {d}
  ELSE {[d EXCEPT !.answered = @ \cup {f}] : f \in Missing(d)}

Opened(s) == IF drafts[s] = NoDraft THEN {Started(c) : c \in Categories}
                                    ELSE Answered(drafts[s])

\* Urgency is read off everything the reporter has written, so a request that
\* was once finished as urgent stays urgent.
Urgencies(d) ==
  IF d # NoDraft /\ d.routing = "escalate" /\ Missing(d) = {} THEN {TRUE}
                                                            ELSE BOOLEAN

\* _finish
Finished(d, urgent) ==
  [d EXCEPT !.routing = IF urgent THEN "escalate" ELSE "auto_file",
            !.status = IF urgent THEN "escalated" ELSE "scored"]

\* _give_up
GivenUp(d) == [d EXCEPT !.routing = "escalate", !.status = "escalated"]

\* Variant: the round is not counted when a question is asked.
AskedAgain(d) == [d EXCEPT !.status = "gathering_info"]

\* The next question.
AskedNext(d) == [d EXCEPT !.round = @ + 1, !.status = "gathering_info"]

\* advance, after the message has been taken in.
Advanced(d, urgent) ==
  IF Missing(d) = {} THEN Finished(d, urgent)
  ELSE IF MayAskAgain(d) THEN AskedNext(d) ELSE GivenUp(d)

\* The transport's read, advance and redact; the next await is the write.
Advance(t) ==
  LET s == turn[t].session
  IN /\ At(t, "arrived")
     /\ \E d \in Opened(s), urgent \in Urgencies(drafts[s]) :
          LET e == Advanced(d, urgent)
          IN Return(t, e, IF e.status = "gathering_info" THEN "question"
                                                         ELSE "verdict")
     /\ UNCHANGED <<store, page, posts, review>>

Next ==
  \/ \E t \in Turns : Advance(t) \/ Transport(t)
  \/ Reporter \/ Admin
  \/ \E s \in Sessions : Expire(s)
  \/ \E t \in Turns : "error" \in Faults /\ Abort(t)

Spec == Init /\ [][Next]_chatVars

-----------------------------------------------------------------------------
\* Every question asked but the last has been answered, although turns of one
\* conversation overwrite each other's drafts and reviewed drafts are reopened:
\* a waiting draft has asked one more question than it has answers.
RoundsMatchAnswers ==
  \A s \in Sessions : drafts[s] # NoDraft =>
    LET open == IF drafts[s].status = "gathering_info" THEN 1 ELSE 0
    IN drafts[s].round = Cardinality(drafts[s].answered) + open

\* No category requires MaxRounds fields, so the stub never gives up: what it
\* hands on, or a reviewer decides, is complete.
DecidesOnlyComplete ==
  \A s \in Sessions :
    drafts[s] # NoDraft /\ drafts[s].status # "gathering_info"
      => Missing(drafts[s]) = {}

\* The transport's own round cap (service.py:16-17, "used only if an
\* orchestrator ever returns not done past the round cap") is never used.
CapReplyUnused ==
  \A s \in Sessions : \A i \in DOMAIN log[s] : log[s][i] # "cap"
=============================================================================
