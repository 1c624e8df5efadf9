-------------------------- MODULE AgentLoopPatient --------------------------
(***************************************************************************)
(* What holds of a conversation while its turns do not overlap, for every  *)
(* value of the constants, although turns die anywhere and are sent        *)
(* again, the tracker's answers are lost and administrators review         *)
(* meanwhile.                                                              *)
(*                                                                         *)
(* Questions are capped, replies follow their messages and decisions       *)
(* stand because a conversation has at most one turn, for which its page   *)
(* waits. PatientInv says for each await of the turn what its draft owes   *)
(* to the stored one and to the transcript. A locked page is one whose     *)
(* draft is decided, and while nothing raises, one that an administrator   *)
(* finds.                                                                  *)
(*                                                                         *)
(* The index names live tickets, and of two filed requests on one topic    *)
(* the later is recognised, because a row is written before the draft it   *)
(* describes; FiledInv carries both from the turn to the store.            *)
(***************************************************************************)
EXTENDS AgentLoopSafety

-----------------------------------------------------------------------------
(***************************************************************************)
(* What a reporter may rely on while a page waits for its answer before it *)
(* posts again and no draft expires.                                       *)
(***************************************************************************)

Patient == "abandon" \notin Faults /\ "expire" \notin Faults

Undecided(e) == e = NoDraft \/ e.status = "gathering_info"

\* The questions of a transcript.
Questioned(lg) == Cardinality({i \in DOMAIN lg : lg[i] = "question"})

RepliesFollow(lg) ==
  \A i \in DOMAIN lg : lg[i] # "user" => i > 1 /\ lg[i-1] = "user"

\* A classified draft that the clarify gate will let through again.
Committed(d) == d.category \in Categories /\ Gated(d)

\* n questions fit the cap and the stored draft e.
Counted(e, n) == n <= MaxRounds /\ (Undecided(e) => n <= AskedOf(e))

\* What each await of a turn x says of the stored draft e and transcript lg.
StepPatient(x, e, lg) ==
  /\ x.at \in LoopSteps \cup {"chatSave"} /\ x.at # "classify" =>
       x.draft.category \in Categories
  /\ x.at \in LoopSteps /\ Undecided(e) => x.draft.round = AskedOf(e)
  /\ x.at \in LoopSteps /\ ~ Undecided(e) => Committed(x.draft)
  /\ x.at = "loopSave" /\ ~ Undecided(e) => x.draft.status # "gathering_info"
  /\ x.at = "chatSave" =>
       IF x.reply = "question" THEN x.draft = e /\ Undecided(e)
                               ELSE x.draft.status # "gathering_info"
  /\ x.at \in {"chatSave", "logUser", "logReply"} /\ x.reply = "question" =>
       Counted(e, Questioned(lg) + 1)
  /\ x.at = "logReply" => lg # <<>> /\ lg[Len(lg)] = "user"

\* A turn under way is the only one of its session, whose page waits for it.
TurnPatient(t) ==
  turn[t].at # "idle" =>
    /\ page[turn[t].session] = t
    /\ StepPatient(turn[t], drafts[turn[t].session], log[turn[t].session])

SessionPatient(s) ==
  /\ drafts[s] # NoDraft => drafts[s].category \in Categories
  /\ Counted(drafts[s], Questioned(log[s]))
  /\ RepliesFollow(log[s])

\* A review is only ever of a decided draft, which stays decided meanwhile.
ReviewPatient(r) ==
  review[r].draft # NoDraft =>
    /\ review[r].session \in Sessions
    /\ review[r].draft.category \in Categories
    /\ review[r].draft.status # "gathering_info"
    /\ ~ Undecided(drafts[review[r].session])

PatientInv ==
  /\ \A t \in Turns : TurnPatient(t)
  /\ \A s \in Sessions : SessionPatient(s)
  /\ \A r \in Reviewers : ReviewPatient(r)

\* No decided draft goes back to asking.
Steady == \A s \in Sessions : ~ Undecided(drafts[s]) => ~ Undecided(drafts[s])'

-----------------------------------------------------------------------------
LEMMA Appended ==
  ASSUME NEW lg \in Seq({"user"} \cup Replies), NEW x \in {"user"} \cup Replies
  PROVE  /\ Questioned(lg) \in Nat
         /\ Questioned(Append(lg, x)) =
              Questioned(lg) + IF x = "question" THEN 1 ELSE 0
         /\ RepliesFollow(lg) /\ (x = "user" \/ (lg # <<>> /\ lg[Len(lg)] = "user"))
              => RepliesFollow(Append(lg, x))
         /\ Append(lg, x) # <<>>
         /\ Append(lg, x)[Len(Append(lg, x))] = x
<1>1. PICK n : n = Len(lg) + 1
  OBVIOUS
<1>2. PICK m : m = Append(lg, x)
  OBVIOUS
<1>3. /\ n \in Nat \ {0} /\ DOMAIN lg = 1..(n - 1) /\ DOMAIN m = 1..n
      /\ Len(m) = n /\ m[n] = x /\ \A i \in 1..(n - 1) : m[i] = lg[i]
      /\ m \in Seq({"user"} \cup Replies)
  BY <1>1, <1>2
<1>4. PICK Q : Q = {i \in DOMAIN lg : lg[i] = "question"}
  OBVIOUS
<1>5. IsFiniteSet(Q) /\ Cardinality(Q) \in Nat /\ n \notin Q
  <2>1. IsFiniteSet(1..(n - 1))
    BY <1>3, FS_Interval
  <2>2. IsFiniteSet(Q) /\ n \notin Q
    BY <1>3, <1>4, <2>1, FS_Subset
  <2>3. QED
    BY <2>2, FS_CardinalityType
<1>6. {i \in DOMAIN m : m[i] = "question"} = IF x = "question" THEN Q \cup {n} ELSE Q
  BY <1>3, <1>4
<1>7. Questioned(m) = Cardinality(Q) + IF x = "question" THEN 1 ELSE 0
  <2>1. Cardinality(Q \cup {n}) = Cardinality(Q) + 1
    BY <1>5, FS_AddElement
  <2>2. Questioned(m) = IF x = "question" THEN Cardinality(Q \cup {n})
                                          ELSE Cardinality(Q)
    BY <1>6 DEF Questioned
  <2>3. QED
    BY <1>5, <2>1, <2>2
<1>8. Questioned(lg) = Cardinality(Q)
  BY <1>4 DEF Questioned
<1>9. ASSUME RepliesFollow(lg), x = "user" \/ (lg # <<>> /\ lg[Len(lg)] = "user")
      PROVE  RepliesFollow(m)
  <2> SUFFICES ASSUME NEW i \in 1..n, m[i] # "user"
      PROVE  i > 1 /\ m[i-1] = "user"
    BY <1>3 DEF RepliesFollow
  <2>1. CASE i = n
    <3>1. lg # <<>> /\ lg[n - 1] = "user"
      BY <1>1, <1>3, <1>9, <2>1
    <3>2. n > 1
      BY <1>1, <1>3, <3>1
    <3>3. QED
      BY <1>3, <2>1, <3>1, <3>2
  <2>2. CASE i # n
    <3>1. i \in 1..(n - 1) /\ lg[i] # "user"
      BY <1>3, <2>2
    <3>2. i > 1 /\ lg[i-1] = "user"
      BY <1>3, <1>9, <3>1 DEF RepliesFollow
    <3>3. QED
      BY <1>3, <3>1, <3>2
  <2>3. QED
    BY <2>1, <2>2
<1>10. m # <<>>
  BY <1>3
<1>11. QED
  BY <1>2, <1>3, <1>5, <1>7, <1>8, <1>9, <1>10

\* Turns that end, pages that are loaded: nothing else changes.
LEMMA Ends ==
  ASSUME PatientInv, UNCHANGED <<drafts, log, review>>,
         \A t \in Turns : turn[t].at # "idle" =>
           \/ turn'[t].at = "idle"
           \/ /\ turn'[t] = turn[t]
              /\ page'[turn[t].session] = page[turn[t].session],
         \A t \in Turns : turn[t].at = "idle" => turn'[t].at = "idle"
  PROVE  PatientInv'
<1>1. \A t \in Turns : TurnPatient(t)'
  BY DEF PatientInv, TurnPatient
<1>2. \A s \in Sessions : SessionPatient(s)'
  BY DEF PatientInv, SessionPatient
<1>3. \A r \in Reviewers : ReviewPatient(r)'
  BY DEF PatientInv, ReviewPatient
<1>4. QED
  BY <1>1, <1>2, <1>3 DEF PatientInv

LEMMA ReleaseEnds ==
  ASSUME TypeInv, PatientInv, UNCHANGED <<drafts, log, review>>,
         NEW t \in Turns, NEW p, Release(t, p)
  PROVE  PatientInv'
<1>1. turn'[t].at = "idle" /\ Others(t)
  BY ReleaseMoves
<1>2. \A s \in Sessions : page'[s] = IF page[s] = t THEN p ELSE page[s]
  BY DEF Release
<1>3. \A u \in Turns : u # t /\ turn[u].at # "idle" =>
        turn[u].session \in Sessions /\ page[turn[u].session] # t
  BY DEF PatientInv, TurnPatient, TypeInv, TurnsTyped
<1>4. QED
  BY <1>1, <1>2, <1>3, Ends DEF Others

\* A step of one turn: what holds of the turn and of its session is enough.
LEMMA OneTurnPatient ==
  ASSUME TypeInv, PatientInv, Steady, NEW t \in Turns, turn[t].at # "idle",
         NEW s, s = turn[t].session, Others(t), turn'[t].session = s,
         UNCHANGED <<page, review>>,
         \A u \in Sessions \ {s} : drafts'[u] = drafts[u] /\ log'[u] = log[u],
         StepPatient(turn'[t], drafts'[s], log'[s]), SessionPatient(s)'
  PROVE  PatientInv'
<1>1. s \in Sessions /\ page[s] = t
  BY DEF TypeInv, TurnsTyped, PatientInv, TurnPatient
<1>2. TurnPatient(t)'
  BY <1>1 DEF TurnPatient
<1>3. ASSUME NEW u \in Turns \ {t}, turn[u].at # "idle"
      PROVE  TurnPatient(u)'
  <2>1. turn'[u] = turn[u] /\ turn[u].session \in Sessions
    BY <1>3 DEF Others, TypeInv, TurnsTyped
  <2>2. TurnPatient(u) /\ page[turn[u].session] = u
    BY <1>3 DEF PatientInv, TurnPatient
  <2>3. turn[u].session # s
    BY <1>1, <2>2
  <2>4. QED
    BY <1>3, <2>1, <2>2, <2>3 DEF TurnPatient
<1>4. \A u \in Turns : TurnPatient(u)'
  BY <1>2, <1>3 DEF TurnPatient, Others
<1>5. \A u \in Sessions : SessionPatient(u)'
  BY DEF PatientInv, SessionPatient
<1>6. \A r \in Reviewers : ReviewPatient(r)'
  BY DEF PatientInv, ReviewPatient, Steady
<1>7. QED
  BY <1>4, <1>5, <1>6 DEF PatientInv

\* ... which writes neither the store nor the transcript.
LEMMA Onward ==
  ASSUME TypeInv, PatientInv, NEW t \in Turns, turn[t].at # "idle",
         NEW s, s = turn[t].session, Others(t), turn'[t].session = s,
         UNCHANGED <<drafts, log, page, review>>,
         StepPatient(turn'[t], drafts[s], log[s])
  PROVE  PatientInv'
<1>1. SessionPatient(s)'
  BY DEF PatientInv, SessionPatient, TypeInv, TurnsTyped
<1>2. Steady
  BY DEF Steady
<1>3. QED
  BY <1>1, <1>2, OneTurnPatient

LEMMA LoopStepPatient ==
  ASSUME TypeInv, SettledInv, PatientInv, NEW t \in Turns, LoopStep(t)
  PROVE  PatientInv' /\ Steady
<1> DEFINE d == turn[t].draft
<1>1. PICK s : s = turn[t].session
  OBVIOUS
<1>2. PICK e : e = drafts[s]
  OBVIOUS
<1>3. turn[t] \in Turn /\ turn[t].at # "idle"
  BY DEF TypeInv, TurnsTyped, LoopStep, Load, Clarify, Investigate, Nearest,
         Escalate, StartFiling, RefuseFiling, FileNew, FileDuplicate,
         RefuseLink, FilingFails, FilingUnanswered, FilingUnreadable, LinkMade,
         LinkFails, Index, LoopSave, At
<1>4. /\ s \in Sessions /\ page[s] = t
      /\ StepPatient(turn[t], e, log[s]) /\ SessionPatient(s)
      /\ turn[t].at # "arrived" => d \in Draft
      /\ e # NoDraft => e \in Draft
      /\ Settled(rows, s, e) /\ StepSettled(rows, turn[t].at, s, d)
  <2>1. s \in Sessions
    BY <1>1, <1>3 DEF TypeInv, TurnsTyped
  <2>2. Settled(rows, s, e) /\ StepSettled(rows, turn[t].at, s, d)
    BY <1>1, <1>2, <2>1 DEF SettledInv, DraftsSettled, TurnsSettled, TurnSettled
  <2>3. /\ turn[t].at # "arrived" => d \in Draft
        /\ e # NoDraft => e \in Draft
    BY <1>2, <1>3, <2>1 DEF TypeInv, TurnsTyped, TypeOK, ChatTypeOK
  <2>4. QED
    BY <1>1, <1>2, <1>3, <2>1, <2>2, <2>3 DEF PatientInv, TurnPatient
<1>5. ASSUME UNCHANGED drafts
      PROVE  Steady
  BY <1>5 DEF Steady
<1>6. \* to the next await
      ASSUME NEW step \in LoopSteps, NEW x, Goto(t, step, x),
             UNCHANGED <<store, page, review>>,
             step # "classify" => x.category \in Categories,
             Undecided(e) => x.round = AskedOf(e),
             ~ Undecided(e) => Committed(x),
             step = "loopSave" => x.status # "gathering_info"
      PROVE  PatientInv' /\ Steady
  <2>1. /\ turn'[t].at = step /\ turn'[t].draft = x /\ turn'[t].session = s
        /\ Others(t)
    BY <1>1, <1>6, GotoMoves
  <2>2. StepPatient(turn'[t], e, log[s])
    BY <1>6, <2>1 DEF StepPatient, LoopSteps
  <2>3. QED
    BY <1>1, <1>2, <1>3, <1>5, <1>6, <2>1, <2>2, Onward DEF store
<1>7. \* ... with what matters of the draft as it was
      ASSUME turn[t].at \in LoopSteps \ {"classify"},
             NEW x, x.category = d.category, x.answered = d.answered,
             x.round = d.round
      PROVE  /\ x.category \in Categories
             /\ Undecided(e) => x.round = AskedOf(e)
             /\ ~ Undecided(e) => Committed(x)
  BY <1>4, <1>7 DEF StepPatient, Committed, Gated, Missing
<1>8. \* the request fails
      ASSUME Abort(t)
      PROVE  PatientInv' /\ Steady
  BY <1>5, <1>8, ReleaseEnds DEF Abort, store
<1>9. CASE Load(t)
  <2>1. turn[t].at = "arrived" /\ UNCHANGED <<store, page, review>>
    BY <1>9 DEF Load, At
  <2>2. PICK x : x = Absorbed(e)
    OBVIOUS
  <2>3. /\ e = NoDraft => x = NewDraft
        /\ e # NoDraft => /\ x.category = e.category /\ x.answered = e.answered
                          /\ x.round = e.round + 1 /\ x.status = e.status
    BY <1>4, <2>2 DEF Absorbed, Draft
  <2>4. Undecided(e) => x.round = AskedOf(e) /\ x.status = "gathering_info"
    BY <2>3 DEF Undecided, AskedOf, NewDraft
  <2>5. ~ Undecided(e) => x.category \in Categories /\ Committed(x)
                           /\ x.status # "gathering_info"
    <3> SUFFICES ASSUME ~ Undecided(e)
        PROVE  x.category \in Categories /\ Gated(x) /\ x.status # "gathering_info"
      BY DEF Committed
    <3>1. e # NoDraft /\ e.status # "gathering_info"
      BY DEF Undecided
    <3>2. Gated(e) /\ e.category \in Categories
      BY <1>2, <1>4, <3>1 DEF Settled, Waiting, Decided, SessionPatient
    <3>3. e.round \in Nat /\ MaxRounds \in Nat
      BY <1>4, <3>1, DraftAssumption DEF Draft
    <3>4. Gated(x)
      BY <2>3, <3>1, <3>2, <3>3 DEF Gated, Missing
    <3>5. QED
      BY <2>3, <3>1, <3>2, <3>4
  <2>6. CASE x.status \in Terminal
    <3>1. Return(t, x, "report")
      BY <1>1, <1>2, <1>9, <2>2, <2>6 DEF Load
    <3>2. /\ turn'[t].at = "chatSave" /\ turn'[t].draft = x
          /\ turn'[t].session = s /\ turn'[t].reply = "report" /\ Others(t)
      BY <1>1, <3>1, ReturnMoves
    <3>3. x.status # "gathering_info" /\ x.category \in Categories
      BY <2>4, <2>5, <2>6 DEF Terminal
    <3>4. StepPatient(turn'[t], e, log[s])
      BY <3>2, <3>3 DEF StepPatient, LoopSteps
    <3>5. QED
      BY <1>1, <1>2, <1>3, <1>5, <2>1, <3>2, <3>4, Onward DEF store
  <2>7. CASE x.status \notin Terminal
    <3>1. Goto(t, "classify", x)
      BY <1>1, <1>2, <1>9, <2>2, <2>7 DEF Load
    <3>2. QED
      BY <1>6, <2>1, <2>4, <2>5, <3>1 DEF LoopSteps
  <2>8. QED
    BY <2>6, <2>7
<1>10. \* what a classification makes of the draft
       ASSUME turn[t].at = "classify",
              NEW c \in Categories, NEW found \in SUBSET Fields,
              NEW k, k = Classified(d, c, found)
       PROVE  /\ k \in Draft /\ k.category \in Categories
              /\ Undecided(e) => k.round = AskedOf(e)
              /\ ~ Undecided(e) => Committed(k) /\ ~ NeedsAnswer(k)
  <2>1. d \in Draft /\ k \in Draft
    BY <1>4, <1>10, DraftChanges
  <2>2. /\ k.category \in Categories /\ k.round = d.round
        /\ d.category \in Categories => k.category = d.category
        /\ k.answered = d.answered \cup found
    BY <1>10, <2>1, DraftAssumption DEF Classified, Draft
  <2>3. Undecided(e) => k.round = AskedOf(e)
    BY <1>4, <1>10, <2>2 DEF StepPatient, LoopSteps
  <2>4. ~ Undecided(e) => Committed(k)
    BY <1>4, <1>10, <2>2 DEF StepPatient, LoopSteps, Committed, Gated, Missing
  <2>5. Committed(k) => ~ NeedsAnswer(k)
    BY <2>1, DraftAssumption
       DEF Committed, Gated, NeedsAnswer, MayAskAgain, Draft
  <2>6. QED
    BY <2>1, <2>2, <2>3, <2>4, <2>5
<1>11. ASSUME NEW c \in Categories, NEW found \in SUBSET Fields,
              Clarify(t, c, found)
       PROVE  PatientInv' /\ Steady
  <2>1. PICK k : k = Classified(d, c, found)
    OBVIOUS
  <2>2. turn[t].at = "classify" /\ UNCHANGED <<store, page, review>>
        /\ NeedsAnswer(k)
    BY <1>11, <2>1 DEF Clarify, At
  <2>3. k \in Draft /\ k.category \in Categories /\ Undecided(e)
        /\ k.round = AskedOf(e)
    BY <1>10, <2>1, <2>2
  <2>4. PICK y : y = [k EXCEPT !.status = "gathering_info"]
    OBVIOUS
  <2>5. y.category \in Categories /\ y.round = AskedOf(e)
    BY <2>3, <2>4 DEF Draft
  <2>6. PICK x : x = [turn[t] EXCEPT !.at = "loopSave", !.reply = "question",
                                     !.draft = y]
    OBVIOUS
  <2>7. x.at = "loopSave" /\ x.draft = y /\ x.session = s
    BY <1>1, <1>3, <2>6 DEF Turn
  <2>8. turn' = [turn EXCEPT ![t] = x]
    BY <1>11, <2>1, <2>4, <2>6 DEF Clarify
  <2>9. turn'[t] = x /\ Others(t)
    BY <2>8, Replaced
  <2>10. StepPatient(turn'[t], e, log[s])
    BY <2>3, <2>5, <2>7, <2>9 DEF StepPatient, LoopSteps
  <2>11. QED
    BY <1>1, <1>2, <1>3, <1>5, <2>2, <2>7, <2>9, <2>10, Onward DEF store
<1>12. ASSUME NEW c \in Categories, NEW found \in SUBSET Fields,
              Investigate(t, c, found)
       PROVE  PatientInv' /\ Steady
  <2>1. PICK k : k = Classified(d, c, found)
    OBVIOUS
  <2>2. PICK x : x = [k EXCEPT !.status = "investigating"]
    OBVIOUS
  <2>3. turn[t].at = "classify" /\ UNCHANGED <<store, page, review>>
        /\ Goto(t, "nearest", x)
    BY <1>12, <2>1, <2>2 DEF Investigate, At
  <2>4. /\ k \in Draft /\ k.category \in Categories
        /\ Undecided(e) => k.round = AskedOf(e)
        /\ ~ Undecided(e) => Committed(k)
    BY <1>10, <2>1, <2>3
  <2>5. x.category = k.category /\ x.round = k.round /\ x.answered = k.answered
    BY <2>2, <2>4 DEF Draft
  <2>6. ~ Undecided(e) => Committed(x)
    BY <2>4, <2>5 DEF Committed, Gated, Missing
  <2>7. QED
    BY <1>6, <2>3, <2>4, <2>5, <2>6 DEF LoopSteps
<1>13. CASE Nearest(t)
  <2>1. turn[t].at = "nearest" /\ UNCHANGED <<store, page, review>>
    BY <1>13 DEF Nearest, At
  <2>2. PICK ref : Goto(t, "score", [d EXCEPT !.dup = ref])
    BY <1>13 DEF Nearest
  <2>3. PICK x : x = [d EXCEPT !.dup = ref]
    OBVIOUS
  <2>4. x.category = d.category /\ x.round = d.round /\ x.answered = d.answered
    BY <1>4, <2>1, <2>3 DEF Draft
  <2>5. QED
    BY <1>6, <1>7, <2>1, <2>2, <2>3, <2>4 DEF LoopSteps
<1>14. ASSUME turn[t].at = "score", NEW score, NEW x, x = Scored(d, score)
       PROVE  /\ x \in Draft /\ x.category = d.category /\ x.round = d.round
              /\ x.answered = d.answered
  <2>1. d \in Draft /\ x \in Draft
    BY <1>4, <1>14, DraftChanges
  <2>2. QED
    BY <1>14, <2>1 DEF Scored, Draft
<1>15. ASSUME NEW score \in Scores, Escalate(t, score)
       PROVE  PatientInv' /\ Steady
  <2>1. PICK y : y = Scored(d, score)
    OBVIOUS
  <2>2. PICK x : x = [y EXCEPT !.status = "escalated"]
    OBVIOUS
  <2>3. turn[t].at = "score" /\ UNCHANGED <<store, page, review>>
        /\ Goto(t, "index", x)
    BY <1>15, <2>1, <2>2 DEF Escalate, At
  <2>4. /\ x.category = d.category /\ x.round = d.round
        /\ x.answered = d.answered
    BY <1>14, <2>1, <2>2, <2>3 DEF Draft
  <2>5. QED
    BY <1>6, <1>7, <2>3, <2>4 DEF LoopSteps
<1>16. ASSUME NEW score \in Scores, StartFiling(t, score)
       PROVE  PatientInv' /\ Steady
  <2>1. PICK x : x = Scored(d, score)
    OBVIOUS
  <2>2. turn[t].at = "score" /\ UNCHANGED <<store, page, review>>
        /\ Goto(t, "create", x)
    BY <1>16, <2>1 DEF StartFiling, At
  <2>3. QED
    BY <1>6, <1>7, <1>14, <2>1, <2>2 DEF LoopSteps
<1>17. ASSUME NEW score \in Scores, RefuseFiling(t, score)
       PROVE  PatientInv' /\ Steady
  BY <1>8, <1>17 DEF RefuseFiling
<1>18. \* the issue exists, or is refused
       ASSUME turn[t].at = "create", NEW step \in {"link", "index"}, NEW x,
              x = Filed(d) \/ x = [d EXCEPT !.status = "escalated"],
              Goto(t, step, x), UNCHANGED <<store, page, review>>
       PROVE  PatientInv' /\ Steady
  <2>1. x.category = d.category /\ x.round = d.round /\ x.answered = d.answered
    BY <1>4, <1>18 DEF Draft, Filed
  <2>2. QED
    BY <1>6, <1>7, <1>18, <2>1 DEF LoopSteps
<1>19. CASE FileNew(t)
  BY <1>18, <1>19 DEF FileNew, At
<1>20. CASE FileDuplicate(t)
  BY <1>18, <1>20 DEF FileDuplicate, At
<1>21. CASE RefuseLink(t)
  BY <1>8, <1>21 DEF RefuseLink
<1>22. CASE FilingFails(t)
  BY <1>18, <1>22 DEF FilingFails, At
<1>23. CASE FilingUnanswered(t)
  BY <1>18, <1>23 DEF FilingUnanswered, At
<1>24. CASE FilingUnreadable(t)
  BY <1>8, <1>24 DEF FilingUnreadable
<1>25. CASE LinkMade(t) \/ LinkFails(t)
  BY <1>6, <1>7, <1>25 DEF LinkMade, LinkFails, At, LoopSteps
<1>26. CASE Index(t)
  <2>1. turn[t].at = "index" /\ UNCHANGED <<store, page, review>>
        /\ Goto(t, "loopSave", d)
    BY <1>26 DEF Index, At
  <2>2. d.status # "gathering_info"
    BY <1>4, <2>1 DEF StepSettled, Decided
  <2>3. QED
    BY <1>6, <1>7, <2>1, <2>2 DEF LoopSteps
<1>27. CASE LoopSave(t)
  <2>1. turn[t].at = "loopSave" /\ d \in Draft /\ d # NoDraft
    BY <1>4, <1>27, ChatAssumption DEF LoopSave, At
  <2>2. PICK x : x = d
    OBVIOUS
  <2>3. PICK reply : reply = IF x.status = "gathering_info" THEN "question"
                                                            ELSE "verdict"
    OBVIOUS
  <2>4. /\ drafts' = [drafts EXCEPT ![s] = x] /\ Return(t, x, reply)
        /\ UNCHANGED <<log, page, review>>
    BY <1>1, <1>27, <2>2, <2>3 DEF LoopSave
  <2>5. /\ turn'[t].at = "chatSave" /\ turn'[t].draft = x
        /\ turn'[t].session = s /\ turn'[t].reply = reply /\ Others(t)
    BY <1>1, <2>4, ReturnMoves
  <2>6. drafts'[s] = x /\ \A u \in Sessions \ {s} : drafts'[u] = drafts[u]
    BY <1>4, <2>4 DEF TypeInv, TypeOK, ChatTypeOK
  <2>7. /\ x.category \in Categories
        /\ Undecided(e) => x.round = AskedOf(e)
        /\ ~ Undecided(e) => x.status # "gathering_info"
    BY <1>4, <2>1, <2>2 DEF StepPatient, LoopSteps
  <2>8. Steady
    BY <1>2, <2>1, <2>2, <2>6, <2>7 DEF Steady, Undecided
  <2>9. PICK n : n = Questioned(log[s])
    OBVIOUS
  <2>10. n \in Nat /\ Counted(e, n) /\ RepliesFollow(log[s])
    BY <1>2, <1>4, <2>9, Appended
       DEF SessionPatient, TypeInv, TypeOK, ChatTypeOK
  <2>11. CASE x.status = "gathering_info"
    <3>1. Undecided(x) /\ Undecided(e) /\ AskedOf(x) = x.round + 1
          /\ n <= x.round
      BY <2>1, <2>2, <2>7, <2>10, <2>11 DEF Undecided, AskedOf, Counted
    <3>2. x.round < MaxRounds /\ x.round \in Nat /\ MaxRounds \in Nat
      BY <1>4, <2>1, <2>2, <2>11, DraftAssumption
         DEF StepSettled, Settled, Waiting, Decided, Draft
    <3>3. Counted(x, n) /\ Counted(x, n + 1)
      BY <2>10, <3>1, <3>2 DEF Counted
    <3>4. StepPatient(turn'[t], x, log[s])
      BY <2>3, <2>5, <2>7, <2>9, <2>11, <3>1, <3>3 DEF StepPatient, LoopSteps
    <3>5. SessionPatient(s)'
      BY <2>4, <2>6, <2>7, <2>9, <2>10, <3>3 DEF SessionPatient
    <3>6. QED
      BY <1>1, <1>3, <2>4, <2>5, <2>6, <2>8, <3>4, <3>5, OneTurnPatient
  <2>12. CASE x.status # "gathering_info"
    <3>1. Counted(x, n)
      BY <2>1, <2>2, <2>10, <2>12 DEF Counted, Undecided
    <3>2. StepPatient(turn'[t], x, log[s])
      BY <2>3, <2>5, <2>7, <2>12 DEF StepPatient, LoopSteps
    <3>3. SessionPatient(s)'
      BY <2>4, <2>6, <2>7, <2>9, <2>10, <3>1 DEF SessionPatient
    <3>4. QED
      BY <1>1, <1>3, <2>4, <2>5, <2>6, <2>8, <3>2, <3>3, OneTurnPatient
  <2>13. QED
    BY <2>11, <2>12
<1>28. QED
  BY <1>9, <1>11, <1>12, <1>13, <1>15, <1>16, <1>17, <1>19, <1>20, <1>21, <1>22,
     <1>23, <1>24, <1>25, <1>26, <1>27 DEF LoopStep

LEMMA TransportStepPatient ==
  ASSUME TypeInv, PatientInv, NEW t \in Turns, TransportStep(t)
  PROVE  PatientInv' /\ Steady
<1>1. PICK s : s = turn[t].session
  OBVIOUS
<1>2. PICK e : e = drafts[s]
  OBVIOUS
<1>3. PICK lg : lg = log[s]
  OBVIOUS
<1>4. PICK n : n = Questioned(lg)
  OBVIOUS
<1>5. PICK y : y = turn[t]
  OBVIOUS
<1>6. /\ y \in Turn /\ y.at # "idle" /\ y.session = s
      /\ y.at = "chatSave" => y.draft \in Draft
  BY <1>1, <1>5 DEF TypeInv, TurnsTyped, TransportStep, Transport, ChatSave,
     LogUser, LogReply, Register, At
<1>7. s \in Sessions /\ lg \in Seq({"user"} \cup Replies) /\ n \in Nat
  <2>1. s \in Sessions
    BY <1>1, <1>5, <1>6 DEF TypeInv, TurnsTyped
  <2>2. lg \in Seq({"user"} \cup Replies)
    BY <1>3, <2>1 DEF TypeInv, TypeOK, ChatTypeOK
  <2>3. "user" \in {"user"} \cup Replies
    OBVIOUS
  <2>4. QED
    BY <1>4, <2>1, <2>2, <2>3, Appended
<1>8. /\ StepPatient(y, e, lg) /\ Counted(e, n) /\ RepliesFollow(lg)
      /\ e # NoDraft => e.category \in Categories
  BY <1>1, <1>2, <1>3, <1>4, <1>5, <1>6, <1>7
     DEF PatientInv, TurnPatient, SessionPatient
<1>9. ASSUME UNCHANGED drafts
      PROVE  Steady
  BY <1>9 DEF Steady
<1>10. CASE ChatSave(t)
  <2>1. PICK d : d = y.draft
    OBVIOUS
  <2>2. PICK reply : reply = IF y.reply = "question" /\ ~ MayAskAgain(d)
                             THEN "cap" ELSE y.reply
    OBVIOUS
  <2>3. PICK x : x = [y EXCEPT !.at = "logUser", !.reply = reply]
    OBVIOUS
  <2>4. /\ y.at = "chatSave" /\ drafts' = [drafts EXCEPT ![s] = d]
        /\ UNCHANGED <<log, page, review>>
    BY <1>1, <1>5, <1>10, <2>1 DEF ChatSave, At
  <2>5. turn' = [turn EXCEPT ![t] = x]
    <3>1. y.reply = turn[t].reply /\ d = turn[t].draft
      BY <1>5, <2>1
    <3>2. CASE y.reply = "question" /\ ~ MayAskAgain(d)
      BY <1>5, <1>10, <2>2, <2>3, <3>1, <3>2 DEF ChatSave
    <3>3. CASE ~ (y.reply = "question" /\ ~ MayAskAgain(d))
      BY <1>5, <1>10, <2>2, <2>3, <3>1, <3>3 DEF ChatSave
    <3>4. QED
      BY <3>2, <3>3
  <2>6. x.at = "logUser" /\ x.session = s /\ x.reply = reply
    BY <1>6, <2>3 DEF Turn
  <2>7. turn'[t] = x /\ Others(t)
    BY <2>5, Replaced
  <2>8. drafts'[s] = d /\ \A u \in Sessions \ {s} : drafts'[u] = drafts[u]
    BY <1>7, <2>4 DEF TypeInv, TypeOK, ChatTypeOK
  <2>9. IF y.reply = "question" THEN d = e /\ Undecided(e)
                                ELSE d.status # "gathering_info"
    BY <1>8, <2>1, <2>4 DEF StepPatient
  <2>10. d \in Draft /\ d # NoDraft /\ d.category \in Categories
    BY <1>6, <1>8, <2>1, <2>4, ChatAssumption DEF StepPatient
  <2>11. Steady
    BY <1>2, <2>8, <2>9, <2>10 DEF Steady, Undecided
  <2>12. Counted(d, n)
    BY <1>8, <2>9, <2>10 DEF Counted, Undecided
  <2>13. reply = "question" => Counted(d, n + 1)
    BY <1>4, <1>8, <2>2, <2>4, <2>9 DEF StepPatient
  <2>14. StepPatient(x, d, lg)
    BY <1>4, <2>6, <2>13 DEF StepPatient, LoopSteps
  <2>15. log'[s] = lg /\ SessionPatient(s)'
    BY <1>3, <1>4, <1>8, <2>4, <2>8, <2>10, <2>12 DEF SessionPatient
  <2>16. turn[t].at # "idle"
    BY <1>5, <1>6
  <2>17. QED
    BY <1>1, <2>4, <2>6, <2>7, <2>8, <2>11, <2>14, <2>15, <2>16, OneTurnPatient
<1>11. \* a line more in the transcript
       ASSUME NEW step \in {"logReply", "register"},
              NEW line \in {"user"} \cup Replies,
              turn' = [turn EXCEPT ![t].at = step],
              log' = [log EXCEPT ![s] = Append(@, line)],
              UNCHANGED <<drafts, page, review>>,
              line = "user" \/ (lg # <<>> /\ lg[Len(lg)] = "user"),
              line = "question" => Counted(e, n + 1),
              step = "logReply" => line = "user",
              step = "logReply" /\ y.reply = "question" => Counted(e, n + 1)
       PROVE  PatientInv' /\ Steady
  <2>1. PICK x : x = [y EXCEPT !.at = step]
    OBVIOUS
  <2>2. x.at = step /\ x.session = s /\ x.reply = y.reply
    BY <1>6, <2>1 DEF Turn
  <2>3. turn' = [turn EXCEPT ![t] = x]
    BY <1>5, <1>11, <2>1
  <2>4. turn'[t] = x /\ Others(t)
    BY <2>3, Replaced
  <2>5. PICK lg2 : lg2 = Append(lg, line)
    OBVIOUS
  <2>6. log'[s] = lg2 /\ \A u \in Sessions \ {s} : log'[u] = log[u]
    BY <1>3, <1>7, <1>11, <2>5 DEF TypeInv, TypeOK, ChatTypeOK
  <2>7. /\ Questioned(lg2) = n + IF line = "question" THEN 1 ELSE 0
        /\ RepliesFollow(lg2) /\ lg2 # <<>> /\ lg2[Len(lg2)] = line
    BY <1>4, <1>7, <1>8, <1>11, <2>5, Appended
  <2>8. Questioned(lg2) = IF line = "question" THEN n + 1 ELSE n
    BY <1>7, <2>7
  <2>9. SessionPatient(s)'
    BY <1>2, <1>8, <1>11, <2>6, <2>7, <2>8 DEF SessionPatient
  <2>10. line = "user" => Questioned(lg2) + 1 = n + 1
    BY <2>8
  <2>11. StepPatient(x, e, lg2)
    BY <1>11, <2>2, <2>7, <2>10 DEF StepPatient, LoopSteps
  <2>12. turn[t].at # "idle" /\ drafts'[s] = e
         /\ \A u \in Sessions \ {s} : drafts'[u] = drafts[u]
    BY <1>2, <1>5, <1>6, <1>11
  <2>13. Steady
    BY <1>9, <1>11
  <2>14. QED
    BY <1>1, <1>11, <2>2, <2>4, <2>6, <2>9, <2>11, <2>12, <2>13, OneTurnPatient
<1>12. CASE LogUser(t)
  <2>1. y.at = "logUser"
    BY <1>5, <1>12 DEF LogUser, At
  <2>2. y.reply = "question" => Counted(e, n + 1)
    BY <1>4, <1>8, <2>1 DEF StepPatient
  <2>3. QED
    BY <1>1, <1>11, <1>12, <2>2 DEF LogUser
<1>13. CASE LogReply(t)
  <2>1. y.at = "logReply"
    BY <1>5, <1>13 DEF LogReply, At
  <2>2. /\ y.reply = "question" => Counted(e, n + 1)
        /\ lg # <<>> /\ lg[Len(lg)] = "user"
    BY <1>4, <1>8, <2>1 DEF StepPatient
  <2>3. PICK line : line = y.reply
    OBVIOUS
  <2>4. line \in {"user"} \cup Replies
    BY <1>6, <2>3 DEF Turn
  <2>5. /\ turn' = [turn EXCEPT ![t].at = "register"]
        /\ log' = [log EXCEPT ![s] = Append(@, line)]
        /\ UNCHANGED <<drafts, page, review>>
    BY <1>1, <1>5, <1>13, <2>3 DEF LogReply
  <2>6. QED
    BY <1>11, <2>2, <2>3, <2>4, <2>5
<1>14. CASE Register(t)
  BY <1>9, <1>14, ReleaseEnds DEF Register
<1>15. QED
  BY <1>10, <1>12, <1>13, <1>14 DEF TransportStep, Transport

LEMMA ReporterPatient ==
  ASSUME TypeInv, PatientInv, Patient, Reporter
  PROVE  PatientInv' /\ Steady
<1>1. ASSUME NEW s \in Sessions, NEW t \in Turns, Post(s, t)
      PROVE  PatientInv'
  <2>1. PICK x : x = [IdleTurn EXCEPT !.at = "arrived", !.session = s]
    OBVIOUS
  <2>2. x.at = "arrived" /\ x.session = s
    BY <2>1 DEF IdleTurn
  <2>3. turn' = [turn EXCEPT ![t] = x] /\ UNCHANGED <<drafts, log, review>>
    BY <1>1, <2>1 DEF Post, store
  <2>4. turn'[t] = x /\ Others(t)
    BY <2>3, Replaced
  <2>5. /\ page'[s] = t /\ page[s] = "ready"
        /\ \A u \in Sessions \ {s} : page'[u] = page[u]
    BY <1>1 DEF Post, InputOpen, TypeInv, TypeOK, ChatTypeOK
  <2>6. TurnPatient(t)'
    BY <2>2, <2>4, <2>5 DEF TurnPatient, StepPatient, LoopSteps
  <2>7. ASSUME NEW u \in Turns \ {t}, turn[u].at # "idle"
        PROVE  TurnPatient(u)'
    <3>1. turn'[u] = turn[u] /\ turn[u].session \in Sessions
      BY <2>4, <2>7 DEF Others, TypeInv, TurnsTyped
    <3>2. TurnPatient(u) /\ page[turn[u].session] = u
      BY <2>7 DEF PatientInv, TurnPatient
    <3>3. turn[u].session # s
      BY <2>5, <3>2, ChatAssumption
    <3>4. QED
      BY <2>3, <2>5, <2>7, <3>1, <3>2, <3>3 DEF TurnPatient
  <2>8. \A u \in Turns : TurnPatient(u)'
    BY <2>4, <2>6, <2>7 DEF TurnPatient, Others
  <2>9. /\ \A u \in Sessions : SessionPatient(u)'
        /\ \A r \in Reviewers : ReviewPatient(r)'
    BY <2>3 DEF PatientInv, SessionPatient, ReviewPatient
  <2>10. QED
    BY <2>8, <2>9 DEF PatientInv
<1>2. ASSUME NEW s \in Sessions, Reload(s)
      PROVE  PatientInv'
  <2>1. /\ page[s] \in {"ready", "locked"}
        /\ UNCHANGED <<drafts, log, review, turn>>
        /\ \A u \in Sessions \ {s} : page'[u] = page[u]
    BY <1>2 DEF Reload, store, TypeInv, TypeOK, ChatTypeOK
  <2>2. \A t \in Turns : turn[t].at # "idle" =>
          turn[t].session \in Sessions /\ turn[t].session # s
    BY <2>1, ChatAssumption DEF PatientInv, TurnPatient, TypeInv, TurnsTyped
  <2>3. QED
    BY <2>1, <2>2, Ends
<1>3. UNCHANGED drafts
  BY DEF Reporter, Post, Reload, Abandon, store
<1>4. QED
  BY <1>1, <1>2, <1>3 DEF Reporter, Abandon, Patient, Steady

LEMMA AdminPatient ==
  ASSUME TypeInv, PatientInv, Admin
  PROVE  PatientInv' /\ Steady
<1>1. ASSUME NEW r \in Reviewers, NEW s \in Sessions, NEW v \in Terminal,
             ReviewRead(r, s, v)
      PROVE  PatientInv' /\ Steady
  <2>1. PICK d : d = [drafts[s] EXCEPT !.status = v]
    OBVIOUS
  <2>2. drafts[s] \in Draft /\ drafts[s] # NoDraft
        /\ drafts[s].status = "escalated"
    BY <1>1 DEF ReviewRead, Reviewable, TypeInv, TypeOK, ChatTypeOK
  <2>3. d.status = v /\ d.category = drafts[s].category
    BY <2>1, <2>2 DEF Draft
  <2>4. PICK x : x = [session |-> s, draft |-> d]
    OBVIOUS
  <2>5. review' = [review EXCEPT ![r] = x] /\ UNCHANGED <<drafts, log, page, turn>>
    BY <1>1, <2>1, <2>4 DEF ReviewRead, store
  <2>6. review'[r] = x /\ \A q \in Reviewers \ {r} : review'[q] = review[q]
    BY <2>5 DEF TypeInv, TypeOK, ChatTypeOK
  <2>7. /\ d.category \in Categories /\ d.status # "gathering_info"
        /\ ~ Undecided(drafts[s])
    BY <2>2, <2>3 DEF PatientInv, SessionPatient, Terminal, Undecided
  <2>8. ReviewPatient(r)'
    BY <2>4, <2>5, <2>6, <2>7 DEF ReviewPatient
  <2>9. \A q \in Reviewers \ {r} : ReviewPatient(q)'
    BY <2>5, <2>6 DEF PatientInv, ReviewPatient
  <2>10. /\ \A t \in Turns : TurnPatient(t)'
         /\ \A u \in Sessions : SessionPatient(u)'
    BY <2>5 DEF PatientInv, TurnPatient, SessionPatient
  <2>11. QED
    BY <2>5, <2>8, <2>9, <2>10 DEF PatientInv, Steady
<1>2. ASSUME NEW r \in Reviewers, ReviewWrite(r)
      PROVE  PatientInv' /\ Steady
  <2>1. PICK s : s = review[r].session
    OBVIOUS
  <2>2. PICK d : d = review[r].draft
    OBVIOUS
  <2>3. /\ s \in Sessions /\ d # NoDraft /\ d.category \in Categories
        /\ d.status # "gathering_info" /\ ~ Undecided(drafts[s])
    BY <1>2, <2>1, <2>2 DEF ReviewWrite, PatientInv, ReviewPatient
  <2>4. /\ drafts' = [drafts EXCEPT ![s] = d] /\ UNCHANGED <<log, page, turn>>
        /\ review' = [review EXCEPT ![r] = NoReview]
    BY <1>2, <2>1, <2>2 DEF ReviewWrite
  <2>5. drafts'[s] = d /\ \A u \in Sessions \ {s} : drafts'[u] = drafts[u]
    BY <2>3, <2>4 DEF TypeInv, TypeOK, ChatTypeOK
  <2>6. /\ review'[r].draft = NoDraft
        /\ \A q \in Reviewers \ {r} : review'[q] = review[q]
    BY <2>4 DEF TypeInv, TypeOK, ChatTypeOK, NoReview
  <2>7. ~ Undecided(d)
    BY <2>3 DEF Undecided
  <2>8. Steady
    BY <2>5, <2>7 DEF Steady
  <2>9. \A q \in Reviewers : ReviewPatient(q)'
    BY <2>6, <2>8 DEF PatientInv, ReviewPatient, Steady
  <2>10. \A u \in Sessions : SessionPatient(u)'
    BY <2>3, <2>4, <2>5, <2>7 DEF PatientInv, SessionPatient, Counted
  <2>11. ASSUME NEW t \in Turns
         PROVE  TurnPatient(t)'
    <3>1. \A x : \A lg : StepPatient(x, drafts[s], lg) => StepPatient(x, d, lg)
      BY <2>3, <2>7 DEF StepPatient, Counted
    <3>2. TurnPatient(t) /\ (turn[t].at # "idle" => turn[t].session \in Sessions)
      BY DEF PatientInv, TypeInv, TurnsTyped
    <3>3. QED
      BY <2>4, <2>5, <3>1, <3>2 DEF TurnPatient
  <2>12. QED
    BY <2>8, <2>9, <2>10, <2>11 DEF PatientInv
<1>3. QED
  BY <1>1, <1>2 DEF Admin

LEMMA NextPatient ==
  ASSUME TypeInv, SettledInv, PatientInv, Patient, [Next]_vars
  PROVE  PatientInv' /\ Steady
<1>1. CASE UNCHANGED vars
  BY <1>1 DEF vars, chatVars, loopVars, Steady, PatientInv, TurnPatient,
              SessionPatient, ReviewPatient
<1>2. ASSUME NEW t \in Turns, Fail(t)
      PROVE  PatientInv' /\ Steady
  BY <1>2, ReleaseEnds DEF Fail, Abort, store, Steady
<1>3. ASSUME NEW i \in Instances, Crash(i)
      PROVE  PatientInv' /\ Steady
  <2>1. UNCHANGED <<drafts, log, review>>
    BY <1>3 DEF Crash, store
  <2>2. ASSUME NEW t \in Turns, turn'[t].at # "idle"
        PROVE  turn'[t] = turn[t] /\ Home[t] # i
    BY <1>3, <2>2 DEF Crash, IdleTurn
  <2>3. ASSUME NEW t \in Turns, turn'[t].at # "idle"
        PROVE  page'[turn[t].session] = page[turn[t].session]
    <3>1. turn[t].session \in Sessions /\ page[turn[t].session] = t
      BY <2>2, <2>3 DEF PatientInv, TurnPatient, TypeInv, TurnsTyped
    <3>2. QED
      BY <1>3, <2>2, <2>3, <3>1 DEF Crash
  <2>4. \A t \in Turns : turn[t].at = "idle" => turn'[t].at = "idle"
    BY <2>2
  <2>5. QED
    BY <2>1, <2>2, <2>3, <2>4, Ends DEF Steady
<1>4. CASE Next
  BY <1>2, <1>3, <1>4, LoopStepPatient, TransportStepPatient, ReporterPatient,
     AdminPatient DEF Next, Expire, Patient
<1>5. QED
  BY <1>1, <1>4

LEMMA InitPatient == ASSUME Init PROVE PatientInv
<1>1. \A t \in Turns : TurnPatient(t)
  BY DEF Init, ChatInit, IdleTurn, TurnPatient
<1>2. \A r \in Reviewers : ReviewPatient(r)
  BY DEF Init, ChatInit, NoReview, ReviewPatient
<1>3. ASSUME NEW s \in Sessions
      PROVE  SessionPatient(s)
  <2>1. log[s] = <<>> /\ drafts[s] = NoDraft
    BY <1>3 DEF Init, ChatInit
  <2>2. Questioned(<<>>) = 0
    <3>1. {i \in DOMAIN <<>> : <<>>[i] = "question"} = {}
      OBVIOUS
    <3>2. QED
      BY <3>1, FS_EmptySet DEF Questioned
  <2>3. RepliesFollow(<<>>)
    BY DEF RepliesFollow
  <2>4. QED
    BY <2>1, <2>2, <2>3, DraftAssumption DEF SessionPatient, Counted, AskedOf
<1>4. QED
  BY <1>1, <1>2, <1>3 DEF PatientInv

LEMMA PatientInvAlways ==
  ASSUME Patient
  PROVE  Spec => [](TypeInv /\ SettledInv /\ PatientInv)
<1>1. Init => PatientInv
  BY InitPatient
<1>2. TypeInv /\ SettledInv /\ PatientInv /\ [Next]_vars => PatientInv'
  BY NextPatient
<1>3. QED
  BY <1>1, <1>2, TypeInvAlways, SettledInvAlways, PTL DEF Spec

\* A reporter is never asked more than MaxRounds questions, although turns of
\* the conversation die anywhere and are sent again and administrators decide
\* meanwhile: the store counts a round no later than the question is logged
\* (loop.py:6, service.py:52-63).
THEOREM QuestionsAreCapped ==
  ASSUME Patient
  PROVE  Spec => []QuestionsCapped
<1>1. PatientInv => QuestionsCapped
  BY DEF PatientInv, SessionPatient, Counted, QuestionsCapped, Asked, Questioned
<1>2. QED
  BY <1>1, PatientInvAlways, PTL

\* Every reply in a transcript stands directly after the message it answers: a
\* turn that dies between the two leaves the message alone, and no other turn
\* of the conversation writes in between (service.py:62-63).
THEOREM RepliesAreInPlace ==
  ASSUME Patient
  PROVE  Spec => []RepliesFollowMessages
<1>1. PatientInv => RepliesFollowMessages
  BY DEF PatientInv, SessionPatient, RepliesFollow, RepliesFollowMessages
<1>2. QED
  BY <1>1, PatientInvAlways, PTL

\* A request that was handed to a person or filed never goes back to asking its
\* reporter: a classified draft that passed the clarify gate passes it again,
\* since answers and rounds only accumulate (loop.py:103-143).
THEOREM DecisionsStand ==
  ASSUME Patient
  PROVE  Spec => DecidedNeverAsks
<1>1. TypeInv /\ SettledInv /\ PatientInv /\ [Next]_vars
        => [\A s \in Sessions :
              drafts[s] # NoDraft /\ drafts[s].status # "gathering_info"
                => drafts'[s].status # "gathering_info"]_drafts
  BY NextPatient DEF Steady, Undecided
<1>2. QED
  BY <1>1, PatientInvAlways, PTL DEF Spec, DecidedNeverAsks

-----------------------------------------------------------------------------
(***************************************************************************)
(* No escalation is stranded while no call raises and no instance dies.    *)
(*                                                                         *)
(* A draft is stored three awaits before its session is listed.  What may  *)
(* not happen is that a draft outlives the turn that is to list it: WayInv *)
(* follows the draft of each session, and each draft a review holds, to    *)
(* the listed sessions or to a turn that is on its way there.              *)
(***************************************************************************)

Finishing == {"chatSave", "logUser", "logReply", "register"}

\* The dashboard lists session s, or a turn is about to have it listed.
OnItsWay(s) ==
  \/ s \in registered
  \/ \E t \in Turns : turn[t].session = s /\ turn[t].at \in Finishing

\* A stored draft is never one that nobody will find: its session is listed, or
\* the turn that stored it is still under way to list it, however turns overlap,
\* pages are left, drafts expire and answers of the tracker are lost
\* (ChatService.handle: set, append, append, register).
NeverStranded == \A s \in Sessions : drafts[s] # NoDraft => OnItsWay(s)

WayInv ==
  /\ NeverStranded
  /\ \A r \in Reviewers : review[r].draft # NoDraft => OnItsWay(review[r].session)

\* Nothing takes a session off its way: a turn that finishes is not given up.
LEMMA WayKept ==
  ASSUME TypeInv, "error" \notin Faults, [Next]_vars, NEW s, OnItsWay(s)
  PROVE  OnItsWay(s)'
<1>1. registered \subseteq registered'
  <2>1. ASSUME NEW t \in Turns, LoopStep(t)
        PROVE  registered' = registered
    BY <2>1, LoopStepMoves
  <2>2. ASSUME NEW t \in Turns, TransportStep(t)
        PROVE  registered \subseteq registered'
    BY <2>2, TransportStepMoves DEF ChatStores, Logs, Registers
  <2>3. CASE Reporter \/ Admin
    BY <2>3, ReporterMoves DEF Arrives, store, Admin, ReviewRead, ReviewWrite
  <2>4. CASE UNCHANGED vars
    BY <2>4 DEF vars, chatVars
  <2>5. QED
    BY <2>1, <2>2, <2>3, <2>4, FailureMoves DEF Next, Expire, GivesUp, store
<1>2. CASE s \in registered
  BY <1>1, <1>2 DEF OnItsWay
<1>3. ASSUME NEW t \in Turns, turn[t].session = s, turn[t].at \in Finishing
      PROVE  OnItsWay(s)'
  <2>1. CASE turn'[t] = turn[t]
    BY <1>3, <2>1 DEF OnItsWay
  <2>2. CASE MovesOn(turn[t], turn'[t])
    <3>1. turn'[t].session = s /\ turn'[t].at \in Finishing
      BY <1>3, <2>2 DEF MovesOn, Flow, Finishing
    <3>2. QED
      BY <3>1 DEF OnItsWay
  <2>3. ASSUME NEW u \in Turns, LoopStep(u)
        PROVE  turn'[t] = turn[t]
    BY <1>3, <2>3, LoopStepMoves DEF OneMoves, Others, Finishing, LoopSteps
  <2>4. ASSUME NEW u \in Turns, TransportStep(u)
        PROVE  OnItsWay(s)'
    <3>1. CASE u # t
      BY <2>1, <2>4, <3>1, TransportStepMoves DEF OneMoves, Others
    <3>2. CASE u = t /\ Registers(t)
      BY <1>3, <3>2 DEF Registers, OnItsWay
    <3>3. CASE u = t /\ ~ Registers(t)
      <4>1. turn'[t] # IdleTurn /\ OneMoves(t)
        BY <2>4, <3>3, TransportStepMoves DEF ChatStores, Logs, IdleTurn
      <4>2. QED
        BY <2>2, <4>1 DEF OneMoves
    <3>4. QED
      BY <3>1, <3>2, <3>3
  <2>5. CASE Reporter \/ Admin
    <3>1. turn'[t] = turn[t]
      BY <1>3, <2>5, ReporterMoves
         DEF Arrives, Others, Finishing, Admin, ReviewRead, ReviewWrite
    <3>2. QED
      BY <2>1, <3>1
  <2>6. CASE UNCHANGED vars \/ \E x \in Sessions : Expire(x)
    BY <2>1, <2>6 DEF vars, chatVars, Expire
  <2>7. QED
    BY <2>1, <2>3, <2>4, <2>5, <2>6 DEF Next, Fail, Crash
<1>4. QED
  BY <1>2, <1>3 DEF OnItsWay

LEMMA NextWayInv ==
  ASSUME TypeInv, "error" \notin Faults, WayInv, [Next]_vars
  PROVE  WayInv'
<1>1. ASSUME NEW s, OnItsWay(s)
      PROVE  OnItsWay(s)'
  BY <1>1, WayKept
<1>2. ASSUME NEW s, NEW t \in Turns, turn'[t].session = s,
             turn'[t].at \in Finishing
      PROVE  OnItsWay(s)'
  BY <1>2 DEF OnItsWay
<1>3. ASSUME UNCHANGED review,
             \A s \in Sessions : \/ drafts'[s] \in {drafts[s], NoDraft}
                                 \/ OnItsWay(s)'
      PROVE  WayInv'
  BY <1>1, <1>3 DEF WayInv, NeverStranded
<1>4. ASSUME NEW t \in Turns, turn'[t].at \in Finishing, UNCHANGED review,
             MovesOn(turn[t], turn'[t]),
             drafts' = [drafts EXCEPT ![turn[t].session] = turn[t].draft]
      PROVE  WayInv'
  <2>0. PICK u : u = turn[t].session
    OBVIOUS
  <2>1. OnItsWay(u)'
    BY <1>2, <1>4, <2>0 DEF MovesOn
  <2>2. \A s \in Sessions : drafts'[s] = drafts[s] \/ s = u
    BY <1>4, <2>0 DEF TypeInv, TypeOK, ChatTypeOK
  <2>3. QED
    BY <1>3, <1>4, <2>1, <2>2
<1>5. ASSUME NEW t \in Turns, LoopStep(t)
      PROVE  WayInv'
  <2>1. UNCHANGED review /\ OneMoves(t) /\ (UNCHANGED drafts \/ LoopStores(t))
    BY <1>5, LoopStepMoves
  <2>2. CASE LoopStores(t)
    <3>1. MovesOn(turn[t], turn'[t]) /\ turn'[t].at \in Finishing
      BY <2>1, <2>2 DEF LoopStores, OneMoves, IdleTurn, Finishing
    <3>2. QED
      BY <1>4, <2>1, <2>2, <3>1 DEF LoopStores
  <2>3. QED
    BY <1>3, <2>1, <2>2
<1>6. ASSUME NEW t \in Turns, TransportStep(t)
      PROVE  WayInv'
  <2>1. UNCHANGED review /\ OneMoves(t)
    BY <1>6, TransportStepMoves
  <2>2. CASE ChatStores(t)
    <3>1. MovesOn(turn[t], turn'[t]) /\ turn'[t].at \in Finishing
      BY <2>1, <2>2 DEF ChatStores, OneMoves, IdleTurn, Finishing
    <3>2. QED
      BY <1>4, <2>1, <2>2, <3>1 DEF ChatStores
  <2>3. CASE UNCHANGED drafts
    BY <1>3, <2>1, <2>3
  <2>4. QED
    BY <1>6, <2>2, <2>3, TransportStepMoves DEF Logs, Registers
<1>7. CASE Reporter
  BY <1>3, <1>7, ReporterMoves DEF Arrives, store
<1>8. ASSUME NEW r \in Reviewers, NEW s \in Sessions, NEW v \in Terminal,
             ReviewRead(r, s, v)
      PROVE  WayInv'
  <2> DEFINE x == [session |-> s, draft |-> [drafts[s] EXCEPT !.status = v]]
  <2>1. review' = [review EXCEPT ![r] = x] /\ UNCHANGED drafts
    BY <1>8 DEF ReviewRead, store
  <2>2. x.session = s
    OBVIOUS
  <2>3. OnItsWay(s)
    BY <1>8 DEF ReviewRead, Reviewable, WayInv, NeverStranded
  <2> HIDE DEF x
  <2>4. \A q \in Reviewers : review'[q] = review[q] \/ review'[q].session = s
    BY <2>1, <2>2 DEF TypeInv, ReviewsTyped
  <2>5. QED
    BY <1>1, <2>1, <2>3, <2>4 DEF WayInv, NeverStranded
<1>9. ASSUME NEW r \in Reviewers, ReviewWrite(r)
      PROVE  WayInv'
  <2>1. OnItsWay(review[r].session)
    BY <1>9 DEF ReviewWrite, WayInv
  <2>2. \A q \in Reviewers : review'[q] = review[q] \/ review'[q].draft = NoDraft
    BY <1>9 DEF ReviewWrite, NoReview, TypeInv, ReviewsTyped
  <2>3. \A s \in Sessions : drafts'[s] = drafts[s] \/ s = review[r].session
    BY <1>9 DEF ReviewWrite, TypeInv, TypeOK, ChatTypeOK
  <2>4. QED
    BY <1>1, <2>1, <2>2, <2>3 DEF WayInv, NeverStranded
<1>10. ASSUME NEW s \in Sessions, Expire(s)
       PROVE  WayInv'
  <2>1. \A q \in Sessions : drafts'[q] \in {drafts[q], NoDraft}
    BY <1>10 DEF Expire, TypeInv, TypeOK, ChatTypeOK
  <2>2. QED
    BY <1>3, <1>10, <2>1 DEF Expire
<1>11. CASE UNCHANGED vars
  BY <1>3, <1>11 DEF vars, chatVars
<1>12. QED
  BY <1>5, <1>6, <1>7, <1>8, <1>9, <1>10, <1>11 DEF Next, Admin, Fail, Crash

LEMMA InitWayInv == ASSUME Init PROVE WayInv
BY DEF Init, ChatInit, WayInv, NeverStranded, NoReview

\* While no call raises and no instance dies, every stored draft is listed for
\* the administrator or about to be.
THEOREM EscalationOnItsWay ==
  ASSUME "error" \notin Faults
  PROVE  Spec => []NeverStranded
<1>1. Init => WayInv
  BY InitWayInv
<1>2. TypeInv /\ WayInv /\ [Next]_vars => WayInv'
  BY NextWayInv
<1>3. WayInv => NeverStranded
  BY DEF WayInv
<1>4. QED
  BY <1>1, <1>2, <1>3, TypeInvAlways, PTL DEF Spec
-----------------------------------------------------------------------------
(***************************************************************************)
(* A locked page tells the truth.                                          *)
(*                                                                         *)
(* A page is locked by the last answer of its turn, three awaits after the *)
(* draft was stored, or by a later reload.  LockInv carries what the turn  *)
(* knew when it stored the draft to the step that locks the page: a turn   *)
(* that has not asked anything leaves a decided draft behind, and a review *)
(* that overwrites the draft leaves it decided.                            *)
(***************************************************************************)

Answering == {"logUser", "logReply", "register"}

TurnLocks(t) ==
  turn[t].at \in Answering /\ turn[t].reply # "question"
    => ~ Undecided(drafts[turn[t].session])

LockInv ==
  /\ \A s \in Sessions : page[s] = "locked" => ~ Undecided(drafts[s])
  /\ \A t \in Turns : TurnLocks(t)

\* A step that locks no page but a decided one and brings no turn to its answer.
LEMMA NoneAnswers ==
  ASSUME TypeInv, LockInv, Steady,
         \A s \in Sessions : page'[s] = "locked" =>
           page[s] = "locked" \/ ~ Undecided(drafts[s]),
         \A t \in Turns : turn'[t] = turn[t] \/ turn'[t].at \notin Answering
  PROVE  LockInv'
<1>1. \A s \in Sessions : page'[s] = "locked" => ~ Undecided(drafts[s])'
  BY DEF LockInv, Steady
<1>2. ASSUME NEW t \in Turns
      PROVE  TurnLocks(t)'
  <2>1. CASE turn'[t].at \in Answering /\ turn'[t].reply # "question"
    <3>1. turn'[t] = turn[t]
      BY <2>1
    <3>2. turn[t].session \in Sessions
      BY <2>1, <3>1 DEF Answering, TypeInv, TurnsTyped
    <3>3. ~ Undecided(drafts[turn[t].session])
      BY <2>1, <3>1 DEF LockInv, TurnLocks
    <3>4. ~ Undecided(drafts'[turn[t].session])
      BY <3>2, <3>3 DEF Steady
    <3>5. QED
      BY <3>1, <3>4 DEF TurnLocks
  <2>2. QED
    BY <2>1 DEF TurnLocks
<1>3. QED
  BY <1>1, <1>2 DEF LockInv

\* A turn that goes on to answer, having locked no page yet.
LEMMA GoesOnToAnswer ==
  ASSUME TypeInv, LockInv, Steady, UNCHANGED page, NEW t \in Turns, Others(t),
         TurnLocks(t)'
  PROVE  LockInv'
<1>1. \A s \in Sessions : page'[s] = "locked" => ~ Undecided(drafts[s])'
  BY DEF LockInv, Steady
<1>2. ASSUME NEW u \in Turns \ {t}
      PROVE  TurnLocks(u)'
  <2>1. turn'[u] = turn[u]
    BY DEF Others
  <2>2. turn[u].at \in Answering => turn[u].session \in Sessions
    BY DEF Answering, TypeInv, TurnsTyped
  <2>3. QED
    BY <2>1, <2>2 DEF LockInv, TurnLocks, Steady
<1>3. QED
  BY <1>1, <1>2 DEF LockInv

LEMMA NextLockInv ==
  ASSUME TypeInv, SettledInv, PageAwaitsItsTurn, PatientInv, Patient, LockInv,
         [Next]_vars
  PROVE  LockInv'
<1>1. Steady
  BY NextPatient
<1>2. ASSUME NEW t \in Turns, Release(t, "ready")
      PROVE  LockInv'
  <2>1. \A u \in Turns : turn'[u] = turn[u] \/ turn'[u].at \notin Answering
    BY <1>2, ReleaseMoves DEF Others, Answering
  <2>2. \A s \in Sessions : page'[s] = "locked" => page[s] = "locked"
    BY <1>2 DEF Release
  <2>3. QED
    BY <1>1, <2>1, <2>2, NoneAnswers
<1>3. ASSUME NEW t \in Turns, LoopStep(t)
      PROVE  LockInv'
  <2>1. OneMoves(t) /\ turn[t].at \in LoopSteps \cup {"arrived"}
    BY <1>3, LoopStepMoves
  <2>2. turn'[t].at \notin Answering
    BY <2>1 DEF OneMoves, MovesOn, Flow, IdleTurn, LoopSteps, Answering
  <2>3. UNCHANGED page \/ Abort(t)
    BY <1>3 DEF LoopStep, Load, Clarify, Investigate, Nearest, Escalate,
       StartFiling, RefuseFiling, FileNew, FileDuplicate, RefuseLink,
       FilingFails, FilingUnanswered, FilingUnreadable, LinkMade, LinkFails,
       Index, LoopSave
  <2>4. CASE Abort(t)
    BY <1>2, <2>4 DEF Abort
  <2>5. CASE UNCHANGED page
    BY <1>1, <2>1, <2>2, <2>5, NoneAnswers DEF OneMoves, Others
  <2>6. QED
    BY <2>3, <2>4, <2>5
<1>4. ASSUME NEW t \in Turns, TransportStep(t)
      PROVE  LockInv'
  <2>1. OneMoves(t) /\ turn[t] \in Turn
    BY <1>4, TransportStepMoves DEF TypeInv, TurnsTyped
  <2>2. CASE ChatSave(t)
    <3>1. PICK s : s = turn[t].session
      OBVIOUS
    <3>2. PICK d : d = turn[t].draft
      OBVIOUS
    <3>3. PICK e : e = drafts[s]
      OBVIOUS
    <3>4. turn[t].at = "chatSave" /\ s \in Sessions /\ d \in Draft
      BY <2>2, <3>1, <3>2 DEF ChatSave, At, TypeInv, TurnsTyped
    <3>5. /\ StepPatient(turn[t], e, log[s])
          /\ Settled(rows, s, d)
      BY <3>1, <3>2, <3>3, <3>4
         DEF PatientInv, TurnPatient, SettledInv, TurnsSettled, TurnSettled,
             StepSettled
    <3>6. turn[t].reply = "question" => MayAskAgain(d)
      <4> HAVE turn[t].reply = "question"
      <4>1. d = e /\ Undecided(e)
        BY <3>2, <3>4, <3>5 DEF StepPatient
      <4>2. d # NoDraft
        BY <3>4, ChatAssumption
      <4>3. QED
        BY <3>5, <4>1, <4>2 DEF Undecided, Settled, Waiting, Decided, MayAskAgain
    <3>7. PICK x : x = [turn[t] EXCEPT !.at = "logUser",
                          !.reply = IF turn[t].reply = "question"
                                       /\ ~ MayAskAgain(d) THEN "cap" ELSE @]
      OBVIOUS
    <3>8. turn'[t] = x /\ x.session = s /\ x.reply = turn[t].reply
      <4>1. turn' = [turn EXCEPT ![t] = x]
        BY <2>2, <3>2, <3>7 DEF ChatSave
      <4>2. x.session = s /\ x.reply = turn[t].reply
        BY <2>1, <3>1, <3>6, <3>7 DEF Turn
      <4>3. QED
        BY <4>1, <4>2, Replaced
    <3>9. drafts'[s] = d
      BY <2>2, <3>1, <3>2, <3>4 DEF ChatSave, TypeInv, TypeOK, ChatTypeOK
    <3>10. turn[t].reply # "question" => ~ Undecided(d)
      BY <3>2, <3>4, <3>5, ChatAssumption DEF StepPatient, Undecided
    <3>11. TurnLocks(t)'
      BY <3>8, <3>9, <3>10 DEF TurnLocks
    <3>12. QED
      BY <1>1, <2>1, <2>2, <3>11, GoesOnToAnswer DEF ChatSave, OneMoves
  <2>3. ASSUME NEW step, turn' = [turn EXCEPT ![t].at = step],
               turn[t].at \in Answering, UNCHANGED <<drafts, page>>
        PROVE  LockInv'
    <3>1. PICK x : x = [turn[t] EXCEPT !.at = step]
      OBVIOUS
    <3>2. turn'[t] = x /\ x.session = turn[t].session /\ x.reply = turn[t].reply
      BY <2>1, <2>3, <3>1, Replaced DEF Turn
    <3>3. TurnLocks(t)'
      BY <2>3, <3>2 DEF LockInv, TurnLocks
    <3>4. QED
      BY <1>1, <2>1, <2>3, <3>3, GoesOnToAnswer DEF OneMoves
  <2>4. CASE LogUser(t)
    BY <2>3, <2>4 DEF LogUser, At, Answering
  <2>5. CASE LogReply(t)
    BY <2>3, <2>5 DEF LogReply, At, Answering
  <2>6. CASE Register(t)
    <3>1. \A u \in Turns : turn'[u] = turn[u] \/ turn'[u].at \notin Answering
      BY <2>6, ReleaseMoves DEF Register, Others, Answering
    <3>2. PICK s : s = turn[t].session
      OBVIOUS
    <3>3. turn[t].at = "register" /\ s \in Sessions
      BY <2>6, <3>2 DEF Register, At, TypeInv, TurnsTyped
    <3>4. CASE turn[t].reply = "question"
      BY <1>2, <2>6, <3>4 DEF Register
    <3>5. CASE turn[t].reply # "question"
      <4>1. ~ Undecided(drafts[s])
        BY <2>6, <3>2, <3>3, <3>5 DEF LockInv, TurnLocks, Answering
      <4>2. \A u \in Sessions : page'[u] # page[u] => u = s
        BY <2>6, <3>2 DEF Register, Release, PageAwaitsItsTurn
      <4>3. QED
        BY <1>1, <3>1, <4>1, <4>2, NoneAnswers
    <3>6. QED
      BY <3>4, <3>5
  <2>7. QED
    BY <1>4, <2>2, <2>4, <2>5, <2>6 DEF TransportStep, Transport
<1>5. CASE Reporter
  <2>1. \A s \in Sessions : page'[s] = "locked" =>
          page[s] = "locked" \/ ~ Undecided(drafts[s])
    <3>1. ASSUME NEW s \in Sessions, NEW t \in Turns, Post(s, t)
          PROVE  \A u \in Sessions : page'[u] = "locked" => page[u] = "locked"
      BY <3>1, ChatAssumption DEF Post, TypeInv, TypeOK, ChatTypeOK
    <3>2. ASSUME NEW s \in Sessions, Reload(s)
          PROVE  \A u \in Sessions : page'[u] = "locked" =>
                   page[u] = "locked" \/ ~ Undecided(drafts[u])
      BY <3>2 DEF Reload, TypeInv, TypeOK, ChatTypeOK, Undecided, Done
    <3>3. QED
      BY <1>5, <3>1, <3>2 DEF Reporter, Abandon, Patient
  <2>2. \A t \in Turns : turn'[t] = turn[t] \/ turn'[t].at \notin Answering
    BY <1>5, ReporterMoves DEF Arrives, Others, Answering
  <2>3. QED
    BY <1>1, <2>1, <2>2, NoneAnswers
<1>6. CASE UNCHANGED <<page, turn>>
  BY <1>1, <1>6, NoneAnswers
<1>7. CASE Admin \/ UNCHANGED vars
  BY <1>6, <1>7 DEF Admin, ReviewRead, ReviewWrite, vars, chatVars
<1>8. ASSUME NEW t \in Turns, Fail(t)
      PROVE  LockInv'
  BY <1>2, <1>8 DEF Fail, Abort
<1>9. ASSUME NEW i \in Instances, Crash(i)
      PROVE  LockInv'
  <2>1. \A s \in Sessions : page'[s] = "locked" => page[s] = "locked"
    BY <1>9 DEF Crash
  <2>2. \A t \in Turns : turn'[t] = turn[t] \/ turn'[t].at \notin Answering
    BY <1>9, FailureMoves DEF GivesUp, IdleTurn, Answering
  <2>3. QED
    BY <1>1, <2>1, <2>2, NoneAnswers
<1>10. QED
  BY <1>3, <1>4, <1>5, <1>7, <1>8, <1>9 DEF Next, Expire, Patient

LEMMA InitLockInv == ASSUME Init PROVE LockInv
BY DEF Init, ChatInit, LockInv, TurnLocks, IdleTurn, Answering

LEMMA LockInvAlways ==
  ASSUME Patient
  PROVE  Spec => [](TypeInv /\ SettledInv /\ PatientInv /\ LockInv)
<1>1. Init => LockInv
  BY InitLockInv
<1>2. /\ TypeInv /\ SettledInv /\ PageAwaitsItsTurn /\ PatientInv /\ LockInv
      /\ [Next]_vars
      => LockInv'
  BY NextLockInv
<1>3. QED
  BY <1>1, <1>2, PatientInvAlways, PagesAwaitTheirTurn, PTL DEF Spec

\* A reporter who can write no more has been given a decision: a locked page is
\* the page of a stored draft that was filed, handed to a person or closed,
\* although turns fail and instances die anywhere (chat.js data.done, chat_page).
LockedMeansDecided ==
  \A s \in Sessions : page[s] = "locked" =>
    drafts[s] # NoDraft /\ drafts[s].status \in Done

LEMMA LockedDecided ==
  ASSUME TypeInv, SettledInv, LockInv
  PROVE  LockedMeansDecided
<1> SUFFICES ASSUME NEW s \in Sessions, page[s] = "locked"
             PROVE  drafts[s] # NoDraft /\ drafts[s].status \in Done
  BY DEF LockedMeansDecided
<1>1. drafts[s] # NoDraft /\ drafts[s].status # "gathering_info"
  BY DEF LockInv, Undecided
<1>2. Settled(rows, s, drafts[s])
  BY DEF SettledInv, DraftsSettled
<1>3. QED
  BY <1>1, <1>2 DEF Settled, Waiting, Decided, Done

\* A page is locked only once its conversation is decided.
THEOREM LockedIsDecided ==
  ASSUME Patient
  PROVE  Spec => []LockedMeansDecided
BY LockInvAlways, LockedDecided, PTL

\* While nothing raises or dies, a page that is locked tells the truth: its draft
\* is decided and the session is on the administrator's dashboard, although the
\* draft is stored three awaited writes before the session is registered and a
\* reload may lock the page in between (service.py:61-64, chat.js, chat_page).
THEOREM LockedIsHandled ==
  ASSUME Patient, "error" \notin Faults
  PROVE  Spec => []LockedMeansHandled
<1>1. TypeInv /\ SettledInv /\ PatientInv /\ LockInv /\ NeverStranded
        => LockedMeansHandled
  <2> SUFFICES ASSUME TypeInv, SettledInv, PatientInv, LockInv, NeverStranded,
                      NEW s \in Sessions, page[s] = "locked"
               PROVE  s \in Dashboard /\ drafts[s].status \in Done
    BY DEF LockedMeansHandled, Dashboard
  <2>1. drafts[s] # NoDraft /\ drafts[s].status \in Done
    BY LockedDecided DEF LockedMeansDecided
  <2>2. OnItsWay(s)
    BY <2>1 DEF NeverStranded
  <2>3. s \in registered
    <3> SUFFICES ASSUME NEW t \in Turns, turn[t].session = s,
                        turn[t].at \in Finishing
                 PROVE  FALSE
      BY <2>2 DEF OnItsWay
    <3>1. page[s] = t
      BY DEF PatientInv, TurnPatient, Finishing
    <3>2. QED
      BY <3>1, ChatAssumption
  <2>4. QED
    BY <2>1, <2>3 DEF Dashboard
<1>2. QED
  BY <1>1, LockInvAlways, EscalationOnItsWay, PTL
-----------------------------------------------------------------------------
(***************************************************************************)
(* Tickets in the index and in the drafts of one topic, while turns of one *)
(* conversation, or any two turns, do not overlap.                         *)
(***************************************************************************)

Serial == \A t, u \in Turns : t = u

\* No two turns under way are of one session.
Exclusive ==
  \A t, u \in Turns :
    t # u /\ turn[t].at # "idle" /\ turn[u].at # "idle"
      => turn[t].session # turn[u].session

Ticketed(d) == d # NoDraft /\ d.ticket # NoTicket

\* If d2 was filed after d1, it is recognised as a duplicate.
InOrder(d1, d2) == d1.ticket < d2.ticket => d2.dup # NoDuplicate

\* The other filed requests ds[u] on the topic of s, and draft d of s.
Ordered(s, d, ds) ==
  \A u \in Sessions \ {s} :
    TopicOf[u] = TopicOf[s] /\ Ticketed(ds[u])
      => InOrder(d, ds[u]) /\ InOrder(ds[u], d)

\* Nobody else's request on the topic of s is indexed.
Alone(s, rw) ==
  \A u \in Sessions \ {s} : TopicOf[u] = TopicOf[s] => ~ rw[u].present

Storing == {"loopSave", "chatSave"}

StepFiled(x, e, row) ==
  /\ x.at \in LoopSteps => ~ Ticketed(e)
  /\ x.at \in Storing /\ Ticketed(x.draft) => row.ticket = x.draft.ticket

StepLater(x, s, ds, rw) ==
  Serial =>
    /\ x.at \in {"score", "create"} /\ x.draft.dup = NoDuplicate => Alone(s, rw)
    /\ x.at \in {"link", "index"} \cup Storing /\ Ticketed(x.draft) =>
         Ordered(s, x.draft, ds)

TurnFiled(t) ==
  turn[t].at # "idle" =>
    /\ StepFiled(turn[t], drafts[turn[t].session], rows[turn[t].session])
    /\ StepLater(turn[t], turn[t].session, drafts, rows)

SessionFiled(s) ==
  Ticketed(drafts[s]) =>
    /\ rows[s].ticket = drafts[s].ticket
    /\ Serial => Ordered(s, drafts[s], drafts)

ReviewFiled(r) == ~ Ticketed(review[r].draft)

FiledInv ==
  /\ \A t \in Turns : TurnFiled(t)
  /\ \A s \in Sessions : SessionFiled(s)
  /\ \A r \in Reviewers : ReviewFiled(r)

-----------------------------------------------------------------------------
\* A step that stores and indexes nothing, and in which no turn comes to what
\* the invariant speaks of.
LEMMA Untouched ==
  ASSUME FiledInv, UNCHANGED <<drafts, rows>>,
         \A t \in Turns :
           turn'[t] = turn[t] \/ turn'[t].at \notin LoopSteps \cup Storing,
         \A r \in Reviewers :
           review'[r] = review[r] \/ ~ Ticketed(review'[r].draft)
  PROVE  FiledInv'
<1>1. ASSUME NEW t \in Turns
      PROVE  TurnFiled(t)'
  <2>1. CASE turn'[t] = turn[t]
    BY <2>1 DEF FiledInv, TurnFiled
  <2>2. CASE turn'[t].at \notin LoopSteps \cup Storing
    BY <2>2 DEF TurnFiled, StepFiled, StepLater, LoopSteps, Storing
  <2>3. QED
    BY <2>1, <2>2
<1>2. \A s \in Sessions : SessionFiled(s)'
  BY DEF FiledInv, SessionFiled
<1>3. \A r \in Reviewers : ReviewFiled(r)'
  BY DEF FiledInv, ReviewFiled
<1>4. QED
  BY <1>1, <1>2, <1>3 DEF FiledInv

\* A turn moves on: what holds of it is enough.
LEMMA MovesFiled ==
  ASSUME FiledInv, NEW t \in Turns, turn[t].at # "idle",
         NEW s, s = turn[t].session, Others(t), turn'[t].session = s,
         UNCHANGED <<drafts, rows, review>>,
         StepFiled(turn'[t], drafts[s], rows[s]),
         StepLater(turn'[t], s, drafts, rows)
  PROVE  FiledInv'
<1>1. TurnFiled(t)'
  BY DEF TurnFiled
<1>2. \A u \in Turns \ {t} : TurnFiled(u)'
  BY DEF FiledInv, TurnFiled, Others
<1>3. \A u \in Sessions : SessionFiled(u)'
  BY DEF FiledInv, SessionFiled
<1>4. \A r \in Reviewers : ReviewFiled(r)'
  BY DEF FiledInv, ReviewFiled
<1>5. QED
  BY <1>1, <1>2, <1>3, <1>4 DEF FiledInv

\* A turn writes the draft or the row of its session.
LEMMA WritesFiled ==
  ASSUME TypeInv, FiledInv, Exclusive, NEW t \in Turns, turn[t].at # "idle",
         NEW s, s = turn[t].session, Others(t), turn'[t].session = s,
         UNCHANGED review,
         \A u \in Sessions \ {s} : drafts'[u] = drafts[u] /\ rows'[u] = rows[u],
         StepFiled(turn'[t], drafts'[s], rows'[s]),
         StepLater(turn'[t], s, drafts, rows),
         Ticketed(drafts'[s]) =>
           /\ rows'[s].ticket = drafts'[s].ticket
           /\ Serial => Ordered(s, drafts'[s], drafts)
  PROVE  FiledInv'
<1>1. s \in Sessions
  BY DEF TypeInv, TurnsTyped
<1>2. PICK e : e = drafts'[s]
  OBVIOUS
<1>3. \A d : Ordered(s, d, drafts') <=> Ordered(s, d, drafts)
  BY DEF Ordered
<1>4. Alone(s, rows') <=> Alone(s, rows)
  BY DEF Alone
<1>5. TurnFiled(t)'
  BY <1>3, <1>4 DEF TurnFiled, StepLater
<1>6. ASSUME NEW u \in Turns \ {t}, turn'[u].at # "idle"
      PROVE  TurnFiled(u)'
  <2>1. turn'[u] = turn[u] /\ turn[u].session \in Sessions
        /\ turn[u].session # s
    BY <1>6 DEF Others, Exclusive, TypeInv, TurnsTyped
  <2>2. ~ Serial
    BY DEF Serial
  <2>3. QED
    BY <1>6, <2>1, <2>2 DEF FiledInv, TurnFiled, StepLater
<1>7. \A u \in Turns \ {t} : TurnFiled(u)'
  BY <1>6 DEF TurnFiled
<1>8. SessionFiled(s)'
  BY <1>3 DEF SessionFiled
<1>9. ASSUME NEW u \in Sessions \ {s}, Ticketed(drafts[u])
      PROVE  /\ rows'[u].ticket = drafts[u].ticket
             /\ Serial => Ordered(u, drafts[u], drafts')
  <2>1. /\ rows'[u].ticket = drafts[u].ticket
        /\ Serial => Ordered(u, drafts[u], drafts)
    BY <1>9 DEF FiledInv, SessionFiled
  <2>2. Serial /\ TopicOf[s] = TopicOf[u] /\ Ticketed(e)
          => InOrder(drafts[u], e) /\ InOrder(e, drafts[u])
    BY <1>1, <1>2, <1>9 DEF Ordered
  <2>3. \A v \in Sessions \ {u} : drafts'[v] = IF v = s THEN e ELSE drafts[v]
    BY <1>2
  <2>4. QED
    BY <2>1, <2>2, <2>3 DEF Ordered
<1>10. \A u \in Sessions \ {s} : SessionFiled(u)'
  BY <1>9 DEF SessionFiled
<1>11. \A r \in Reviewers : ReviewFiled(r)'
  BY DEF FiledInv, ReviewFiled
<1>12. QED
  BY <1>5, <1>7, <1>8, <1>10, <1>11 DEF FiledInv

\* A stored draft is replaced by one that names no ticket.
LEMMA LosesFiled ==
  ASSUME FiledInv, UNCHANGED <<rows, turn>>, NEW s, ~ Ticketed(drafts'[s]),
         \A u \in Sessions \ {s} : drafts'[u] = drafts[u],
         \A r \in Reviewers :
           review'[r] = review[r] \/ ~ Ticketed(review'[r].draft),
         TypeInv
  PROVE  FiledInv'
<1>1. \A u \in Sessions : \A d : Ordered(u, d, drafts) => Ordered(u, d, drafts')
  BY DEF Ordered
<1>2. ASSUME NEW t \in Turns, turn[t].at # "idle"
      PROVE  TurnFiled(t)'
  <2>1. turn[t].session \in Sessions /\ TurnFiled(t)
    BY <1>2 DEF FiledInv, TypeInv, TurnsTyped
  <2>2. Ticketed(drafts'[turn[t].session]) => Ticketed(drafts[turn[t].session])
    BY <2>1
  <2>3. StepFiled(turn[t], drafts'[turn[t].session], rows[turn[t].session])
    BY <1>2, <2>1, <2>2 DEF TurnFiled, StepFiled
  <2>4. StepLater(turn[t], turn[t].session, drafts', rows)
    BY <1>1, <1>2, <2>1 DEF TurnFiled, StepLater
  <2>5. QED
    BY <2>3, <2>4 DEF TurnFiled
<1>3. \A t \in Turns : TurnFiled(t)'
  BY <1>2 DEF TurnFiled
<1>4. \A u \in Sessions : SessionFiled(u)'
  BY <1>1 DEF FiledInv, SessionFiled
<1>5. \A r \in Reviewers : ReviewFiled(r)'
  BY DEF FiledInv, ReviewFiled
<1>6. QED
  BY <1>3, <1>4, <1>5 DEF FiledInv

LEMMA LoopStepFiled ==
  ASSUME TypeInv, TicketInv, SettledInv, Exclusive, FiledInv,
         NEW t \in Turns, LoopStep(t)
  PROVE  FiledInv'
<1>1. PICK s : s = turn[t].session
  OBVIOUS
<1>2. PICK e : e = drafts[s]
  OBVIOUS
<1>3. PICK d : d = turn[t].draft
  OBVIOUS
<1>4. turn[t] \in Turn /\ turn[t].at # "idle" /\ s \in Sessions
  BY <1>1 DEF TypeInv, TurnsTyped, LoopStep, Load, Clarify, Investigate, Nearest,
         Escalate, StartFiling, RefuseFiling, FileNew, FileDuplicate,
         RefuseLink, FilingFails, FilingUnanswered, FilingUnreadable, LinkMade,
         LinkFails, Index, LoopSave, At
<1>5. /\ turn[t].at # "arrived" => d \in Draft /\ d # NoDraft
      /\ e # NoDraft => e \in Draft
      /\ StepFiled(turn[t], e, rows[s]) /\ StepLater(turn[t], s, drafts, rows)
      /\ turn[t].at \in Unfiled => d.ticket = NoTicket
      /\ SessionFiled(s)
  BY <1>1, <1>2, <1>3, <1>4, ChatAssumption
     DEF TypeInv, TurnsTyped, TypeOK, ChatTypeOK, FiledInv, TurnFiled,
         TicketInv, TurnsTraced, TurnTraced, StepReady
<1>6. \* to the next await
      ASSUME turn[t].at \in LoopSteps, NEW step \in LoopSteps, NEW x,
             Goto(t, step, x), UNCHANGED <<drafts, review, rows>>,
             Serial /\ step \in {"score", "create"} /\ x.dup = NoDuplicate
               => Alone(s, rows),
             Serial /\ step \in {"link", "index", "loopSave"} /\ Ticketed(x)
               => Ordered(s, x, drafts),
             step = "loopSave" => ~ Ticketed(x)
      PROVE  FiledInv'
  <2>1. /\ turn'[t].at = step /\ turn'[t].draft = x /\ turn'[t].session = s
        /\ Others(t)
    BY <1>1, <1>6, GotoMoves
  <2>2. ~ Ticketed(e)
    BY <1>5, <1>6 DEF StepFiled
  <2>3. StepFiled(turn'[t], e, rows[s])
    BY <1>6, <2>1, <2>2 DEF StepFiled, LoopSteps, Storing
  <2>4. StepLater(turn'[t], s, drafts, rows)
    BY <1>6, <2>1 DEF StepLater, LoopSteps, Storing
  <2>5. QED
    BY <1>1, <1>2, <1>4, <1>6, <2>1, <2>3, <2>4, MovesFiled
<1>7. \* the request fails
      ASSUME Abort(t), UNCHANGED rows
      PROVE  FiledInv'
  <2>1. turn'[t].at = "idle" /\ Others(t)
    BY <1>7, ReleaseMoves DEF Abort
  <2>2. QED
    BY <1>7, <2>1, Untouched DEF Abort, store, Others, LoopSteps, Storing
<1>8. CASE Load(t)
  <2>1. turn[t].at = "arrived" /\ UNCHANGED <<drafts, review, rows>>
    BY <1>8 DEF Load, At, store, loopVars
  <2>2. PICK x : x = Absorbed(e)
    OBVIOUS
  <2>3. /\ e = NoDraft => x.status = "gathering_info"
        /\ e # NoDraft => /\ x.status = e.status /\ x.ticket = e.ticket
                          /\ x.dup = e.dup
    BY <1>5, <2>2 DEF Absorbed, Draft, NewDraft
  <2>4. CASE x.status \in Terminal
    <3>1. Return(t, x, "report")
      BY <1>1, <1>2, <1>8, <2>2, <2>4 DEF Load
    <3>2. /\ turn'[t].at = "chatSave" /\ turn'[t].draft = x
          /\ turn'[t].session = s /\ turn'[t].reply = "report" /\ Others(t)
      BY <1>1, <3>1, ReturnMoves
    <3>3. e # NoDraft /\ x.ticket = e.ticket /\ x.dup = e.dup
      BY <2>3, <2>4 DEF Terminal
    <3>4. Ticketed(x) => Ticketed(e)
      BY <3>3 DEF Ticketed
    <3>5. Ordered(s, e, drafts) => Ordered(s, x, drafts)
      BY <3>3 DEF Ordered, InOrder
    <3>6. Ticketed(x) => rows[s].ticket = x.ticket
                         /\ (Serial => Ordered(s, x, drafts))
      BY <1>2, <1>5, <3>3, <3>4, <3>5 DEF SessionFiled
    <3>7. StepFiled(turn'[t], e, rows[s]) /\ StepLater(turn'[t], s, drafts, rows)
      BY <3>2, <3>6 DEF StepFiled, StepLater, LoopSteps, Storing
    <3>8. QED
      BY <1>1, <1>2, <1>4, <2>1, <3>2, <3>7, MovesFiled
  <2>5. CASE x.status \notin Terminal
    <3>1. Goto(t, "classify", x)
      BY <1>1, <1>2, <1>8, <2>2, <2>5 DEF Load
    <3>2. /\ turn'[t].at = "classify" /\ turn'[t].session = s /\ Others(t)
      BY <1>1, <3>1, GotoMoves
    <3>3. ~ Ticketed(e)
      BY <1>2, <1>4, <2>3, <2>5
         DEF Ticketed, Terminal, TicketInv, DraftsTraced, Traced
    <3>4. StepFiled(turn'[t], e, rows[s]) /\ StepLater(turn'[t], s, drafts, rows)
      BY <3>2, <3>3 DEF StepFiled, StepLater, LoopSteps, Storing
    <3>5. QED
      BY <1>1, <1>2, <1>4, <2>1, <3>2, <3>4, MovesFiled
  <2>6. QED
    BY <2>4, <2>5
<1>9. ASSUME turn[t].at = "classify",
             NEW c \in Categories, NEW found \in SUBSET Fields
      PROVE  /\ Classified(d, c, found) \in Draft
             /\ Classified(d, c, found).ticket = NoTicket
  BY <1>5, <1>9, DraftChanges DEF Classified, Draft, Unfiled
<1>10. ASSUME NEW c \in Categories, NEW found \in SUBSET Fields,
              Clarify(t, c, found)
       PROVE  FiledInv'
  <2>1. PICK k : k = Classified(d, c, found)
    OBVIOUS
  <2>2. turn[t].at = "classify" /\ UNCHANGED <<drafts, review, rows>>
    BY <1>10 DEF Clarify, At, store, loopVars
  <2>3. PICK y : y = [k EXCEPT !.status = "gathering_info"]
    OBVIOUS
  <2>4. y.ticket = NoTicket
    BY <1>9, <2>1, <2>2, <2>3 DEF Draft
  <2>5. PICK x : x = [turn[t] EXCEPT !.at = "loopSave", !.reply = "question",
                                     !.draft = y]
    OBVIOUS
  <2>6. x.at = "loopSave" /\ x.draft = y /\ x.session = s
    BY <1>1, <1>4, <2>5 DEF Turn
  <2>7. turn' = [turn EXCEPT ![t] = x]
    BY <1>3, <1>10, <2>1, <2>3, <2>5 DEF Clarify
  <2>8. turn'[t] = x /\ Others(t)
    BY <2>7, Replaced
  <2>9. ~ Ticketed(e)
    BY <1>5, <2>2 DEF StepFiled, LoopSteps
  <2>10. StepFiled(x, e, rows[s]) /\ StepLater(x, s, drafts, rows)
    BY <2>4, <2>6, <2>9 DEF StepFiled, StepLater, LoopSteps, Storing, Ticketed
  <2>11. QED
    BY <1>1, <1>2, <1>4, <2>2, <2>6, <2>8, <2>10, MovesFiled
<1>11. ASSUME NEW c \in Categories, NEW found \in SUBSET Fields,
              Investigate(t, c, found)
       PROVE  FiledInv'
  BY <1>6, <1>11 DEF Investigate, At, LoopSteps, store
<1>12. CASE Nearest(t)
  <2>1. turn[t].at = "nearest" /\ UNCHANGED <<drafts, review, rows>>
    BY <1>12 DEF Nearest, At, store, loopVars
  <2>2. PICK near : near = Neighbours(s)
    OBVIOUS
  <2>3. PICK ref \in IF near = {} THEN {NoDuplicate}
                                 ELSE {DuplicateRef(n) : n \in near} :
          Goto(t, "score", [d EXCEPT !.dup = ref])
    BY <1>1, <1>3, <1>12, <2>2 DEF Nearest
  <2>4. PICK x : x = [d EXCEPT !.dup = ref]
    OBVIOUS
  <2>5. x.dup = ref
    BY <1>5, <2>1, <2>4 DEF Draft
  <2>6. near = {} => Alone(s, rows)
    BY <2>2 DEF Neighbours, Alone
  <2>7. near # {} => ref # NoDuplicate
    <3> SUFFICES ASSUME NEW n \in near
        PROVE  DuplicateRef(n) # NoDuplicate
      BY <2>3
    <3>1. n \in Sessions /\ rows[n].ticket \in Nat
      BY <2>2 DEF Neighbours, TypeInv, TypeOK
    <3>2. QED
      BY <3>1, DraftAssumption DEF DuplicateRef
  <2>8. QED
    BY <1>6, <2>1, <2>3, <2>4, <2>5, <2>6, <2>7 DEF LoopSteps
<1>13. ASSUME turn[t].at = "score", NEW score, NEW x, x = Scored(d, score)
       PROVE  x \in Draft /\ x.dup = d.dup /\ x.ticket = NoTicket
  <2>1. d \in Draft /\ x \in Draft /\ d.ticket = NoTicket
    BY <1>5, <1>13, DraftChanges DEF Unfiled
  <2>2. QED
    BY <1>13, <2>1 DEF Scored, Draft
<1>14. ASSUME NEW score \in Scores, Escalate(t, score)
       PROVE  FiledInv'
  <2>1. PICK y : y = Scored(d, score)
    OBVIOUS
  <2>2. PICK x : x = [y EXCEPT !.status = "escalated"]
    OBVIOUS
  <2>3. turn[t].at = "score" /\ UNCHANGED <<drafts, review, rows>>
        /\ Goto(t, "index", x)
    BY <1>3, <1>14, <2>1, <2>2 DEF Escalate, At, store, loopVars
  <2>4. ~ Ticketed(x)
    BY <1>13, <2>1, <2>2, <2>3 DEF Draft, Ticketed
  <2>5. QED
    BY <1>6, <2>3, <2>4 DEF LoopSteps
<1>15. ASSUME NEW score \in Scores, StartFiling(t, score)
       PROVE  FiledInv'
  <2>1. PICK x : x = Scored(d, score)
    OBVIOUS
  <2>2. turn[t].at = "score" /\ UNCHANGED <<drafts, review, rows>>
        /\ Goto(t, "create", x)
    BY <1>3, <1>15, <2>1 DEF StartFiling, At, store
  <2>3. Serial /\ x.dup = NoDuplicate => Alone(s, rows)
    BY <1>3, <1>5, <1>13, <2>1, <2>2 DEF StepLater
  <2>4. QED
    BY <1>6, <2>2, <2>3 DEF LoopSteps
<1>16. ASSUME NEW score \in Scores, RefuseFiling(t, score)
       PROVE  FiledInv'
  BY <1>7, <1>16 DEF RefuseFiling, loopVars
<1>17. \* the tracker has answered; tickets stored earlier are older
       ASSUME turn[t].at = "create", Serial,
              NEW x, x = Filed(d)
       PROVE  Ordered(s, x, drafts)
  <2> SUFFICES ASSUME NEW u \in Sessions \ {s}, TopicOf[u] = TopicOf[s],
                      Ticketed(drafts[u])
      PROVE  InOrder(x, drafts[u]) /\ InOrder(drafts[u], x)
    BY DEF Ordered
  <2>1. x.ticket = Len(tickets) + 1 /\ x.dup = d.dup
    BY <1>5, <1>17 DEF Filed, Draft
  <2>2. /\ drafts[u].ticket \in DOMAIN tickets
        /\ drafts[u].status = "filed"
    BY DEF Ticketed, TicketInv, DraftsTraced, Traced, Names
  <2>3. Len(tickets) \in Nat /\ DOMAIN tickets = 1..Len(tickets)
    BY DEF TypeInv, TypeOK
  <2>4. InOrder(x, drafts[u])
    BY <2>1, <2>2, <2>3 DEF InOrder
  <2>5. rows[u].present
    BY <2>2 DEF SettledInv, DraftsSettled, Settled, Waiting, Ticketed
  <2>6. ~ Alone(s, rows)
    BY <2>5 DEF Alone
  <2>7. d.dup # NoDuplicate
    BY <1>3, <1>5, <1>17, <2>6 DEF StepLater
  <2>8. QED
    BY <2>1, <2>4, <2>7 DEF InOrder
<1>18. CASE FileNew(t)
  BY <1>3, <1>6, <1>17, <1>18 DEF FileNew, At, LoopSteps, store
<1>19. CASE FileDuplicate(t)
  BY <1>3, <1>6, <1>17, <1>19 DEF FileDuplicate, At, LoopSteps, store
<1>20. CASE RefuseLink(t)
  BY <1>7, <1>20 DEF RefuseLink
<1>21. ASSUME turn[t].at = "create", UNCHANGED <<drafts, review, rows>>,
              Goto(t, "index", [d EXCEPT !.status = "escalated"])
       PROVE  FiledInv'
  <2>1. PICK x : x = [d EXCEPT !.status = "escalated"]
    OBVIOUS
  <2>2. ~ Ticketed(x)
    BY <1>5, <1>21, <2>1 DEF Draft, Ticketed, Unfiled
  <2>3. QED
    BY <1>6, <1>21, <2>1, <2>2 DEF LoopSteps
<1>22. CASE FilingFails(t)
  BY <1>3, <1>21, <1>22 DEF FilingFails, At, store, loopVars
<1>23. CASE FilingUnanswered(t)
  BY <1>3, <1>21, <1>23 DEF FilingUnanswered, At, store
<1>24. CASE FilingUnreadable(t)
  BY <1>7, <1>24 DEF FilingUnreadable
<1>25. CASE LinkMade(t) \/ LinkFails(t)
  <2>1. turn[t].at = "link" /\ UNCHANGED <<drafts, review, rows>>
        /\ Goto(t, "index", d)
    BY <1>3, <1>25 DEF LinkMade, LinkFails, At, store, loopVars
  <2>2. Serial /\ Ticketed(d) => Ordered(s, d, drafts)
    BY <1>3, <1>5, <2>1 DEF StepLater
  <2>3. QED
    BY <1>6, <2>1, <2>2 DEF LoopSteps
<1>26. CASE Index(t)
  <2>1. PICK row : row = RowOf(d)
    OBVIOUS
  <2>2. /\ turn[t].at = "index" /\ UNCHANGED <<drafts, review>>
        /\ Goto(t, "loopSave", d) /\ rows' = [rows EXCEPT ![s] = row]
    BY <1>1, <1>3, <1>26, <2>1 DEF Index, At, store, Upserted
  <2>3. row.ticket = d.ticket
    BY <2>1 DEF RowOf
  <2>4. rows'[s] = row /\ \A u \in Sessions \ {s} : rows'[u] = rows[u]
    BY <1>4, <2>2 DEF TypeInv, TypeOK
  <2>5. /\ turn'[t].at = "loopSave" /\ turn'[t].draft = d
        /\ turn'[t].session = s /\ Others(t)
    BY <1>1, <2>2, GotoMoves
  <2>6. ~ Ticketed(e) /\ drafts'[s] = e
    BY <1>2, <1>5, <2>2 DEF StepFiled, LoopSteps
  <2>7. StepFiled(turn'[t], e, row)
    BY <2>3, <2>5, <2>6 DEF StepFiled, LoopSteps, Storing
  <2>8. StepLater(turn'[t], s, drafts, rows)
    BY <1>3, <1>5, <2>2, <2>5 DEF StepLater, LoopSteps, Storing
  <2>9. QED
    BY <1>1, <1>4, <2>2, <2>4, <2>5, <2>6, <2>7, <2>8, WritesFiled
<1>27. CASE LoopSave(t)
  <2>1. PICK reply : reply = IF d.status = "gathering_info" THEN "question"
                                                            ELSE "verdict"
    OBVIOUS
  <2>2. /\ turn[t].at = "loopSave" /\ UNCHANGED <<rows, review>>
        /\ drafts' = [drafts EXCEPT ![s] = d] /\ Return(t, d, reply)
    BY <1>1, <1>3, <1>27, <2>1 DEF LoopSave, At, loopVars
  <2>3. /\ turn'[t].at = "chatSave" /\ turn'[t].draft = d
        /\ turn'[t].session = s /\ turn'[t].reply = reply /\ Others(t)
    BY <1>1, <2>2, ReturnMoves
  <2>4. drafts'[s] = d /\ \A u \in Sessions \ {s} : drafts'[u] = drafts[u]
    BY <1>4, <2>2 DEF TypeInv, TypeOK, ChatTypeOK
  <2>5. Ticketed(d) => rows[s].ticket = d.ticket
                       /\ (Serial => Ordered(s, d, drafts))
    BY <1>3, <1>5, <2>2 DEF StepFiled, StepLater, Storing
  <2>6. StepFiled(turn'[t], d, rows[s]) /\ StepLater(turn'[t], s, drafts, rows)
    BY <2>3, <2>5 DEF StepFiled, StepLater, LoopSteps, Storing
  <2>7. QED
    BY <1>1, <1>4, <2>2, <2>3, <2>4, <2>5, <2>6, WritesFiled
<1>28. QED
  BY <1>8, <1>10, <1>11, <1>12, <1>14, <1>15, <1>16, <1>18, <1>19, <1>20, <1>22,
     <1>23, <1>24, <1>25, <1>26, <1>27 DEF LoopStep

LEMMA TransportStepFiled ==
  ASSUME TypeInv, Exclusive, FiledInv, NEW t \in Turns, TransportStep(t)
  PROVE  FiledInv'
<1>1. UNCHANGED <<rows, review>>
  BY DEF TransportStep, Transport, ChatSave, LogUser, LogReply, Register, loopVars
<1>2. turn[t] \in Turn
  BY DEF TypeInv, TurnsTyped
<1>3. \* to an await that waits for no draft
      ASSUME NEW step \in {"logReply", "register"},
             turn' = [turn EXCEPT ![t].at = step], UNCHANGED drafts
      PROVE  FiledInv'
  <2>1. PICK x : x = [turn[t] EXCEPT !.at = step]
    OBVIOUS
  <2>2. turn' = [turn EXCEPT ![t] = x] /\ x.at = step
    BY <1>2, <1>3, <2>1 DEF Turn
  <2>3. turn'[t] = x /\ Others(t)
    BY <2>2, Replaced
  <2>4. QED
    BY <1>1, <1>3, <2>2, <2>3, Untouched DEF Others, LoopSteps, Storing
<1>4. CASE ChatSave(t)
  <2>1. PICK s : s = turn[t].session
    OBVIOUS
  <2>2. PICK d : d = turn[t].draft
    OBVIOUS
  <2>3. PICK reply : turn' = [turn EXCEPT ![t].at = "logUser", ![t].reply = reply]
    BY <1>4 DEF ChatSave
  <2>4. PICK x : x = [turn[t] EXCEPT !.at = "logUser", !.reply = reply]
    OBVIOUS
  <2>5. turn' = [turn EXCEPT ![t] = x] /\ x.at = "logUser" /\ x.session = s
    BY <1>2, <2>1, <2>3, <2>4 DEF Turn
  <2>6. turn'[t] = x /\ Others(t)
    BY <2>5, Replaced
  <2>7. turn[t].at = "chatSave" /\ turn[t].at # "idle" /\ s \in Sessions
        /\ drafts' = [drafts EXCEPT ![s] = d]
    BY <1>4, <2>1, <2>2 DEF ChatSave, At, TypeInv, TurnsTyped
  <2>8. drafts'[s] = d /\ \A u \in Sessions \ {s} : drafts'[u] = drafts[u]
    BY <2>7 DEF TypeInv, TypeOK, ChatTypeOK
  <2>9. Ticketed(d) => rows[s].ticket = d.ticket
                       /\ (Serial => Ordered(s, d, drafts))
    BY <2>1, <2>2, <2>7
       DEF FiledInv, TurnFiled, StepFiled, StepLater, Storing
  <2>10. StepFiled(x, d, rows[s]) /\ StepLater(x, s, drafts, rows)
    BY <2>5 DEF StepFiled, StepLater, LoopSteps, Storing
  <2>11. QED
    BY <1>1, <2>1, <2>5, <2>6, <2>7, <2>8, <2>9, <2>10, WritesFiled
<1>5. CASE LogUser(t) \/ LogReply(t)
  BY <1>3, <1>5 DEF LogUser, LogReply
<1>6. CASE Register(t)
  <2>1. turn'[t].at = "idle" /\ Others(t) /\ UNCHANGED drafts
    BY <1>6, ReleaseMoves DEF Register
  <2>2. QED
    BY <1>1, <2>1, Untouched DEF Others, LoopSteps, Storing
<1>7. QED
  BY <1>4, <1>5, <1>6 DEF TransportStep, Transport

LEMMA NextFiled ==
  ASSUME TypeInv, TicketInv, SettledInv, Exclusive, FiledInv, [Next]_vars
  PROVE  FiledInv'
<1>1. CASE UNCHANGED vars
  BY <1>1, Untouched DEF vars, chatVars, loopVars
<1>2. CASE Reporter /\ UNCHANGED loopVars
  <2>1. ASSUME NEW s \in Sessions, NEW t \in Turns, Post(s, t)
        PROVE  FiledInv'
    <3>1. PICK x : x = [IdleTurn EXCEPT !.at = "arrived", !.session = s]
      OBVIOUS
    <3>2. turn' = [turn EXCEPT ![t] = x] /\ x.at = "arrived"
      BY <2>1, <3>1 DEF Post, IdleTurn
    <3>3. turn'[t] = x /\ Others(t)
      BY <3>2, Replaced
    <3>4. QED
      BY <1>2, <2>1, <3>2, <3>3, Untouched
         DEF Post, store, loopVars, Others, LoopSteps, Storing
  <2>2. ASSUME NEW s \in Sessions, Reload(s) \/ Abandon(s)
        PROVE  FiledInv'
    BY <1>2, <2>2, Untouched DEF Reload, Abandon, store, loopVars
  <2>3. QED
    BY <1>2, <2>1, <2>2 DEF Reporter
<1>3. ASSUME NEW r \in Reviewers, NEW s \in Sessions, NEW v \in Terminal,
             ReviewRead(r, s, v), UNCHANGED loopVars
      PROVE  FiledInv'
  <2>1. PICK d : d = [drafts[s] EXCEPT !.status = v]
    OBVIOUS
  <2>2. drafts[s] \in Draft /\ drafts[s] # NoDraft
        /\ drafts[s].status = "escalated"
    BY <1>3 DEF ReviewRead, Reviewable, TypeInv, TypeOK, ChatTypeOK
  <2>3. d.ticket = drafts[s].ticket /\ drafts[s].ticket = NoTicket
    BY <2>1, <2>2 DEF Draft, TicketInv, DraftsTraced, Traced
  <2>4. PICK x : x = [session |-> s, draft |-> d]
    OBVIOUS
  <2>5. review' = [review EXCEPT ![r] = x] /\ UNCHANGED <<drafts, turn, rows>>
    BY <1>3, <2>1, <2>4 DEF ReviewRead, store, loopVars
  <2>6. review'[r] = x /\ \A q \in Reviewers \ {r} : review'[q] = review[q]
    BY <2>5 DEF TypeInv, TypeOK, ChatTypeOK
  <2>7. ~ Ticketed(review'[r].draft)
    BY <2>3, <2>4, <2>6 DEF Ticketed
  <2>8. QED
    BY <2>5, <2>6, <2>7, Untouched
<1>4. ASSUME NEW r \in Reviewers, ReviewWrite(r), UNCHANGED loopVars
      PROVE  FiledInv'
  <2>1. PICK s : s = review[r].session
    OBVIOUS
  <2>2. PICK d : d = review[r].draft
    OBVIOUS
  <2>3. /\ drafts' = [drafts EXCEPT ![s] = d] /\ UNCHANGED <<rows, turn>>
        /\ review' = [review EXCEPT ![r] = NoReview] /\ d # NoDraft
    BY <1>4, <2>1, <2>2 DEF ReviewWrite, loopVars
  <2>4. s \in Sessions
    BY <2>1, <2>2, <2>3 DEF TypeInv, ReviewsTyped
  <2>5. drafts'[s] = d /\ \A u \in Sessions \ {s} : drafts'[u] = drafts[u]
    BY <2>3, <2>4 DEF TypeInv, TypeOK, ChatTypeOK
  <2>6. ~ Ticketed(d)
    BY <2>2 DEF FiledInv, ReviewFiled
  <2>7. /\ review'[r] = NoReview
        /\ \A q \in Reviewers \ {r} : review'[q] = review[q]
    BY <2>3 DEF TypeInv, TypeOK, ChatTypeOK
  <2>8. ~ Ticketed(review'[r].draft)
    BY <2>7 DEF NoReview, Ticketed
  <2>9. QED
    BY <2>3, <2>5, <2>6, <2>7, <2>8, LosesFiled
<1>5. ASSUME NEW s \in Sessions, Expire(s), UNCHANGED loopVars
      PROVE  FiledInv'
  <2>1. /\ UNCHANGED <<rows, turn, review>>
        /\ drafts'[s] = NoDraft
        /\ \A u \in Sessions \ {s} : drafts'[u] = drafts[u]
    BY <1>5 DEF Expire, loopVars, TypeInv, TypeOK, ChatTypeOK
  <2>2. QED
    BY <2>1, LosesFiled DEF Ticketed
<1>6. ASSUME NEW t \in Turns, Fail(t)
      PROVE  FiledInv'
  <2>1. turn'[t].at = "idle" /\ Others(t)
    BY <1>6, ReleaseMoves DEF Fail, Abort
  <2>2. QED
    BY <1>6, <2>1, Untouched
       DEF Fail, Abort, store, loopVars, Others, LoopSteps, Storing
<1>7. ASSUME NEW i \in Instances, Crash(i)
      PROVE  FiledInv'
  <2>1. \A t \in Turns : turn'[t] = turn[t] \/ turn'[t].at = "idle"
    BY <1>7 DEF Crash, IdleTurn
  <2>2. QED
    BY <1>7, <2>1, Untouched DEF Crash, store, LoopSteps, Storing
<1>8. CASE Next
  BY <1>2, <1>3, <1>4, <1>5, <1>6, <1>7, <1>8, LoopStepFiled, TransportStepFiled
     DEF Next, Admin
<1>9. QED
  BY <1>1, <1>8

LEMMA InitFiled == ASSUME Init PROVE FiledInv
BY DEF Init, ChatInit, IdleTurn, NoReview, Ticketed, FiledInv, TurnFiled,
       SessionFiled, ReviewFiled

\* The index leads a later duplicate to the live ticket: while pages wait before
\* they post again, the row of a conversation names the ticket its stored draft
\* names, although the row is written first and a turn may die in between
\* (loop.py _index, _save).
THEOREM IndexIsLive ==
  ASSUME Patient
  PROVE  Spec => []IndexNamesLiveTicket
<1>1. PatientInv => Exclusive
  BY DEF PatientInv, TurnPatient, Exclusive
<1>2. TypeInv /\ TicketInv /\ SettledInv /\ PatientInv /\ FiledInv /\ [Next]_vars
        => FiledInv'
  BY <1>1, NextFiled
<1>3. Init => FiledInv
  BY InitFiled
<1>4. FiledInv => IndexNamesLiveTicket
  BY DEF FiledInv, SessionFiled, Ticketed, IndexNamesLiveTicket
<1>5. QED
  BY <1>2, <1>3, <1>4, TicketInvAlways, PatientInvAlways, PTL DEF Spec

\* When requests are served one at a time, the later of two filed on one topic
\* is recognised as a duplicate whatever fails, dies, expires or is reviewed:
\* no earlier ticket is stored before its row is in the index (loop.py:138-143,
\* dedup.py).
THEOREM DuplicatesRecognised ==
  ASSUME Serial
  PROVE  Spec => []LaterDuplicateRecognised
<1>1. Exclusive
  BY DEF Exclusive, Serial
<1>2. TypeInv /\ TicketInv /\ SettledInv /\ FiledInv /\ [Next]_vars => FiledInv'
  BY <1>1, NextFiled
<1>3. Init => FiledInv
  BY InitFiled
<1>4. TypeInv /\ FiledInv => LaterDuplicateRecognised
  <2> SUFFICES ASSUME TypeInv, FiledInv, NEW s \in Sessions, NEW u \in Sessions,
                      s # u, TopicOf[s] = TopicOf[u],
                      drafts[s] # NoDraft, drafts[u] # NoDraft,
                      NoTicket < drafts[s].ticket,
                      drafts[s].ticket < drafts[u].ticket
      PROVE  drafts[u].dup # NoDuplicate
    BY DEF LaterDuplicateRecognised
  <2>1. drafts[s] \in Draft /\ drafts[u] \in Draft
    BY DEF TypeInv, TypeOK, ChatTypeOK
  <2>2. drafts[s].ticket \in Nat /\ drafts[u].ticket \in Nat
    BY <2>1 DEF Draft
  <2>3. Ticketed(drafts[s]) /\ Ticketed(drafts[u])
    BY <2>2 DEF Ticketed, NoTicket
  <2>4. QED
    BY <2>3 DEF FiledInv, SessionFiled, Ordered, InOrder
<1>5. QED
  BY <1>2, <1>3, <1>4, TypeInvAlways, TicketInvAlways, SettledInvAlways, PTL
     DEF Spec
=============================================================================
