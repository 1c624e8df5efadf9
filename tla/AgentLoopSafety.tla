--------------------------- MODULE AgentLoopSafety ---------------------------
(***************************************************************************)
(* What the agent loop holds whatever the environment does, for every      *)
(* value of the constants: whatever turns fail, die, overlap or overwrite  *)
(* each other, and however late a review is written.                       *)
(*                                                                         *)
(* Its state is well typed, the tickets its drafts and rows name are       *)
(* traced, and what is stored is settled. A turn never goes back, so that  *)
(* it ends, and no page waits for one that has ended. A message opens at   *)
(* most one issue and has at most one reply, and a draft that is a         *)
(* duplicate names something a reviewer can find.                          *)
(***************************************************************************)
EXTENDS AgentLoop, SequenceTheorems, TLAPS, FiniteSetTheorems

-----------------------------------------------------------------------------
(***************************************************************************)
(* Type correctness.                                                       *)
(***************************************************************************)

\* A turn under way has a session, and a draft once it has read the store.
TurnsTyped ==
  /\ turn \in [Turns -> Turn]
  /\ \A t \in Turns :
       /\ turn[t].at # "idle" => turn[t].session \in Sessions
       /\ turn[t].at \notin {"idle", "arrived"} => turn[t].draft \in Draft
       /\ turn[t].draft # NoDraft => turn[t].session \in Sessions

\* A review between its read and its write has a session.
ReviewsTyped ==
  /\ review \in [Reviewers -> Review]
  /\ \A r \in Reviewers :
       review[r].draft # NoDraft => review[r].session \in Sessions

TypeInv == TypeOK /\ TurnsTyped /\ ReviewsTyped

-----------------------------------------------------------------------------
\* What the loop makes of a draft is a draft.

LEMMA DraftChanges ==
  ASSUME NEW d \in Draft
  PROVE  /\ \A x \in Status : [d EXCEPT !.status = x] \in Draft
         /\ \A x \in Refs : [d EXCEPT !.dup = x] \in Draft
         /\ [d EXCEPT !.round = @ + 1] \in Draft
         /\ \A c \in Categories, found \in SUBSET Fields :
              Classified(d, c, found) \in Draft
         /\ \A score : Scored(d, score) \in Draft
         /\ tickets \in Seq([by : Sessions, link : Nat]) => Filed(d) \in Draft
<1>1. \A x \in Status : [d EXCEPT !.status = x] \in Draft
  BY DEF Draft
<1>2. \A x \in Refs : [d EXCEPT !.dup = x] \in Draft
  BY DEF Draft
<1>3. [d EXCEPT !.round = @ + 1] \in Draft
  BY DEF Draft
<1>4. \A c \in Categories, found \in SUBSET Fields :
        Classified(d, c, found) \in Draft
  BY DEF Draft, Classified
<1>5. \A score : Scored(d, score) \in Draft
  BY DEF Draft, Scored, DecideRouting, Status
<1>6. tickets \in Seq([by : Sessions, link : Nat]) => Filed(d) \in Draft
  <2> HAVE tickets \in Seq([by : Sessions, link : Nat])
  <2>1. Len(tickets) + 1 \in Nat
    OBVIOUS
  <2>2. \A k \in Nat : [d EXCEPT !.ticket = k, !.status = "filed"] \in Draft
    BY DEF Draft, Status
  <2>3. QED
    BY <2>1, <2>2 DEF Filed
<1>7. QED
  BY <1>1, <1>2, <1>3, <1>4, <1>5, <1>6

LEMMA NewDraftTyped == NewDraft \in Draft
BY DEF NewDraft, Draft, Status, Refs, NoTicket

-----------------------------------------------------------------------------
\* The three ways a turn moves keep the turns typed.

LEMMA GotoTyped ==
  ASSUME TypeInv, NEW t \in Turns, ~ At(t, "idle"),
         NEW step \in Steps \ {"idle"}, NEW d \in Draft, Goto(t, step, d)
  PROVE  TurnsTyped'
BY DEF TypeInv, TurnsTyped, Goto, At, Turn

LEMMA ReturnTyped ==
  ASSUME TypeInv, NEW t \in Turns, ~ At(t, "idle"),
         NEW d \in Draft, NEW reply \in Replies, Return(t, d, reply)
  PROVE  TurnsTyped'
<1>1. /\ turn \in [Turns -> Turn] /\ turn[t] \in Turn
      /\ turn[t].session \in Sessions
  BY DEF TypeInv, TurnsTyped, At
<1>2. PICK x : x = [turn[t] EXCEPT !.at = "chatSave", !.draft = d, !.reply = reply]
  OBVIOUS
<1>3. x \in Turn /\ x.session \in Sessions /\ x.draft = d
  BY <1>1, <1>2 DEF Turn, Steps
<1>4. turn' = [turn EXCEPT ![t] = x]
  BY <1>1, <1>2 DEF Return
<1>5. turn'[t] = x /\ \A u \in Turns \ {t} : turn'[u] = turn[u]
  BY <1>1, <1>4
<1>6. turn' \in [Turns -> Turn]
  BY <1>1, <1>3, <1>4
<1>7. QED
  BY <1>3, <1>5, <1>6 DEF TypeInv, TurnsTyped

LEMMA IdleTurnTyped == IdleTurn \in Turn
BY DEF IdleTurn, Turn, Steps, Replies

LEMMA ReleaseTyped ==
  ASSUME TypeInv, NEW t \in Turns, NEW p \in {"ready", "locked"}, Release(t, p)
  PROVE  /\ TurnsTyped'
         /\ page' \in [Sessions -> {"ready", "locked"} \cup Turns]
<1>1. TurnsTyped'
  <2>1. turn' \in [Turns -> Turn]
    BY IdleTurnTyped DEF TypeInv, TurnsTyped, Release
  <2>2. \A u \in Turns : turn'[u] = IF u = t THEN IdleTurn ELSE turn[u]
    BY DEF TypeInv, TurnsTyped, Release
  <2>3. QED
    BY <2>1, <2>2 DEF TypeInv, TurnsTyped, IdleTurn
<1>2. page' \in [Sessions -> {"ready", "locked"} \cup Turns]
  BY DEF TypeInv, TypeOK, ChatTypeOK, Release
<1>3. QED
  BY <1>1, <1>2

-----------------------------------------------------------------------------
LEMMA InitTypeInv == Init => TypeInv
<1> SUFFICES ASSUME Init PROVE TypeInv
  OBVIOUS
<1> USE DEF Init, ChatInit
<1>1. TurnsTyped
  BY IdleTurnTyped, ChatAssumption DEF TurnsTyped, IdleTurn
<1>2. ReviewsTyped
  BY DEF ReviewsTyped, Review, NoReview
<1>3. TypeOK
  BY <1>1, <1>2, ChatAssumption, LoopAssumption
     DEF TypeOK, ChatTypeOK, NoRow, NoTicket, TurnsTyped, ReviewsTyped
<1>4. QED
  BY <1>1, <1>2, <1>3 DEF TypeInv

-----------------------------------------------------------------------------
\* The loop's own steps.

LEMMA LoopStepTypeInv ==
  ASSUME TypeInv, NEW t \in Turns, LoopStep(t)
  PROVE  TypeInv'
<1>1. /\ ~ At(t, "idle") => turn[t].session \in Sessions
      /\ turn[t].at \notin {"idle", "arrived"} => turn[t].draft \in Draft
  BY DEF TypeInv, TurnsTyped, At
<1>2. Home[t] \in Instances
  BY LoopAssumption
<1>3. CASE Load(t)
  <2> DEFINE d == Absorbed(drafts[turn[t].session])
  <2>1. d \in Draft
    <3>1. drafts[turn[t].session] \in Draft \cup {NoDraft}
      BY <1>1, <1>3 DEF Load, At, TypeInv, TypeOK, ChatTypeOK
    <3>2. QED
      BY <3>1, DraftChanges, NewDraftTyped DEF Absorbed
  <2>2. ~ At(t, "idle")
    BY <1>3 DEF Load, At
  <2>3. TurnsTyped'
    <3>1. CASE Return(t, d, "report")
      BY <3>1, <2>1, <2>2, ReturnTyped DEF Replies, Verdicts
    <3>2. CASE Goto(t, "classify", d)
      BY <3>2, <2>1, <2>2, GotoTyped DEF Steps, LoopSteps
    <3>3. QED
      BY <3>1, <3>2, <1>3 DEF Load
  <2>4. QED
    BY <2>3, <1>3 DEF Load, TypeInv, TypeOK, ChatTypeOK, ReviewsTyped,
                      TurnsTyped, store, loopVars
<1>4. ASSUME NEW c \in Categories, NEW found \in SUBSET Fields,
             Clarify(t, c, found)
      PROVE  TypeInv'
  <2> DEFINE d == Classified(turn[t].draft, c, found)
             e == [d EXCEPT !.status = "gathering_info"]
  <2>1. e \in Draft
    BY <1>1, <1>4, DraftChanges DEF Clarify, At, Status
  <2>2. turn[t].at = "classify" /\ turn[t].session \in Sessions
    BY <1>1, <1>4 DEF Clarify, At
  <2>3. turn' = [turn EXCEPT ![t].at = "loopSave", ![t].reply = "question",
                             ![t].draft = e]
    BY <1>4 DEF Clarify
  <2> HIDE DEF e, d
  <2> DEFINE x == [turn[t] EXCEPT !.at = "loopSave", !.reply = "question",
                                  !.draft = e]
  <2>4. TurnsTyped'
    <3>1. turn' = [turn EXCEPT ![t] = x]
      BY <2>3
    <3>2. x \in Turn /\ x.session \in Sessions /\ x.draft \in Draft
      BY <2>1, <2>2 DEF TypeInv, TurnsTyped, Turn, Steps, LoopSteps, Replies,
                        Questions
    <3> HIDE DEF x
    <3>3. QED
      BY <3>1, <3>2 DEF TypeInv, TurnsTyped
  <2>5. QED
    BY <2>4, <1>4 DEF Clarify, TypeInv, TypeOK, ChatTypeOK, ReviewsTyped,
                      TurnsTyped, store, loopVars
<1>5. ASSUME NEW c \in Categories, NEW found \in SUBSET Fields,
             Investigate(t, c, found)
      PROVE  TypeInv'
  <2> DEFINE d == Classified(turn[t].draft, c, found)
             e == [d EXCEPT !.status = "investigating"]
  <2>1. e \in Draft
    BY <1>1, <1>5, DraftChanges DEF Investigate, At, Status
  <2>2. TurnsTyped'
    BY <2>1, <1>5, GotoTyped DEF Investigate, At, Steps, LoopSteps
  <2>3. calls' \in [Instances -> 0..MaxToolCalls]
    BY <1>2, <1>5, LoopAssumption DEF Investigate, Reset, TypeInv, TypeOK
  <2>4. QED
    BY <2>2, <2>3, <1>5 DEF Investigate, TypeInv, TypeOK, ChatTypeOK,
                            ReviewsTyped, TurnsTyped, store
<1>6. CASE Nearest(t)
  <2> DEFINE near == Neighbours(turn[t].session)
  <2>1. PICK ref \in IF near = {} THEN {NoDuplicate}
                     ELSE {DuplicateRef(n) : n \in near} :
          Goto(t, "score", [turn[t].draft EXCEPT !.dup = ref])
    BY <1>6 DEF Nearest
  <2>2. ref \in Refs
    <3>1. \A n \in near : DuplicateRef(n) \in Refs
      <4> TAKE n \in near
      <4>1. n \in Sessions
        BY DEF Neighbours
      <4>2. rows[n].ticket \in Nat
        BY <4>1 DEF TypeInv, TypeOK
      <4>3. QED
        BY <4>1, <4>2 DEF Refs, DuplicateRef
    <3>2. NoDuplicate \in Refs
      BY DEF Refs
    <3>3. CASE near = {}
      BY <2>1, <3>2, <3>3
    <3>4. CASE near # {}
      <4>1. PICK n \in near : ref = DuplicateRef(n)
        BY <2>1, <3>4
      <4>2. QED
        BY <4>1, <3>1
    <3>5. QED
      BY <3>3, <3>4
  <2>3. [turn[t].draft EXCEPT !.dup = ref] \in Draft
    BY <2>2, <1>1, <1>6, DraftChanges DEF Nearest, At
  <2>4. TurnsTyped'
    BY <2>1, <2>3, <1>6, GotoTyped DEF Nearest, At, Steps, LoopSteps
  <2>5. QED
    BY <2>4, <1>6 DEF Nearest, TypeInv, TypeOK, ChatTypeOK, ReviewsTyped,
                      TurnsTyped, store, loopVars
<1>7. ASSUME NEW score \in Scores, Escalate(t, score)
      PROVE  TypeInv'
  <2>1. [Scored(turn[t].draft, score) EXCEPT !.status = "escalated"] \in Draft
    BY <1>1, <1>7, DraftChanges DEF Escalate, At, Status
  <2>2. TurnsTyped'
    BY <2>1, <1>7, GotoTyped DEF Escalate, At, Steps, LoopSteps
  <2>3. QED
    BY <2>2, <1>7 DEF Escalate, TypeInv, TypeOK, ChatTypeOK, ReviewsTyped,
                      TurnsTyped, store, loopVars
<1>8. ASSUME NEW score \in Scores, StartFiling(t, score)
      PROVE  TypeInv'
  <2>1. Scored(turn[t].draft, score) \in Draft
    BY <1>1, <1>8, DraftChanges DEF StartFiling, At
  <2>2. TurnsTyped'
    BY <2>1, <1>8, GotoTyped DEF StartFiling, At, Steps, LoopSteps
  <2>3. calls' \in [Instances -> 0..MaxToolCalls]
    BY <1>2, <1>8, LoopAssumption
       DEF StartFiling, HasBudget, Spend, TypeInv, TypeOK
  <2>4. QED
    BY <2>2, <2>3, <1>8 DEF StartFiling, TypeInv, TypeOK, ChatTypeOK,
                            ReviewsTyped, TurnsTyped, store
<1>9. ASSUME NEW score \in Scores, RefuseFiling(t, score)
      PROVE  TypeInv'
  BY <1>9, ReleaseTyped DEF RefuseFiling, Abort, TypeInv, TypeOK, ChatTypeOK,
                            ReviewsTyped, TurnsTyped, store, loopVars
<1>10. ASSUME At(t, "create"), NewTicket(t)
       PROVE  tickets' \in Seq([by : Sessions, link : Nat])
  BY <1>1, <1>10 DEF NewTicket, At, TypeInv, TypeOK, NoTicket
<1>11. At(t, "create") => Filed(turn[t].draft) \in Draft
  BY <1>1, DraftChanges DEF At, TypeInv, TypeOK
<1>12. CASE FileNew(t)
  <2>1. TurnsTyped'
    BY <1>11, <1>12, GotoTyped DEF FileNew, At, Steps, LoopSteps
  <2>2. QED
    BY <2>1, <1>10, <1>12 DEF FileNew, TypeInv, TypeOK, ChatTypeOK,
                              ReviewsTyped, TurnsTyped, store
<1>13. CASE FileDuplicate(t)
  <2>1. TurnsTyped'
    BY <1>11, <1>13, GotoTyped DEF FileDuplicate, At, Steps, LoopSteps
  <2>2. calls' \in [Instances -> 0..MaxToolCalls]
    BY <1>2, <1>13, LoopAssumption
       DEF FileDuplicate, HasBudget, Spend, TypeInv, TypeOK
  <2>3. QED
    BY <2>1, <2>2, <1>10, <1>13 DEF FileDuplicate, TypeInv, TypeOK, ChatTypeOK,
                                    ReviewsTyped, TurnsTyped, store
<1>14. CASE RefuseLink(t)
  BY <1>10, <1>14, ReleaseTyped DEF RefuseLink, Abort, TypeInv, TypeOK,
     ChatTypeOK, ReviewsTyped, TurnsTyped, store
<1>15. At(t, "create") =>
         [turn[t].draft EXCEPT !.status = "escalated"] \in Draft
  BY <1>1, DraftChanges DEF At, Status
<1>16. CASE FilingFails(t)
  <2>1. TurnsTyped'
    BY <1>15, <1>16, GotoTyped DEF FilingFails, At, Steps, LoopSteps
  <2>2. QED
    BY <2>1, <1>16 DEF FilingFails, TypeInv, TypeOK, ChatTypeOK, ReviewsTyped,
                       TurnsTyped, store, loopVars
<1>17. CASE FilingUnanswered(t)
  <2>1. TurnsTyped'
    BY <1>15, <1>17, GotoTyped DEF FilingUnanswered, At, Steps, LoopSteps
  <2>2. QED
    BY <2>1, <1>10, <1>17 DEF FilingUnanswered, TypeInv, TypeOK, ChatTypeOK,
                              ReviewsTyped, TurnsTyped, store
<1>18. CASE FilingUnreadable(t)
  BY <1>10, <1>18, ReleaseTyped DEF FilingUnreadable, Abort, TypeInv, TypeOK,
     ChatTypeOK, ReviewsTyped, TurnsTyped, store
<1>19. CASE LinkMade(t)
  <2> DEFINE d == turn[t].draft
  <2>1. d.dup \in Nat
    BY <1>19 DEF LinkMade, TypeInv, TypeOK
  <2>2. tickets' \in Seq([by : Sessions, link : Nat])
    <3> DEFINE k == d.ticket
               x == [tickets[k] EXCEPT !.link = d.dup]
    <3>1. tickets \in Seq([by : Sessions, link : Nat])
      BY DEF TypeInv, TypeOK
    <3>2. tickets' = [tickets EXCEPT ![k] = x]
      BY <1>19 DEF LinkMade, Linked
    <3>3. CASE k \in 1..Len(tickets)
      <4>1. tickets[k] \in [by : Sessions, link : Nat]
        BY <3>1, <3>3, ElementOfSeq
      <4>2. x \in [by : Sessions, link : Nat]
        BY <4>1, <2>1
      <4>3. QED
        BY <3>1, <3>2, <3>3, <4>2, ExceptSeq
    <3>4. CASE k \notin 1..Len(tickets)
      <4>1. tickets' = tickets
        BY <3>1, <3>2, <3>4, LenProperties
      <4>2. QED
        BY <3>1, <4>1
    <3>5. QED
      BY <3>3, <3>4
  <2>3. TurnsTyped'
    BY <1>1, <1>19, GotoTyped DEF LinkMade, At, Steps, LoopSteps
  <2>4. QED
    BY <2>2, <2>3, <1>19 DEF LinkMade, TypeInv, TypeOK, ChatTypeOK,
                             ReviewsTyped, TurnsTyped, store
<1>20. CASE LinkFails(t)
  <2>1. TurnsTyped'
    BY <1>1, <1>20, GotoTyped DEF LinkFails, At, Steps, LoopSteps
  <2>2. QED
    BY <2>1, <1>20 DEF LinkFails, TypeInv, TypeOK, ChatTypeOK, ReviewsTyped,
                       TurnsTyped, store, loopVars
<1>21. CASE Index(t)
  <2>1. TurnsTyped'
    BY <1>1, <1>21, GotoTyped DEF Index, At, Steps, LoopSteps
  <2>2. RowOf(turn[t].draft) \in [present : BOOLEAN, ticket : Nat]
    BY <1>1, <1>21 DEF Index, At, RowOf, Draft
  <2>3. QED
    BY <2>1, <2>2, <1>21 DEF Index, Upserted, TypeInv, TypeOK, ChatTypeOK, ReviewsTyped,
                             TurnsTyped, store
<1>22. CASE LoopSave(t)
  <2> DEFINE d == turn[t].draft
  <2>1. d \in Draft
    BY <1>1, <1>22 DEF LoopSave, At
  <2>2. TurnsTyped'
    BY <2>1, <1>22, ReturnTyped DEF LoopSave, At, Replies, Questions, Verdicts
  <2>3. QED
    BY <2>1, <2>2, <1>22 DEF LoopSave, TypeInv, TypeOK, ChatTypeOK,
                             ReviewsTyped, TurnsTyped, loopVars
<1>23. QED
  BY <1>3, <1>4, <1>5, <1>6, <1>7, <1>8, <1>9, <1>12, <1>13, <1>14,
     <1>16, <1>17, <1>18, <1>19, <1>20, <1>21, <1>22 DEF LoopStep

-----------------------------------------------------------------------------
\* The transport's steps, and everyone else's.

LEMMA TransportStepTypeInv ==
  ASSUME TypeInv, NEW t \in Turns, TransportStep(t)
  PROVE  TypeInv'
<1>1. /\ ~ At(t, "idle") => turn[t].session \in Sessions
      /\ turn[t].at \notin {"idle", "arrived"} => turn[t].draft \in Draft
      /\ turn[t].reply \in Replies
  BY DEF TypeInv, TurnsTyped, At, Turn
<1>2. UNCHANGED loopVars
  BY DEF TransportStep
<1>3. CASE ChatSave(t)
  <2> DEFINE over == turn[t].reply = "question" /\ ~ MayAskAgain(turn[t].draft)
             x == [turn[t] EXCEPT !.at = "logUser",
                                  !.reply = IF over THEN "cap" ELSE @]
  <2>1. TurnsTyped'
    <3>1. turn' = [turn EXCEPT ![t] = x]
      BY <1>3 DEF ChatSave
    <3>2. x \in Turn /\ x.session \in Sessions /\ x.draft \in Draft
      BY <1>1, <1>3 DEF ChatSave, At, TypeInv, TurnsTyped, Turn, Steps, Replies,
                        Verdicts
    <3> HIDE DEF x
    <3>3. QED
      BY <3>1, <3>2 DEF TypeInv, TurnsTyped
  <2>2. drafts' \in [Sessions -> Draft \cup {NoDraft}]
    BY <1>1, <1>3 DEF ChatSave, At, TypeInv, TypeOK, ChatTypeOK
  <2>3. QED
    BY <1>2, <1>3, <2>1, <2>2 DEF ChatSave, TypeInv, TypeOK, ChatTypeOK,
                                  ReviewsTyped, TurnsTyped, loopVars
<1>4. ASSUME NEW who \in {"user"} \cup Replies,
             log' = [log EXCEPT ![turn[t].session] = Append(@, who)]
      PROVE  log' \in [Sessions -> Seq({"user"} \cup Replies)]
  <2>1. \A s \in Sessions :
          Append(log[s], who) \in Seq({"user"} \cup Replies)
    BY AppendProperties DEF TypeInv, TypeOK, ChatTypeOK
  <2>2. QED
    BY <2>1, <1>4 DEF TypeInv, TypeOK, ChatTypeOK
<1>5. CASE LogUser(t)
  <2>1. TurnsTyped'
    BY <1>1, <1>5 DEF LogUser, At, TypeInv, TurnsTyped, Turn, Steps
  <2>2. log' \in [Sessions -> Seq({"user"} \cup Replies)]
    BY <1>4, <1>5 DEF LogUser
  <2>3. QED
    BY <1>2, <1>5, <2>1, <2>2 DEF LogUser, TypeInv, TypeOK, ChatTypeOK,
                                  ReviewsTyped, TurnsTyped, loopVars
<1>6. CASE LogReply(t)
  <2>1. TurnsTyped'
    BY <1>1, <1>6 DEF LogReply, At, TypeInv, TurnsTyped, Turn, Steps
  <2>2. log' \in [Sessions -> Seq({"user"} \cup Replies)]
    BY <1>1, <1>4, <1>6 DEF LogReply
  <2>3. QED
    BY <1>2, <1>6, <2>1, <2>2 DEF LogReply, TypeInv, TypeOK, ChatTypeOK,
                                  ReviewsTyped, TurnsTyped, loopVars
<1>7. CASE Register(t)
  <2>1. /\ TurnsTyped'
        /\ page' \in [Sessions -> {"ready", "locked"} \cup Turns]
    BY <1>7, ReleaseTyped DEF Register
  <2>2. registered' \subseteq Sessions
    BY <1>1, <1>7 DEF Register, Listed, At, TypeInv, TypeOK, ChatTypeOK
  <2>3. QED
    BY <1>2, <1>7, <2>1, <2>2 DEF Register, TypeInv, TypeOK, ChatTypeOK,
                                  ReviewsTyped, TurnsTyped, loopVars
<1>8. QED
  BY <1>3, <1>5, <1>6, <1>7 DEF TransportStep, Transport

LEMMA ReporterTypeInv ==
  ASSUME TypeInv, Reporter, UNCHANGED loopVars
  PROVE  TypeInv'
<1>1. ASSUME NEW s \in Sessions, NEW t \in Turns, Post(s, t)
      PROVE  TypeInv'
  <2> DEFINE x == [IdleTurn EXCEPT !.at = "arrived", !.session = s]
  <2>1. x \in Turn /\ x.at = "arrived" /\ x.session = s
    BY IdleTurnTyped DEF IdleTurn, Turn, Steps
  <2>2. turn' = [turn EXCEPT ![t] = x]
    BY <1>1 DEF Post
  <2> HIDE DEF x
  <2>3. TurnsTyped'
    BY <2>1, <2>2 DEF TypeInv, TurnsTyped
  <2>4. posts' \in 0..MaxPosts
    BY <1>1, ChatAssumption DEF Post, TypeInv, TypeOK, ChatTypeOK
  <2>5. QED
    BY <1>1, <2>3, <2>4 DEF Post, TypeInv, TypeOK, ChatTypeOK, ReviewsTyped,
                            TurnsTyped, store, loopVars
<1>2. ASSUME NEW s \in Sessions, Reload(s) \/ Abandon(s)
      PROVE  TypeInv'
  <2>1. page' \in [Sessions -> {"ready", "locked"} \cup Turns]
    BY <1>2 DEF Reload, Abandon, TypeInv, TypeOK, ChatTypeOK
  <2>2. UNCHANGED <<store, posts, turn, review>>
    BY <1>2 DEF Reload, Abandon
  <2>3. QED
    BY <2>1, <2>2 DEF TypeInv, TypeOK, ChatTypeOK, ReviewsTyped, TurnsTyped,
                      store, loopVars
<1>3. QED
  BY <1>1, <1>2 DEF Reporter

LEMMA AdminTypeInv ==
  ASSUME TypeInv, Admin, UNCHANGED loopVars
  PROVE  TypeInv'
<1>1. ASSUME NEW r \in Reviewers, NEW s \in Sessions, NEW v \in Terminal,
             ReviewRead(r, s, v)
      PROVE  TypeInv'
  <2> DEFINE x == [session |-> s, draft |-> [drafts[s] EXCEPT !.status = v]]
  <2>1. drafts[s] \in Draft
    BY <1>1 DEF ReviewRead, Reviewable, TypeInv, TypeOK, ChatTypeOK
  <2>2. [drafts[s] EXCEPT !.status = v] \in Draft
    BY <2>1, DraftChanges DEF Terminal, Status
  <2>3. x \in Review /\ x.session = s
    BY <2>2 DEF Review
  <2>4. review' = [review EXCEPT ![r] = x]
    BY <1>1 DEF ReviewRead
  <2> HIDE DEF x
  <2>5. ReviewsTyped'
    BY <2>3, <2>4 DEF TypeInv, ReviewsTyped
  <2>6. QED
    BY <1>1, <2>5 DEF ReviewRead, Reviewable, TypeInv, TypeOK, ChatTypeOK, ReviewsTyped,
                      TurnsTyped, store, loopVars
<1>2. ASSUME NEW r \in Reviewers, ReviewWrite(r)
      PROVE  TypeInv'
  <2>1. NoReview \in Review /\ NoReview.draft = NoDraft
    BY DEF NoReview, Review
  <2>2. review' = [review EXCEPT ![r] = NoReview]
    BY <1>2 DEF ReviewWrite
  <2>3. ReviewsTyped'
    BY <2>1, <2>2 DEF TypeInv, ReviewsTyped
  <2>4. drafts' \in [Sessions -> Draft \cup {NoDraft}]
    BY <1>2 DEF ReviewWrite, TypeInv, TypeOK, ChatTypeOK, ReviewsTyped, Review
  <2>5. QED
    BY <1>2, <2>3, <2>4 DEF ReviewWrite, TypeInv, TypeOK, ChatTypeOK,
                            ReviewsTyped, TurnsTyped, loopVars
<1>3. QED
  BY <1>1, <1>2 DEF Admin

LEMMA FailureTypeInv ==
  ASSUME TypeInv
  PROVE  /\ \A s \in Sessions : Expire(s) /\ UNCHANGED loopVars => TypeInv'
         /\ \A t \in Turns : Fail(t) => TypeInv'
         /\ \A i \in Instances : Crash(i) => TypeInv'
<1>1. ASSUME NEW s \in Sessions, Expire(s), UNCHANGED loopVars
      PROVE  TypeInv'
  BY <1>1 DEF Expire, TypeInv, TypeOK, ChatTypeOK, ReviewsTyped, TurnsTyped,
              loopVars
<1>2. ASSUME NEW t \in Turns, Fail(t)
      PROVE  TypeInv'
  BY <1>2, ReleaseTyped DEF Fail, Abort, TypeInv, TypeOK, ChatTypeOK,
                            ReviewsTyped, TurnsTyped, store, loopVars
<1>3. ASSUME NEW i \in Instances, Crash(i)
      PROVE  TypeInv'
  <2> DEFINE dead == {t \in Turns : Home[t] = i}
  <2>1. TurnsTyped'
    <3>1. turn' = [t \in Turns |-> IF t \in dead THEN IdleTurn ELSE turn[t]]
      BY <1>3 DEF Crash
    <3>2. turn' \in [Turns -> Turn]
      BY <3>1, IdleTurnTyped DEF TypeInv, TurnsTyped
    <3>3. QED
      BY <3>1, <3>2 DEF TypeInv, TurnsTyped, IdleTurn
  <2>2. page' \in [Sessions -> {"ready", "locked"} \cup Turns]
    BY <1>3 DEF Crash, TypeInv, TypeOK, ChatTypeOK
  <2>3. calls' \in [Instances -> 0..MaxToolCalls]
    BY <1>3, LoopAssumption DEF Crash, TypeInv, TypeOK
  <2>4. QED
    BY <1>3, <2>1, <2>2, <2>3 DEF Crash, TypeInv, TypeOK, ChatTypeOK,
                                  ReviewsTyped, TurnsTyped, store
<1>4. QED
  BY <1>1, <1>2, <1>3

-----------------------------------------------------------------------------
LEMMA NextTypeInv ==
  ASSUME TypeInv, [Next]_vars
  PROVE  TypeInv'
<1>1. CASE UNCHANGED vars
  BY <1>1 DEF vars, chatVars, loopVars, TypeInv, TypeOK, ChatTypeOK,
              ReviewsTyped, TurnsTyped
<1>2. CASE Next
  BY <1>2, LoopStepTypeInv, TransportStepTypeInv, ReporterTypeInv,
     AdminTypeInv, FailureTypeInv DEF Next
<1>3. QED
  BY <1>1, <1>2

LEMMA TypeInvAlways == Spec => []TypeInv
<1>1. Init => TypeInv
  BY InitTypeInv
<1>2. TypeInv /\ [Next]_vars => TypeInv'
  BY NextTypeInv
<1>3. QED
  BY <1>1, <1>2, PTL DEF Spec

\* The agent loop, the chat around it and the administrator only ever put
\* drafts, replies, tickets and rows of their kind into the state, and no
\* instance counts more than MaxToolCalls calls.
THEOREM TypeCorrect == Spec => []TypeOK
<1>1. TypeInv => TypeOK
  BY DEF TypeInv
<1>2. QED
  BY <1>1, TypeInvAlways, PTL

-----------------------------------------------------------------------------
\* What the ways a turn moves make of it; other turns stay where they are.

Others(t) == \A u \in Turns \ {t} : turn'[u] = turn[u]

LEMMA Replaced ==
  ASSUME TypeInv, NEW t \in Turns, NEW x, turn' = [turn EXCEPT ![t] = x]
  PROVE  turn'[t] = x /\ Others(t)
BY DEF TypeInv, TurnsTyped, Others

LEMMA GotoMoves ==
  ASSUME TypeInv, NEW t \in Turns, NEW step, NEW d, Goto(t, step, d)
  PROVE  /\ turn'[t].at = step /\ turn'[t].draft = d
         /\ turn'[t].session = turn[t].session /\ turn'[t].reply = turn[t].reply
         /\ Others(t)
<1> DEFINE x == [turn[t] EXCEPT !.at = step, !.draft = d]
<1>1. turn' = [turn EXCEPT ![t] = x] /\ turn[t] \in Turn
  BY DEF Goto, TypeInv, TurnsTyped
<1>2. /\ x.at = step /\ x.draft = d
      /\ x.session = turn[t].session /\ x.reply = turn[t].reply
  BY <1>1 DEF Turn
<1> HIDE DEF x
<1>3. QED
  BY <1>1, <1>2, Replaced

LEMMA ReturnMoves ==
  ASSUME TypeInv, NEW t \in Turns, NEW d, NEW reply, Return(t, d, reply)
  PROVE  /\ turn'[t].at = "chatSave" /\ turn'[t].draft = d
         /\ turn'[t].session = turn[t].session /\ turn'[t].reply = reply
         /\ Others(t)
<1> DEFINE x == [turn[t] EXCEPT !.at = "chatSave", !.draft = d, !.reply = reply]
<1>1. turn' = [turn EXCEPT ![t] = x] /\ turn[t] \in Turn
  BY DEF Return, TypeInv, TurnsTyped
<1>2. /\ x.at = "chatSave" /\ x.draft = d
      /\ x.session = turn[t].session /\ x.reply = reply
  BY <1>1 DEF Turn
<1> HIDE DEF x
<1>3. QED
  BY <1>1, <1>2, Replaced

LEMMA ReleaseMoves ==
  ASSUME TypeInv, NEW t \in Turns, NEW p, Release(t, p)
  PROVE  turn'[t] = IdleTurn /\ turn'[t].at = "idle" /\ Others(t)
<1>1. turn'[t] = IdleTurn /\ Others(t)
  BY Replaced DEF Release
<1>2. QED
  BY <1>1 DEF IdleTurn

-----------------------------------------------------------------------------
(***************************************************************************)
(* Tickets are traced, a ticket means filed and links point back.          *)
(*                                                                         *)
(* None of the three is inductive: a draft reaches the store from a turn   *)
(* or from a review that has read it some steps before.  TicketInv         *)
(* therefore speaks of every draft that is held anywhere - stored, carried *)
(* by a turn, kept by a review - and of what a turn's step implies.  It is *)
(* kept because the tracker only grows: no step removes an issue or        *)
(* changes who it was created for.                                         *)
(***************************************************************************)

\* k is no ticket, or an issue of tracker tk created for session s.
Names(tk, s, k) == k = NoTicket \/ (k \in DOMAIN tk /\ tk[k].by = s)

\* k is an issue of another session than s, on the same topic.
Duplicates(tk, s, k) ==
  /\ k \in DOMAIN tk
  /\ tk[k].by # s
  /\ TopicOf[tk[k].by] = TopicOf[s]

\* What a draft of session s says of the tracker is true.
Traced(tk, s, d) ==
  d # NoDraft =>
    /\ Names(tk, s, d.ticket)
    /\ d.ticket # NoTicket => d.status = "filed"
    /\ d.dup \in Nat => Duplicates(tk, s, d.dup)

Unfiled == {"classify", "nearest", "score", "create"}

\* Before its issue exists a turn has no ticket; when it links, it has one, and
\* the issue it links to is older.
StepReady(tk, at, d) ==
  /\ at \in Unfiled => d.ticket = NoTicket
  /\ at = "link" => /\ d.ticket \in DOMAIN tk
                    /\ d.dup \in Nat => d.dup < d.ticket

TurnTraced(tk, x) ==
  Traced(tk, x.session, x.draft) /\ StepReady(tk, x.at, x.draft)

DraftsTraced == \A s \in Sessions : Traced(tickets, s, drafts[s])
RowsTraced == \A s \in Sessions : Names(tickets, s, rows[s].ticket)
TurnsTraced == \A t \in Turns : TurnTraced(tickets, turn[t])
ReviewsTraced ==
  \A r \in Reviewers : Traced(tickets, review[r].session, review[r].draft)

TicketInv ==
  /\ DraftsTraced
  /\ RowsTraced
  /\ TurnsTraced
  /\ ReviewsTraced
  /\ LinksPointBack

-----------------------------------------------------------------------------
\* The tracker grows: issues stay, and stay their conversation's.
Grows(tk, tk2) ==
  /\ DOMAIN tk \subseteq DOMAIN tk2
  /\ \A k \in DOMAIN tk : tk2[k].by = tk[k].by

LEMMA GrowsKeeps ==
  ASSUME NEW tk, NEW tk2, Grows(tk, tk2)
  PROVE  /\ \A s, k : Names(tk, s, k) => Names(tk2, s, k)
         /\ \A s, d : Traced(tk, s, d) => Traced(tk2, s, d)
         /\ \A x : TurnTraced(tk, x) => TurnTraced(tk2, x)
<1>1. \A s, k : Names(tk, s, k) => Names(tk2, s, k)
  BY DEF Grows, Names
<1>2. \A s, k : Duplicates(tk, s, k) => Duplicates(tk2, s, k)
  BY DEF Grows, Duplicates
<1>3. \A s, d : Traced(tk, s, d) => Traced(tk2, s, d)
  BY <1>1, <1>2 DEF Traced
<1>4. \A at, d : StepReady(tk, at, d) => StepReady(tk2, at, d)
  BY DEF Grows, StepReady
<1>5. QED
  BY <1>1, <1>3, <1>4 DEF TurnTraced

\* A step keeps what is held when whatever it puts somewhere new is traced.
DraftsKept ==
  \A s \in Sessions :
    drafts'[s] = drafts[s] \/ Traced(tickets', s, drafts'[s])
RowsKept ==
  \A s \in Sessions :
    rows'[s] = rows[s] \/ Names(tickets', s, rows'[s].ticket)
TurnsKept ==
  \A t \in Turns : turn'[t] = turn[t] \/ TurnTraced(tickets', turn'[t])
ReviewsKept ==
  \A r \in Reviewers :
    \/ review'[r] = review[r]
    \/ Traced(tickets', review'[r].session, review'[r].draft)

LEMMA KeptSuffices ==
  ASSUME TicketInv, Grows(tickets, tickets'), LinksPointBack',
         DraftsKept, RowsKept, TurnsKept, ReviewsKept
  PROVE  TicketInv'
<1>1. DraftsTraced'
  BY GrowsKeeps DEF TicketInv, DraftsTraced, DraftsKept
<1>2. RowsTraced'
  BY GrowsKeeps DEF TicketInv, RowsTraced, RowsKept
<1>3. TurnsTraced'
  BY GrowsKeeps DEF TicketInv, TurnsTraced, TurnsKept
<1>4. ReviewsTraced'
  BY GrowsKeeps DEF TicketInv, ReviewsTraced, ReviewsKept
<1>5. QED
  BY <1>1, <1>2, <1>3, <1>4 DEF TicketInv

LEMMA SameTickets ==
  ASSUME TicketInv, UNCHANGED tickets
  PROVE  Grows(tickets, tickets') /\ LinksPointBack'
BY DEF TicketInv, Grows, LinksPointBack, Tickets

LEMMA NewTicketGrows ==
  ASSUME TypeInv, TicketInv, NEW t \in Turns, turn[t].session \in Sessions,
         NewTicket(t)
  PROVE  /\ Grows(tickets, tickets')
         /\ LinksPointBack'
         /\ Len(tickets) + 1 \in DOMAIN tickets'
         /\ tickets'[Len(tickets) + 1].by = turn[t].session
         /\ \A k \in DOMAIN tickets : k < Len(tickets) + 1
<1> DEFINE e == [by |-> turn[t].session, link |-> NoTicket]
           n == Len(tickets)
<1>1. tickets \in Seq([by : Sessions, link : Nat])
  BY DEF TypeInv, TypeOK
<1>2. e \in [by : Sessions, link : Nat]
  BY DEF NoTicket
<1>3. tickets' = Append(tickets, e)
  BY DEF NewTicket
<1>4. /\ n \in Nat
      /\ DOMAIN tickets = 1..n
      /\ DOMAIN tickets' = 1..n+1
      /\ \A k \in 1..n : tickets'[k] = tickets[k]
      /\ tickets'[n+1] = e
  <2>1. tickets' \in Seq([by : Sessions, link : Nat]) /\ Len(tickets') = n + 1
    BY <1>1, <1>2, <1>3, AppendProperties
  <2>2. DOMAIN tickets' = 1..n+1
    BY <2>1, LenProperties
  <2>3. n \in Nat /\ DOMAIN tickets = 1..n
    BY <1>1, LenProperties
  <2>4. QED
    BY <1>1, <1>2, <1>3, <2>2, <2>3, AppendProperties
<1>5. Grows(tickets, tickets')
  BY <1>4 DEF Grows
<1>6. LinksPointBack'
  <2> SUFFICES ASSUME NEW k \in DOMAIN tickets', tickets'[k].link # NoTicket
               PROVE  /\ tickets'[k].link < k
                      /\ tickets'[tickets'[k].link].by # tickets'[k].by
                      /\ TopicOf[tickets'[tickets'[k].link].by]
                           = TopicOf[tickets'[k].by]
    BY DEF LinksPointBack, Tickets
  <2>1. k \in 1..n /\ tickets'[k] = tickets[k]
    BY <1>4
  <2>2. tickets[k].link \in Nat
    <3>1. tickets[k] \in [by : Sessions, link : Nat]
      BY <1>1, <2>1, ElementOfSeq
    <3>2. QED
      BY <3>1
  <2>3. /\ tickets[k].link < k
        /\ tickets[tickets[k].link].by # tickets[k].by
        /\ TopicOf[tickets[tickets[k].link].by] = TopicOf[tickets[k].by]
    BY <1>4, <2>1 DEF TicketInv, LinksPointBack, Tickets
  <2>4. tickets'[tickets[k].link] = tickets[tickets[k].link]
    BY <1>4, <2>1, <2>2, <2>3 DEF NoTicket
  <2>5. QED
    BY <2>1, <2>3, <2>4
<1>7. QED
  BY <1>4, <1>5, <1>6

-----------------------------------------------------------------------------
\* The ways a turn moves.

LEMMA GotoKept ==
  ASSUME TypeInv, NEW t \in Turns, NEW step, NEW d, Goto(t, step, d),
         Traced(tickets', turn[t].session, d), StepReady(tickets', step, d)
  PROVE  TurnsKept
<1> DEFINE x == [turn[t] EXCEPT !.at = step, !.draft = d]
<1>1. turn' = [turn EXCEPT ![t] = x] /\ turn[t] \in Turn
  BY DEF Goto, TypeInv, TurnsTyped
<1>2. x.session = turn[t].session /\ x.draft = d /\ x.at = step
  BY <1>1 DEF Turn
<1> HIDE DEF x
<1>3. TurnTraced(tickets', x)
  BY <1>2 DEF TurnTraced
<1>4. QED
  BY <1>1, <1>3 DEF TurnsKept, TypeInv, TurnsTyped

LEMMA ReturnKept ==
  ASSUME TypeInv, NEW t \in Turns, NEW d, NEW reply, Return(t, d, reply),
         Traced(tickets', turn[t].session, d)
  PROVE  TurnsKept
<1> DEFINE x == [turn[t] EXCEPT !.at = "chatSave", !.draft = d, !.reply = reply]
<1>1. turn' = [turn EXCEPT ![t] = x] /\ turn[t] \in Turn
  BY DEF Return, TypeInv, TurnsTyped
<1>2. x.session = turn[t].session /\ x.draft = d /\ x.at = "chatSave"
  BY <1>1 DEF Turn
<1> HIDE DEF x
<1>3. TurnTraced(tickets', x)
  BY <1>2 DEF TurnTraced, StepReady, Unfiled
<1>4. QED
  BY <1>1, <1>3 DEF TurnsKept, TypeInv, TurnsTyped

LEMMA IdleTurnTraced ==
  ASSUME NEW tk
  PROVE  TurnTraced(tk, IdleTurn)
BY DEF TurnTraced, Traced, StepReady, Unfiled, IdleTurn

LEMMA ReleaseKept ==
  ASSUME TypeInv, NEW t \in Turns, NEW p, Release(t, p)
  PROVE  TurnsKept
BY IdleTurnTraced DEF Release, TurnsKept, TypeInv, TurnsTyped

LEMMA InitTicketInv == Init => TicketInv
<1> SUFFICES ASSUME Init PROVE TicketInv
  OBVIOUS
<1> USE DEF Init, ChatInit
<1>1. DraftsTraced /\ RowsTraced
  BY DEF DraftsTraced, RowsTraced, Traced, Names, NoRow
<1>2. TurnsTraced
  BY IdleTurnTraced DEF TurnsTraced
<1>3. ReviewsTraced
  BY DEF ReviewsTraced, Traced, NoReview
<1>4. LinksPointBack
  BY DEF LinksPointBack, Tickets
<1>5. QED
  BY <1>1, <1>2, <1>3, <1>4 DEF TicketInv

-----------------------------------------------------------------------------
\* The loop's own steps.

LEMMA LoopStepTicketInv ==
  ASSUME TypeInv, TicketInv, NEW t \in Turns, LoopStep(t)
  PROVE  TicketInv'
<1> DEFINE s == turn[t].session
           d == turn[t].draft
<1>1. /\ ~ At(t, "idle") => s \in Sessions
      /\ turn[t].at \notin {"idle", "arrived"} => d \in Draft /\ d # NoDraft
      /\ Traced(tickets, s, d)
      /\ StepReady(tickets, turn[t].at, d)
  BY ChatAssumption
     DEF TypeInv, TurnsTyped, TicketInv, TurnsTraced, TurnTraced, At
<1>2. ASSUME UNCHANGED tickets, UNCHANGED drafts, UNCHANGED rows,
             UNCHANGED review, TurnsKept
      PROVE  TicketInv'
  BY <1>2, SameTickets, KeptSuffices DEF DraftsKept, RowsKept, ReviewsKept
<1>3. ASSUME NewTicket(t), s \in Sessions, UNCHANGED drafts, UNCHANGED rows,
             UNCHANGED review, TurnsKept
      PROVE  TicketInv'
  BY <1>3, NewTicketGrows, KeptSuffices DEF DraftsKept, RowsKept, ReviewsKept
<1>4. \* a draft of the loop that has no ticket yet
      ASSUME NEW e \in Draft, UNCHANGED tickets, turn[t].at \in Unfiled,
             e.ticket = d.ticket, e.dup = d.dup
      PROVE  /\ Traced(tickets', s, e)
             /\ e.ticket = NoTicket
  BY <1>1, <1>4 DEF Unfiled, Traced, StepReady, Names
<1>5. CASE Load(t)
  <2> DEFINE e == Absorbed(drafts[s])
  <2>1. s \in Sessions
    BY <1>1, <1>5 DEF Load, At
  <2>2. /\ Traced(tickets, s, e)
        /\ e.status \notin Terminal => e.ticket = NoTicket
    <3>1. CASE drafts[s] = NoDraft
      BY <3>1, DraftAssumption
         DEF Absorbed, NewDraft, Traced, Names, Terminal
    <3>2. CASE drafts[s] # NoDraft
      <4>1. drafts[s] \in Draft
        BY <2>1, <3>2 DEF TypeInv, TypeOK, ChatTypeOK
      <4>2. /\ e.ticket = drafts[s].ticket
            /\ e.dup = drafts[s].dup
            /\ e.status = drafts[s].status
        BY <3>2, <4>1 DEF Absorbed, Draft
      <4>3. Traced(tickets, s, drafts[s])
        BY <2>1 DEF TicketInv, DraftsTraced
      <4>4. QED
        BY <3>2, <4>2, <4>3 DEF Traced, Terminal
    <3>3. QED
      BY <3>1, <3>2
  <2> HIDE DEF e
  <2>3. UNCHANGED <<tickets, drafts, rows, review>>
    BY <1>5 DEF Load, loopVars, store
  <2>4. CASE e.status \in Terminal
    <3>1. Return(t, e, "report")
      BY <1>5, <2>4 DEF Load, e
    <3>2. TurnsKept
      BY <2>2, <2>3, <3>1, ReturnKept
    <3>3. QED
      BY <1>2, <2>3, <3>2
  <2>5. CASE e.status \notin Terminal
    <3>1. Goto(t, "classify", e)
      BY <1>5, <2>5 DEF Load, e
    <3>2. StepReady(tickets', "classify", e)
      BY <2>2, <2>5 DEF StepReady
    <3>3. TurnsKept
      BY <2>2, <2>3, <3>1, <3>2, GotoKept
    <3>4. QED
      BY <1>2, <2>3, <3>3
  <2>6. QED
    BY <2>4, <2>5
<1>6. ASSUME NEW c \in Categories, NEW found \in SUBSET Fields,
             Clarify(t, c, found)
      PROVE  TicketInv'
  <2> DEFINE e == [Classified(d, c, found) EXCEPT !.status = "gathering_info"]
             x == [turn[t] EXCEPT !.at = "loopSave", !.reply = "question",
                                  !.draft = e]
  <2>1. turn[t].at = "classify" /\ d \in Draft
    BY <1>1, <1>6 DEF Clarify, At
  <2>2. /\ e \in Draft
        /\ e.ticket = d.ticket
        /\ e.dup = d.dup
    <3>1. Classified(d, c, found) \in Draft
      BY <2>1, DraftChanges
    <3>2. e \in Draft
      BY <3>1, DraftChanges DEF Status
    <3>3. QED
      BY <2>1, <3>1, <3>2 DEF Classified, Draft
  <2>3. UNCHANGED <<tickets, drafts, rows, review>>
    BY <1>6 DEF Clarify, loopVars, store
  <2>4. turn' = [turn EXCEPT ![t] = x]
    BY <1>6 DEF Clarify
  <2> HIDE DEF e
  <2>5. x.at = "loopSave" /\ x.session = s /\ x.draft = e
    BY DEF TypeInv, TurnsTyped, Turn
  <2> HIDE DEF x
  <2>6. Traced(tickets', s, e)
    BY <1>4, <2>1, <2>2, <2>3 DEF Unfiled
  <2>7. TurnTraced(tickets', x)
    BY <2>5, <2>6 DEF TurnTraced, StepReady, Unfiled
  <2>8. TurnsKept
    BY <2>4, <2>7 DEF TurnsKept, TypeInv, TurnsTyped
  <2>9. QED
    BY <1>2, <2>3, <2>8
<1>7. ASSUME NEW c \in Categories, NEW found \in SUBSET Fields,
             Investigate(t, c, found)
      PROVE  TicketInv'
  <2> DEFINE e == [Classified(d, c, found) EXCEPT !.status = "investigating"]
  <2>1. turn[t].at = "classify" /\ d \in Draft
    BY <1>1, <1>7 DEF Investigate, At
  <2>2. /\ e \in Draft
        /\ e.ticket = d.ticket
        /\ e.dup = d.dup
    <3>1. Classified(d, c, found) \in Draft
      BY <2>1, DraftChanges
    <3>2. e \in Draft
      BY <3>1, DraftChanges DEF Status
    <3>3. QED
      BY <2>1, <3>1, <3>2 DEF Classified, Draft
  <2>3. UNCHANGED <<tickets, drafts, rows, review>>
    BY <1>7 DEF Investigate, store
  <2>4. Goto(t, "nearest", e)
    BY <1>7 DEF Investigate
  <2> HIDE DEF e
  <2>5. Traced(tickets', s, e) /\ e.ticket = NoTicket
    BY <1>4, <2>1, <2>2, <2>3 DEF Unfiled
  <2>6. TurnsKept
    BY <2>4, <2>5, GotoKept DEF StepReady
  <2>7. QED
    BY <1>2, <2>3, <2>6
<1>8. CASE Nearest(t)
  <2> DEFINE near == Neighbours(s)
  <2>1. turn[t].at = "nearest" /\ d \in Draft /\ s \in Sessions
    BY <1>1, <1>8 DEF Nearest, At
  <2>2. PICK ref \in IF near = {} THEN {NoDuplicate}
                     ELSE {DuplicateRef(n) : n \in near} :
          Goto(t, "score", [d EXCEPT !.dup = ref])
    BY <1>8 DEF Nearest
  <2> DEFINE e == [d EXCEPT !.dup = ref]
  <2>3. ref \in Nat => Duplicates(tickets, s, ref)
    <3>1. CASE near = {}
      BY <2>2, <3>1, DraftAssumption
    <3>2. CASE near # {}
      <4>1. PICK n \in near : ref = DuplicateRef(n)
        BY <2>2, <3>2
      <4>2. n \in Sessions \ {s} /\ TopicOf[n] = TopicOf[s]
        BY DEF Neighbours
      <4>3. Names(tickets, n, rows[n].ticket)
        BY <4>2 DEF TicketInv, RowsTraced
      <4>4. rows[n].ticket = NoTicket => ref \notin Nat
        BY <4>1, <4>2, DraftAssumption DEF DuplicateRef
      <4>5. QED
        BY <4>1, <4>2, <4>3, <4>4 DEF DuplicateRef, Names, Duplicates
    <3>3. QED
      BY <3>1, <3>2
  <2>4. e.ticket = d.ticket /\ e.status = d.status /\ e.dup = ref
    BY <2>1 DEF Draft
  <2>5. UNCHANGED <<tickets, drafts, rows, review>>
    BY <1>8 DEF Nearest, loopVars, store
  <2>6. d.ticket = NoTicket
    BY <1>1, <2>1 DEF StepReady, Unfiled
  <2> HIDE DEF e
  <2>7. Traced(tickets', s, e)
    BY <2>3, <2>4, <2>5, <2>6 DEF Traced, Names
  <2>8. StepReady(tickets', "score", e)
    BY <2>4, <2>6 DEF StepReady
  <2>9. TurnsKept
    BY <2>2, <2>7, <2>8, GotoKept DEF e
  <2>10. QED
    BY <1>2, <2>5, <2>9
<1>9. ASSUME NEW score \in Scores, Escalate(t, score)
      PROVE  TicketInv'
  <2> DEFINE e == [Scored(d, score) EXCEPT !.status = "escalated"]
  <2>1. turn[t].at = "score" /\ d \in Draft
    BY <1>1, <1>9 DEF Escalate, At
  <2>2. e \in Draft /\ e.ticket = d.ticket /\ e.dup = d.dup
    <3>1. Scored(d, score) \in Draft
      BY <2>1, DraftChanges
    <3>2. e \in Draft
      BY <3>1, DraftChanges DEF Status
    <3>3. QED
      BY <2>1, <3>1, <3>2 DEF Scored, Draft
  <2>3. UNCHANGED <<tickets, drafts, rows, review>>
    BY <1>9 DEF Escalate, loopVars, store
  <2>4. Goto(t, "index", e)
    BY <1>9 DEF Escalate
  <2> HIDE DEF e
  <2>5. Traced(tickets', s, e) /\ e.ticket = NoTicket
    BY <1>4, <2>1, <2>2, <2>3 DEF Unfiled
  <2>6. TurnsKept
    BY <2>4, <2>5, GotoKept DEF StepReady
  <2>7. QED
    BY <1>2, <2>3, <2>6
<1>10. ASSUME NEW score \in Scores, StartFiling(t, score)
       PROVE  TicketInv'
  <2> DEFINE e == Scored(d, score)
  <2>1. turn[t].at = "score" /\ d \in Draft
    BY <1>1, <1>10 DEF StartFiling, At
  <2>2. e \in Draft /\ e.ticket = d.ticket /\ e.dup = d.dup
    <3>1. e \in Draft
      BY <2>1, DraftChanges
    <3>2. QED
      BY <2>1, <3>1 DEF Scored, Draft
  <2>3. UNCHANGED <<tickets, drafts, rows, review>>
    BY <1>10 DEF StartFiling, store
  <2>4. Goto(t, "create", e)
    BY <1>10 DEF StartFiling
  <2> HIDE DEF e
  <2>5. Traced(tickets', s, e) /\ e.ticket = NoTicket
    BY <1>4, <2>1, <2>2, <2>3 DEF Unfiled
  <2>6. TurnsKept
    BY <2>4, <2>5, GotoKept DEF StepReady
  <2>7. QED
    BY <1>2, <2>3, <2>6
<1>11. ASSUME NEW score \in Scores, RefuseFiling(t, score)
       PROVE  TicketInv'
  BY <1>2, <1>11, ReleaseKept DEF RefuseFiling, Abort, loopVars, store
<1>12. ASSUME At(t, "create"), NewTicket(t)
       PROVE  /\ s \in Sessions
              /\ Traced(tickets', s, Filed(d))
              /\ StepReady(tickets', "link", Filed(d))
  <2>1. d \in Draft /\ s \in Sessions
    BY <1>1, <1>12 DEF At
  <2> DEFINE k == Len(tickets) + 1
  <2>2. /\ Grows(tickets, tickets')
        /\ k \in DOMAIN tickets'
        /\ tickets'[k].by = s
        /\ \A j \in DOMAIN tickets : j < k
    BY <1>12, <2>1, NewTicketGrows
  <2>3. /\ Filed(d).ticket = k
        /\ Filed(d).status = "filed"
        /\ Filed(d).dup = d.dup
    BY <2>1 DEF Filed, Draft
  <2>4. d.dup \in Nat => Duplicates(tickets, s, d.dup)
    BY <1>1, <1>12 DEF Traced, At
  <2> HIDE DEF k
  <2>5. d.dup \in Nat => Duplicates(tickets', s, d.dup) /\ d.dup < k
    BY <2>2, <2>4 DEF Grows, Duplicates
  <2>6. QED
    BY <2>1, <2>2, <2>3, <2>5 DEF Traced, StepReady, Names, Unfiled
<1>13. CASE FileNew(t)
  <2>1. TurnsKept
    BY <1>12, <1>13, GotoKept DEF FileNew, StepReady, Unfiled
  <2>2. QED
    BY <1>3, <1>12, <1>13, <2>1 DEF FileNew, store
<1>14. CASE FileDuplicate(t)
  <2>1. TurnsKept
    BY <1>12, <1>14, GotoKept DEF FileDuplicate
  <2>2. QED
    BY <1>3, <1>12, <1>14, <2>1 DEF FileDuplicate, store
<1>15. CASE RefuseLink(t)
  BY <1>3, <1>12, <1>15, ReleaseKept DEF RefuseLink, Abort, store
<1>16. ASSUME At(t, "create"), Grows(tickets, tickets'),
              Goto(t, "index", [d EXCEPT !.status = "escalated"])
       PROVE  TurnsKept
  <2> DEFINE e == [d EXCEPT !.status = "escalated"]
  <2>1. d \in Draft /\ d.ticket = NoTicket
    BY <1>1, <1>16 DEF At, StepReady, Unfiled
  <2>2. e.ticket = NoTicket /\ e.dup = d.dup
    BY <2>1 DEF Draft
  <2> HIDE DEF e
  <2>3. Traced(tickets', s, d)
    BY <1>1, <1>16, GrowsKeeps
  <2>4. Traced(tickets', s, e)
    BY <1>1, <1>16, <2>2, <2>3 DEF Traced, Names, At
  <2>5. StepReady(tickets', "index", e)
    BY DEF StepReady, Unfiled
  <2>6. QED
    BY <1>16, <2>4, <2>5, GotoKept DEF e
<1>17. CASE FilingFails(t)
  BY <1>2, <1>16, <1>17, SameTickets DEF FilingFails, loopVars, store
<1>18. CASE FilingUnanswered(t)
  BY <1>3, <1>12, <1>16, <1>18, NewTicketGrows DEF FilingUnanswered, store
<1>19. CASE FilingUnreadable(t)
  BY <1>3, <1>12, <1>19, ReleaseKept DEF FilingUnreadable, Abort, store
<1>20. CASE LinkMade(t)
  <2>1. /\ turn[t].at = "link"
        /\ d \in Draft
        /\ d.dup \in DOMAIN tickets
        /\ tickets' = Linked(d.ticket, d.dup)
        /\ Goto(t, "index", d)
    BY <1>1, <1>20 DEF LinkMade, At
  <2>2. /\ d.ticket \in DOMAIN tickets
        /\ tickets[d.ticket].by = s
        /\ d.dup \in Nat
        /\ d.dup < d.ticket
        /\ Duplicates(tickets, s, d.dup)
    <3>1. tickets \in Seq([by : Sessions, link : Nat])
      BY DEF TypeInv, TypeOK
    <3>2. DOMAIN tickets = 1..Len(tickets) /\ Len(tickets) \in Nat
      BY <3>1, LenProperties
    <3>3. d.dup \in Nat /\ d.ticket \in DOMAIN tickets /\ d.ticket # NoTicket
      BY <1>1, <2>1, <3>2 DEF StepReady, NoTicket
    <3>4. QED
      BY <1>1, <2>1, <3>3, ChatAssumption DEF Traced, StepReady, Names
  <2>3. /\ DOMAIN tickets' = DOMAIN tickets
        /\ \A k \in DOMAIN tickets :
             /\ tickets'[k].by = tickets[k].by
             /\ tickets'[k].link = IF k = d.ticket THEN d.dup
                                   ELSE tickets[k].link
    <3>1. tickets \in Seq([by : Sessions, link : Nat])
      BY DEF TypeInv, TypeOK
    <3>2. \A k \in DOMAIN tickets : tickets[k] \in [by : Sessions, link : Nat]
      BY <3>1, LenProperties, ElementOfSeq
    <3>3. tickets' = [tickets EXCEPT ![d.ticket] =
                        [tickets[d.ticket] EXCEPT !.link = d.dup]]
      BY <2>1 DEF Linked
    <3>4. tickets \in [1..Len(tickets) -> [by : Sessions, link : Nat]]
      BY <3>1, LenProperties
    <3>5. QED
      BY <2>2, <3>2, <3>3, <3>4
  <2>4. Grows(tickets, tickets')
    BY <2>3 DEF Grows
  <2>5. LinksPointBack'
    <3> SUFFICES ASSUME NEW k \in DOMAIN tickets, tickets'[k].link # NoTicket
                 PROVE  /\ tickets'[k].link < k
                        /\ tickets'[tickets'[k].link].by # tickets'[k].by
                        /\ TopicOf[tickets'[tickets'[k].link].by]
                             = TopicOf[tickets'[k].by]
      BY <2>3 DEF LinksPointBack, Tickets
    <3>1. CASE k = d.ticket
      BY <2>2, <2>3, <3>1 DEF Duplicates
    <3>2. CASE k # d.ticket
      <4>1. /\ tickets[k].link < k
            /\ tickets[tickets[k].link].by # tickets[k].by
            /\ TopicOf[tickets[tickets[k].link].by] = TopicOf[tickets[k].by]
        BY <2>3, <3>2 DEF TicketInv, LinksPointBack, Tickets
      <4>2. tickets[k].link \in DOMAIN tickets
        <5>1. tickets \in Seq([by : Sessions, link : Nat])
          BY DEF TypeInv, TypeOK
        <5>2. DOMAIN tickets = 1..Len(tickets) /\ Len(tickets) \in Nat
          BY <5>1, LenProperties
        <5>3. tickets[k] \in [by : Sessions, link : Nat]
          BY <5>1, <5>2, ElementOfSeq
        <5>4. tickets[k].link \in Nat /\ tickets[k].link # 0
          BY <2>3, <3>2, <5>3 DEF NoTicket
        <5>5. QED
          BY <4>1, <5>2, <5>4
      <4>3. QED
        BY <2>3, <3>2, <4>1, <4>2
    <3>3. QED
      BY <3>1, <3>2
  <2>6. TurnsKept
    <3>1. Traced(tickets', s, d)
      BY <1>1, <2>4, GrowsKeeps
    <3>2. QED
      BY <2>1, <3>1, GotoKept DEF StepReady, Unfiled
  <2>7. QED
    BY <1>20, <2>4, <2>5, <2>6, KeptSuffices
       DEF LinkMade, store, DraftsKept, RowsKept, ReviewsKept
<1>21. CASE LinkFails(t)
  <2>1. TurnsKept
    BY <1>1, <1>21, GotoKept DEF LinkFails, loopVars, StepReady, Unfiled
  <2>2. QED
    BY <1>2, <1>21, <2>1 DEF LinkFails, loopVars, store
<1>22. CASE Index(t)
  <2>1. d \in Draft /\ d # NoDraft /\ s \in Sessions
    BY <1>1, <1>22 DEF Index, At
  <2>2. UNCHANGED <<tickets, drafts, review>>
    BY <1>22 DEF Index, store
  <2>3. TurnsKept
    BY <1>1, <1>22, GotoKept DEF Index, StepReady, Unfiled
  <2>4. Names(tickets, s, d.ticket)
    BY <1>1, <2>1 DEF Traced
  <2>5. RowsKept
    BY <1>22, <2>2, <2>4 DEF Index, Upserted, RowsKept, RowOf, TypeInv, TypeOK
  <2>6. QED
    BY <2>2, <2>3, <2>5, SameTickets, KeptSuffices DEF DraftsKept, ReviewsKept
<1>23. CASE LoopSave(t)
  <2>1. UNCHANGED <<tickets, rows, review>>
    BY <1>23 DEF LoopSave, loopVars
  <2>2. TurnsKept
    BY <1>1, <1>23, <2>1, ReturnKept DEF LoopSave
  <2>3. DraftsKept
    BY <1>1, <1>23, <2>1 DEF LoopSave, DraftsKept, TypeInv, TypeOK, ChatTypeOK
  <2>4. QED
    BY <2>1, <2>2, <2>3, SameTickets, KeptSuffices DEF RowsKept, ReviewsKept
<1>24. QED
  BY <1>5, <1>6, <1>7, <1>8, <1>9, <1>10, <1>11, <1>13, <1>14, <1>15, <1>17,
     <1>18, <1>19, <1>20, <1>21, <1>22, <1>23 DEF LoopStep

-----------------------------------------------------------------------------
\* The transport's steps, and everyone else's.

LEMMA TransportStepTicketInv ==
  ASSUME TypeInv, TicketInv, NEW t \in Turns, TransportStep(t)
  PROVE  TicketInv'
<1> DEFINE s == turn[t].session
           d == turn[t].draft
<1>1. UNCHANGED <<tickets, rows, review>>
  BY DEF TransportStep, loopVars, Transport, ChatSave, LogUser, LogReply,
         Register
<1>2. Traced(tickets, s, d) /\ turn[t] \in Turn
  BY DEF TicketInv, TurnsTraced, TurnTraced, TypeInv, TurnsTyped
<1>3. \* a turn that moves on inside the transport
      ASSUME NEW x \in Turn, turn' = [turn EXCEPT ![t] = x],
             x.session = s, x.draft = d, x.at \notin Unfiled \cup {"link"}
      PROVE  TurnsKept
  <2>1. TurnTraced(tickets', x)
    BY <1>1, <1>2, <1>3 DEF TurnTraced, StepReady
  <2>2. QED
    BY <1>3, <2>1 DEF TurnsKept, TypeInv, TurnsTyped
<1>4. ASSUME DraftsKept, TurnsKept
      PROVE  TicketInv'
  BY <1>1, <1>4, SameTickets, KeptSuffices DEF RowsKept, ReviewsKept
<1>5. CASE ChatSave(t)
  <2> DEFINE over == turn[t].reply = "question" /\ ~ MayAskAgain(d)
             x == [turn[t] EXCEPT !.at = "logUser",
                                  !.reply = IF over THEN "cap" ELSE @]
  <2>1. /\ x \in Turn
        /\ x.session = s
        /\ x.draft = d
        /\ x.at \notin Unfiled \cup {"link"}
    BY <1>2 DEF Turn, Steps, Replies, Verdicts, Unfiled
  <2>2. turn' = [turn EXCEPT ![t] = x]
    BY <1>5 DEF ChatSave
  <2> HIDE DEF x
  <2>3. TurnsKept
    BY <1>3, <2>1, <2>2
  <2>4. DraftsKept
    BY <1>1, <1>2, <1>5 DEF ChatSave, DraftsKept, TypeInv, TypeOK, ChatTypeOK
  <2>5. QED
    BY <1>4, <2>3, <2>4
<1>6. ASSUME NEW step \in {"logReply", "register"},
             turn' = [turn EXCEPT ![t].at = step], UNCHANGED drafts
      PROVE  TicketInv'
  <2> DEFINE x == [turn[t] EXCEPT !.at = step]
  <2>1. /\ x \in Turn
        /\ x.session = s
        /\ x.draft = d
        /\ x.at \notin Unfiled \cup {"link"}
    BY <1>2 DEF Turn, Steps, Unfiled
  <2>2. turn' = [turn EXCEPT ![t] = x]
    BY <1>6
  <2> HIDE DEF x
  <2>3. TurnsKept
    BY <1>3, <2>1, <2>2
  <2>4. QED
    BY <1>4, <1>6, <2>3 DEF DraftsKept
<1>7. CASE LogUser(t)
  BY <1>6, <1>7 DEF LogUser
<1>8. CASE LogReply(t)
  BY <1>6, <1>8 DEF LogReply
<1>9. CASE Register(t)
  BY <1>4, <1>9, ReleaseKept DEF Register, DraftsKept
<1>10. QED
  BY <1>5, <1>7, <1>8, <1>9 DEF TransportStep, Transport

LEMMA ReporterTicketInv ==
  ASSUME TypeInv, TicketInv, Reporter, UNCHANGED loopVars
  PROVE  TicketInv'
<1>1. UNCHANGED <<tickets, rows, drafts, review>>
  BY DEF loopVars, Reporter, Post, Reload, Abandon, store
<1>2. TurnsKept
  <2>1. ASSUME NEW s \in Sessions, NEW t \in Turns, Post(s, t)
        PROVE  TurnsKept
    <3> DEFINE x == [IdleTurn EXCEPT !.at = "arrived", !.session = s]
    <3>1. x.at = "arrived" /\ x.draft = NoDraft
      BY DEF IdleTurn
    <3>2. turn' = [turn EXCEPT ![t] = x]
      BY <2>1 DEF Post
    <3> HIDE DEF x
    <3>3. TurnTraced(tickets', x)
      BY <3>1 DEF TurnTraced, Traced, StepReady, Unfiled
    <3>4. QED
      BY <3>2, <3>3 DEF TurnsKept, TypeInv, TurnsTyped
  <2>2. ASSUME NEW s \in Sessions, Reload(s) \/ Abandon(s)
        PROVE  TurnsKept
    BY <2>2 DEF Reload, Abandon, TurnsKept
  <2>3. QED
    BY <2>1, <2>2 DEF Reporter
<1>3. QED
  BY <1>1, <1>2, SameTickets, KeptSuffices DEF DraftsKept, RowsKept, ReviewsKept

LEMMA AdminTicketInv ==
  ASSUME TypeInv, TicketInv, Admin, UNCHANGED loopVars
  PROVE  TicketInv'
<1>1. UNCHANGED <<tickets, rows, turn>>
  BY DEF loopVars, Admin, ReviewRead, Reviewable, ReviewWrite
<1>2. ASSUME NEW r \in Reviewers, NEW s \in Sessions, NEW v \in Terminal,
             ReviewRead(r, s, v)
      PROVE  DraftsKept /\ ReviewsKept
  <2> DEFINE e == [drafts[s] EXCEPT !.status = v]
             x == [session |-> s, draft |-> e]
  <2>1. drafts[s] \in Draft /\ drafts[s].status = "escalated"
    BY <1>2 DEF ReviewRead, Reviewable, TypeInv, TypeOK, ChatTypeOK
  <2>2. drafts[s] # NoDraft /\ Traced(tickets, s, drafts[s])
    BY <1>2 DEF ReviewRead, Reviewable, TicketInv, DraftsTraced
  <2>3. e.ticket = drafts[s].ticket /\ e.dup = drafts[s].dup
    BY <2>1 DEF Draft
  <2> HIDE DEF e
  <2>4. Traced(tickets', s, e)
    BY <1>1, <2>1, <2>2, <2>3 DEF Traced
  <2>5. review' = [review EXCEPT ![r] = x] /\ UNCHANGED drafts
    BY <1>2 DEF ReviewRead, Reviewable, store, e
  <2>6. QED
    BY <2>4, <2>5 DEF DraftsKept, ReviewsKept, TypeInv, ReviewsTyped
<1>3. ASSUME NEW r \in Reviewers, ReviewWrite(r)
      PROVE  DraftsKept /\ ReviewsKept
  <2>1. Traced(tickets', review[r].session, review[r].draft)
    BY <1>1 DEF TicketInv, ReviewsTraced
  <2>2. Traced(tickets', NoReview.session, NoReview.draft)
    BY DEF NoReview, Traced
  <2>3. QED
    BY <1>3, <2>1, <2>2 DEF ReviewWrite, DraftsKept, ReviewsKept, TypeInv,
                            TypeOK, ChatTypeOK, ReviewsTyped
<1>4. DraftsKept /\ ReviewsKept
  BY <1>2, <1>3 DEF Admin
<1>5. QED
  BY <1>1, <1>4, SameTickets, KeptSuffices DEF RowsKept, TurnsKept

LEMMA FailureTicketInv ==
  ASSUME TypeInv, TicketInv
  PROVE  /\ \A s \in Sessions : Expire(s) /\ UNCHANGED loopVars => TicketInv'
         /\ \A t \in Turns : Fail(t) => TicketInv'
         /\ \A i \in Instances : Crash(i) => TicketInv'
<1>1. ASSUME UNCHANGED <<tickets, rows, review>>, DraftsKept, TurnsKept
      PROVE  TicketInv'
  BY <1>1, SameTickets, KeptSuffices DEF RowsKept, ReviewsKept
<1>2. ASSUME NEW s \in Sessions, Expire(s), UNCHANGED loopVars
      PROVE  TicketInv'
  <2>1. UNCHANGED <<tickets, rows, review, turn>>
    BY <1>2 DEF Expire, loopVars
  <2>2. DraftsKept
    BY <1>2 DEF Expire, DraftsKept, Traced, TypeInv, TypeOK, ChatTypeOK
  <2>3. QED
    BY <1>1, <2>1, <2>2 DEF TurnsKept
<1>3. ASSUME NEW t \in Turns, Fail(t)
      PROVE  TicketInv'
  BY <1>1, <1>3, ReleaseKept DEF Fail, Abort, loopVars, store, DraftsKept
<1>4. ASSUME NEW i \in Instances, Crash(i)
      PROVE  TicketInv'
  <2>1. TurnsKept
    BY <1>4, IdleTurnTraced DEF Crash, TurnsKept
  <2>2. QED
    BY <1>1, <1>4, <2>1 DEF Crash, store, DraftsKept
<1>5. QED
  BY <1>2, <1>3, <1>4

-----------------------------------------------------------------------------
LEMMA NextTicketInv ==
  ASSUME TypeInv, TicketInv, [Next]_vars
  PROVE  TicketInv'
<1>1. CASE UNCHANGED vars
  BY <1>1, SameTickets, KeptSuffices
     DEF vars, chatVars, loopVars, DraftsKept, RowsKept, TurnsKept, ReviewsKept
<1>2. CASE Next
  BY <1>2, LoopStepTicketInv, TransportStepTicketInv, ReporterTicketInv,
     AdminTicketInv, FailureTicketInv DEF Next
<1>3. QED
  BY <1>1, <1>2

LEMMA TicketInvAlways == Spec => []TicketInv
<1>1. Init => TicketInv
  BY InitTicketInv
<1>2. TypeInv /\ TicketInv /\ [Next]_vars => TicketInv'
  BY NextTicketInv
<1>3. QED
  BY <1>1, <1>2, TypeInvAlways, PTL DEF Spec

\* Stored drafts and index rows only name issues the tracker created for their
\* own conversation, however turns and reviews overwrite each other.
THEOREM TicketsTracedAlways == Spec => []TicketsTraced
<1>1. TicketInv => TicketsTraced
  BY DEF TicketInv, DraftsTraced, RowsTraced, Traced, Names, TicketsTraced,
         OwnTicket, Tickets
<1>2. QED
  BY <1>1, TicketInvAlways, PTL

\* A stored draft that names a ticket is filed: a reviewer never decides about
\* a request that has one.
THEOREM TicketMeansFiledAlways == Spec => []TicketMeansFiled
<1>1. TicketInv => TicketMeansFiled
  BY DEF TicketInv, DraftsTraced, Traced, TicketMeansFiled
<1>2. QED
  BY <1>1, TicketInvAlways, PTL

\* Links between issues lead from younger to older issues of other
\* conversations on the same topic, so they never form a cycle.
THEOREM LinksPointBackAlways == Spec => []LinksPointBack
<1>1. TicketInv => LinksPointBack
  BY DEF TicketInv
<1>2. QED
  BY <1>1, TicketInvAlways, PTL

-----------------------------------------------------------------------------
(***************************************************************************)
(* Whatever the store holds is settled: it waits for an answer it may ask  *)
(* for, or it has passed the clarify gate and its row is in the index.     *)
(*                                                                         *)
(* A draft is stored some steps after the gate let it through, and again   *)
(* by the transport or by a review.  SettledInv therefore says of every    *)
(* turn what its step implies about the draft it carries, and of every     *)
(* review that what it will write is decided.  Turns overlap freely: no    *)
(* step takes a row out of the index, so what was indexed stays indexed.   *)
(***************************************************************************)

\* The clarify gate has nothing more to ask.
Gated(d) == Missing(d) = {} \/ d.round >= MaxRounds

Waiting(d) ==
  /\ d.status = "gathering_info"
  /\ Missing(d) # {}
  /\ d.round < MaxRounds

Decided(d) ==
  /\ d.status \in {"escalated", "filed", "closed"}
  /\ Gated(d)
  /\ d.routing \in {"auto_file", "escalate"}

\* What session s may have stored, rw being the index.
Settled(rw, s, d) ==
  d # NoDraft => Waiting(d) \/ (Decided(d) /\ rw[s].present)

\* What each await past the gate says of the draft.
StepSettled(rw, at, s, d) ==
  /\ at \in {"nearest", "score"} => Gated(d)
  /\ at = "create" => Gated(d) /\ d.routing = "auto_file"
  /\ at \in {"link", "index"} => Decided(d)
  /\ at \in {"loopSave", "chatSave"} => Settled(rw, s, d)

TurnSettled(rw, x) == StepSettled(rw, x.at, x.session, x.draft)

DraftsSettled == \A s \in Sessions : Settled(rows, s, drafts[s])
TurnsSettled == \A t \in Turns : TurnSettled(rows, turn[t])
ReviewsSettled ==
  \A r \in Reviewers : Settled(rows, review[r].session, review[r].draft)

SettledInv == DraftsSettled /\ TurnsSettled /\ ReviewsSettled

-----------------------------------------------------------------------------
\* The index grows: no row leaves it.
RowsGrow(rw, rw2) ==
  \A s \in Sessions : rw[s].present => rw2[s].present

LEMMA GrowthKeeps ==
  ASSUME NEW rw, NEW rw2, RowsGrow(rw, rw2)
  PROVE  /\ \A s \in Sessions : \A d : Settled(rw, s, d) => Settled(rw2, s, d)
         /\ \A s \in Sessions : \A at, d :
              StepSettled(rw, at, s, d) => StepSettled(rw2, at, s, d)
<1>1. \A s \in Sessions : \A d : Settled(rw, s, d) => Settled(rw2, s, d)
  BY DEF RowsGrow, Settled
<1>2. QED
  BY <1>1 DEF StepSettled

\* A step keeps what is settled when whatever it puts somewhere new is.
DraftsRemain ==
  \A s \in Sessions :
    drafts'[s] = drafts[s] \/ Settled(rows', s, drafts'[s])
TurnsRemain ==
  \A t \in Turns : turn'[t] = turn[t] \/ TurnSettled(rows', turn'[t])
ReviewsRemain ==
  \A r \in Reviewers :
    \/ review'[r] = review[r]
    \/ Settled(rows', review'[r].session, review'[r].draft)

\* A free slot, or a turn that has not read the store, says nothing.
LEMMA QuietSettled ==
  ASSUME NEW rw, NEW x, x.at \in {"idle", "arrived", "classify", "logUser",
                                  "logReply", "register"}
  PROVE  TurnSettled(rw, x)
BY DEF TurnSettled, StepSettled

LEMMA RemainSuffices ==
  ASSUME TypeInv, SettledInv, RowsGrow(rows, rows'),
         DraftsRemain, TurnsRemain, ReviewsRemain
  PROVE  SettledInv'
<1>1. DraftsSettled'
  BY GrowthKeeps DEF SettledInv, DraftsSettled, DraftsRemain
<1>2. TurnsSettled'
  <2> SUFFICES ASSUME NEW t \in Turns PROVE TurnSettled(rows', turn'[t])
    BY DEF TurnsSettled
  <2>1. CASE turn'[t] # turn[t]
    BY <2>1 DEF TurnsRemain
  <2>2. CASE turn'[t] = turn[t] /\ turn[t].at = "idle"
    BY <2>2, QuietSettled
  <2>3. CASE turn'[t] = turn[t] /\ turn[t].at # "idle"
    <3>1. turn[t].session \in Sessions
      BY <2>3 DEF TypeInv, TurnsTyped
    <3>2. TurnSettled(rows, turn[t])
      BY DEF SettledInv, TurnsSettled
    <3>3. QED
      BY <2>3, <3>1, <3>2, GrowthKeeps DEF TurnSettled
  <2>4. QED
    BY <2>1, <2>2, <2>3
<1>3. ReviewsSettled'
  <2> SUFFICES ASSUME NEW r \in Reviewers
               PROVE  Settled(rows', review'[r].session, review'[r].draft)
    BY DEF ReviewsSettled
  <2>1. CASE review'[r] # review[r]
    BY <2>1 DEF ReviewsRemain
  <2>2. CASE review'[r] = review[r] /\ review[r].draft = NoDraft
    BY <2>2 DEF Settled
  <2>3. CASE review'[r] = review[r] /\ review[r].draft # NoDraft
    <3>1. review[r].session \in Sessions
      BY <2>3 DEF TypeInv, ReviewsTyped
    <3>2. Settled(rows, review[r].session, review[r].draft)
      BY DEF SettledInv, ReviewsSettled
    <3>3. QED
      BY <2>3, <3>1, <3>2, GrowthKeeps
  <2>4. QED
    BY <2>1, <2>2, <2>3
<1>4. QED
  BY <1>1, <1>2, <1>3 DEF SettledInv

LEMMA SameRows ==
  ASSUME UNCHANGED rows
  PROVE  RowsGrow(rows, rows')
BY DEF RowsGrow

-----------------------------------------------------------------------------
\* The ways a turn moves.

LEMMA GotoRemains ==
  ASSUME TypeInv, NEW t \in Turns, NEW step, NEW d, Goto(t, step, d),
         StepSettled(rows', step, turn[t].session, d)
  PROVE  TurnsRemain
<1> DEFINE x == [turn[t] EXCEPT !.at = step, !.draft = d]
<1>1. turn' = [turn EXCEPT ![t] = x] /\ turn[t] \in Turn
  BY DEF Goto, TypeInv, TurnsTyped
<1>2. x.session = turn[t].session /\ x.draft = d /\ x.at = step
  BY <1>1 DEF Turn
<1> HIDE DEF x
<1>3. TurnSettled(rows', x)
  BY <1>2 DEF TurnSettled
<1>4. QED
  BY <1>1, <1>3 DEF TurnsRemain, TypeInv, TurnsTyped

LEMMA ReturnRemains ==
  ASSUME TypeInv, NEW t \in Turns, NEW d, NEW reply, Return(t, d, reply),
         Settled(rows', turn[t].session, d)
  PROVE  TurnsRemain
<1> DEFINE x == [turn[t] EXCEPT !.at = "chatSave", !.draft = d, !.reply = reply]
<1>1. turn' = [turn EXCEPT ![t] = x] /\ turn[t] \in Turn
  BY DEF Return, TypeInv, TurnsTyped
<1>2. x.session = turn[t].session /\ x.draft = d /\ x.at = "chatSave"
  BY <1>1 DEF Turn
<1> HIDE DEF x
<1>3. TurnSettled(rows', x)
  BY <1>2 DEF TurnSettled, StepSettled
<1>4. QED
  BY <1>1, <1>3 DEF TurnsRemain, TypeInv, TurnsTyped

LEMMA ReleaseRemains ==
  ASSUME TypeInv, NEW t \in Turns, NEW p, Release(t, p)
  PROVE  TurnsRemain
<1>1. TurnSettled(rows', IdleTurn)
  BY QuietSettled DEF IdleTurn
<1>2. QED
  BY <1>1 DEF Release, TurnsRemain, TypeInv, TurnsTyped

\* A draft keeps what the gate saw when only its status or its duplicate
\* changes.
LEMMA SameGate ==
  ASSUME NEW d, NEW e, e.category = d.category, e.answered = d.answered,
         e.round = d.round
  PROVE  /\ Missing(e) = Missing(d)
         /\ Gated(e) <=> Gated(d)
BY DEF Missing, Gated

LEMMA InitSettledInv == Init => SettledInv
<1> SUFFICES ASSUME Init PROVE SettledInv
  OBVIOUS
<1> USE DEF Init, ChatInit
<1>1. DraftsSettled
  BY DEF DraftsSettled, Settled
<1>2. TurnsSettled
  <2>1. TurnSettled(rows, IdleTurn)
    BY QuietSettled DEF IdleTurn
  <2>2. QED
    BY <2>1 DEF TurnsSettled
<1>3. ReviewsSettled
  BY DEF ReviewsSettled, Settled, NoReview
<1>4. QED
  BY <1>1, <1>2, <1>3 DEF SettledInv

-----------------------------------------------------------------------------
\* The loop's own steps.

LEMMA LoopStepSettledInv ==
  ASSUME TypeInv, SettledInv, NEW t \in Turns, LoopStep(t)
  PROVE  SettledInv'
<1> DEFINE s == turn[t].session
           d == turn[t].draft
<1>1. /\ ~ At(t, "idle") => s \in Sessions
      /\ turn[t].at \notin {"idle", "arrived"} => d \in Draft /\ d # NoDraft
      /\ StepSettled(rows, turn[t].at, s, d)
  BY ChatAssumption
     DEF TypeInv, TurnsTyped, SettledInv, TurnsSettled, TurnSettled, At
<1>2. ASSUME UNCHANGED <<rows, drafts, review>>, TurnsRemain
      PROVE  SettledInv'
  BY <1>2, SameRows, RemainSuffices DEF DraftsRemain, ReviewsRemain
<1>3. CASE Load(t)
  <2> DEFINE e == Absorbed(drafts[s])
  <2>1. s \in Sessions /\ UNCHANGED <<rows, drafts, review>>
    BY <1>1, <1>3 DEF Load, At, loopVars, store
  <2>2. e.status \in Terminal => Settled(rows', s, e)
    <3>1. CASE drafts[s] = NoDraft
      BY <3>1 DEF Absorbed, NewDraft, Terminal
    <3>2. CASE drafts[s] # NoDraft
      <4>1. drafts[s] \in Draft
        BY <2>1, <3>2 DEF TypeInv, TypeOK, ChatTypeOK
      <4>2. /\ e.category = drafts[s].category
            /\ e.answered = drafts[s].answered
            /\ e.routing = drafts[s].routing
            /\ e.status = drafts[s].status
            /\ e.round = drafts[s].round + 1
        BY <3>2, <4>1 DEF Absorbed, Draft
      <4>3. drafts[s].round \in Nat
        BY <4>1 DEF Draft
      <4>4. Settled(rows, s, drafts[s])
        BY <2>1 DEF SettledInv, DraftsSettled
      <4>5. Missing(e) = Missing(drafts[s])
        BY <4>2 DEF Missing
      <4> HIDE DEF e
      <4>6. e.status \in Terminal => Decided(drafts[s]) /\ rows[s].present
        BY <3>2, <4>2, <4>4 DEF Settled, Waiting, Terminal
      <4>7. Decided(drafts[s]) => Decided(e)
        BY <4>2, <4>3, <4>5, DraftAssumption DEF Decided, Gated
      <4>8. QED
        BY <2>1, <4>6, <4>7 DEF Settled
    <3>3. QED
      BY <3>1, <3>2
  <2> HIDE DEF e
  <2>3. CASE e.status \in Terminal
    <3>1. Return(t, e, "report")
      BY <1>3, <2>3 DEF Load, e
    <3>2. QED
      BY <1>2, <2>1, <2>2, <2>3, <3>1, ReturnRemains
  <2>4. CASE e.status \notin Terminal
    <3>1. Goto(t, "classify", e)
      BY <1>3, <2>4 DEF Load, e
    <3>2. StepSettled(rows', "classify", s, e)
      BY DEF StepSettled
    <3>3. QED
      BY <1>2, <2>1, <3>1, <3>2, GotoRemains
  <2>5. QED
    BY <2>3, <2>4
<1>4. ASSUME NEW c \in Categories, NEW found \in SUBSET Fields,
             Clarify(t, c, found)
      PROVE  SettledInv'
  <2> DEFINE b == Classified(d, c, found)
             e == [b EXCEPT !.status = "gathering_info"]
             x == [turn[t] EXCEPT !.at = "loopSave", !.reply = "question",
                                  !.draft = e]
  <2>1. turn[t].at = "classify" /\ d \in Draft
    BY <1>1, <1>4 DEF Clarify, At
  <2>2. b \in Draft
    BY <2>1, DraftChanges
  <2>3. Missing(b) # {} /\ b.round < MaxRounds
    BY <1>4 DEF Clarify, NeedsAnswer, MayAskAgain
  <2>4. UNCHANGED <<rows, drafts, review>>
    BY <1>4 DEF Clarify, loopVars, store
  <2>5. turn' = [turn EXCEPT ![t] = x]
    BY <1>4 DEF Clarify
  <2> HIDE DEF b
  <2>6. Waiting(e)
    BY <2>2, <2>3 DEF Waiting, Missing, Draft
  <2> HIDE DEF e
  <2>7. x.at = "loopSave" /\ x.session = s /\ x.draft = e
    BY DEF TypeInv, TurnsTyped, Turn
  <2> HIDE DEF x
  <2>8. TurnSettled(rows', x)
    BY <2>6, <2>7 DEF TurnSettled, StepSettled, Settled
  <2>9. TurnsRemain
    BY <2>5, <2>8 DEF TurnsRemain, TypeInv, TurnsTyped
  <2>10. QED
    BY <1>2, <2>4, <2>9
<1>5. ASSUME NEW c \in Categories, NEW found \in SUBSET Fields,
             Investigate(t, c, found)
      PROVE  SettledInv'
  <2> DEFINE b == Classified(d, c, found)
             e == [b EXCEPT !.status = "investigating"]
  <2>1. turn[t].at = "classify" /\ d \in Draft
    BY <1>1, <1>5 DEF Investigate, At
  <2>2. b \in Draft
    BY <2>1, DraftChanges
  <2>3. Missing(b) = {} \/ ~ (b.round < MaxRounds)
    BY <1>5 DEF Investigate, NeedsAnswer, MayAskAgain
  <2>4. UNCHANGED <<rows, drafts, review>> /\ Goto(t, "nearest", e)
    BY <1>5 DEF Investigate, store
  <2> HIDE DEF b
  <2>5. Gated(e)
    BY <2>2, <2>3, DraftAssumption DEF Gated, Missing, Draft
  <2> HIDE DEF e
  <2>6. StepSettled(rows', "nearest", s, e)
    BY <2>5 DEF StepSettled
  <2>7. QED
    BY <1>2, <2>4, <2>6, GotoRemains
<1>6. CASE Nearest(t)
  <2>1. turn[t].at = "nearest" /\ d \in Draft /\ Gated(d)
    BY <1>1, <1>6 DEF Nearest, At, StepSettled
  <2>2. PICK ref : Goto(t, "score", [d EXCEPT !.dup = ref])
    BY <1>6 DEF Nearest
  <2> DEFINE e == [d EXCEPT !.dup = ref]
  <2>3. UNCHANGED <<rows, drafts, review>>
    BY <1>6 DEF Nearest, loopVars, store
  <2>4. e.category = d.category /\ e.answered = d.answered /\ e.round = d.round
    BY <2>1 DEF Draft
  <2> HIDE DEF e
  <2>5. StepSettled(rows', "score", s, e)
    BY <2>1, <2>4, SameGate DEF StepSettled
  <2>6. QED
    BY <1>2, <2>2, <2>3, <2>5, GotoRemains DEF e
<1>7. \* past the gate routing only files or escalates
      ASSUME turn[t].at = "score", NEW score \in Scores
      PROVE  /\ Scored(d, score) \in Draft
             /\ Gated(Scored(d, score))
             /\ Scored(d, score).routing \in {"auto_file", "escalate"}
  <2>1. d \in Draft /\ Gated(d)
    BY <1>1, <1>7 DEF StepSettled
  <2>2. Scored(d, score) \in Draft
    BY <2>1, DraftChanges
  <2>3. DecideRouting(d, score) \in {"auto_file", "escalate"}
    <3>1. ~ (Missing(d) # {} /\ MayAskAgain(d))
      BY <2>1, DraftAssumption DEF Gated, MayAskAgain, Draft
    <3>2. QED
      BY <3>1 DEF DecideRouting
  <2>4. /\ Scored(d, score).category = d.category
        /\ Scored(d, score).answered = d.answered
        /\ Scored(d, score).round = d.round
        /\ Scored(d, score).routing = DecideRouting(d, score)
    BY <2>1 DEF Scored, Draft
  <2>5. QED
    BY <2>1, <2>2, <2>3, <2>4, SameGate
<1>8. ASSUME NEW score \in Scores, Escalate(t, score)
      PROVE  SettledInv'
  <2> DEFINE b == Scored(d, score)
             e == [b EXCEPT !.status = "escalated"]
  <2>1. b \in Draft /\ Gated(b) /\ b.routing \in {"auto_file", "escalate"}
    BY <1>7, <1>8 DEF Escalate, At
  <2>2. UNCHANGED <<rows, drafts, review>> /\ Goto(t, "index", e)
    BY <1>8 DEF Escalate, loopVars, store
  <2> HIDE DEF b
  <2>3. /\ e.category = b.category /\ e.answered = b.answered
        /\ e.round = b.round /\ e.routing = b.routing /\ e.status = "escalated"
    BY <2>1 DEF Draft
  <2> HIDE DEF e
  <2>4. Decided(e)
    BY <2>1, <2>3, SameGate DEF Decided
  <2>5. StepSettled(rows', "index", s, e)
    BY <2>4 DEF StepSettled
  <2>6. QED
    BY <1>2, <2>2, <2>5, GotoRemains
<1>9. ASSUME NEW score \in Scores, StartFiling(t, score)
      PROVE  SettledInv'
  <2> DEFINE e == Scored(d, score)
  <2>1. Gated(e) /\ e.routing = "auto_file"
    BY <1>7, <1>9 DEF StartFiling, At
  <2>2. UNCHANGED <<rows, drafts, review>> /\ Goto(t, "create", e)
    BY <1>9 DEF StartFiling, store
  <2> HIDE DEF e
  <2>3. StepSettled(rows', "create", s, e)
    BY <2>1 DEF StepSettled
  <2>4. QED
    BY <1>2, <2>2, <2>3, GotoRemains
<1>10. ASSUME NEW score \in Scores, RefuseFiling(t, score)
       PROVE  SettledInv'
  BY <1>2, <1>10, ReleaseRemains DEF RefuseFiling, Abort, loopVars, store
<1>11. ASSUME At(t, "create")
       PROVE  /\ Decided(Filed(d))
              /\ Decided([d EXCEPT !.status = "escalated"])
  <2>1. d \in Draft /\ Gated(d) /\ d.routing = "auto_file"
    BY <1>1, <1>11 DEF At, StepSettled
  <2>2. PICK e : e = Filed(d)
    OBVIOUS
  <2>3. /\ e.category = d.category /\ e.answered = d.answered
        /\ e.round = d.round /\ e.routing = d.routing /\ e.status = "filed"
    BY <2>1, <2>2 DEF Filed, Draft
  <2>4. Decided(e)
    BY <2>1, <2>3, SameGate DEF Decided
  <2>5. PICK f : f = [d EXCEPT !.status = "escalated"]
    OBVIOUS
  <2>6. /\ f.category = d.category /\ f.answered = d.answered
        /\ f.round = d.round /\ f.routing = d.routing /\ f.status = "escalated"
    BY <2>1, <2>5 DEF Draft
  <2>7. Decided(f)
    BY <2>1, <2>6, SameGate DEF Decided
  <2>8. QED
    BY <2>2, <2>4, <2>5, <2>7
<1>12. ASSUME NEW step \in {"link", "index"}, NEW e, Goto(t, step, e), Decided(e),
              UNCHANGED <<rows, drafts, review>>
       PROVE  SettledInv'
  <2>1. StepSettled(rows', step, s, e)
    BY <1>12 DEF StepSettled
  <2>2. QED
    BY <1>2, <1>12, <2>1, GotoRemains
<1>13. CASE FileNew(t)
  BY <1>11, <1>12, <1>13 DEF FileNew, store
<1>14. CASE FileDuplicate(t)
  BY <1>11, <1>12, <1>14 DEF FileDuplicate, store
<1>15. CASE RefuseLink(t)
  BY <1>2, <1>15, ReleaseRemains DEF RefuseLink, Abort, store
<1>16. CASE FilingFails(t)
  BY <1>11, <1>12, <1>16 DEF FilingFails, loopVars, store
<1>17. CASE FilingUnanswered(t)
  BY <1>11, <1>12, <1>17 DEF FilingUnanswered, store
<1>18. CASE FilingUnreadable(t)
  BY <1>2, <1>18, ReleaseRemains DEF FilingUnreadable, Abort, store
<1>19. CASE LinkMade(t)
  BY <1>1, <1>12, <1>19 DEF LinkMade, store, At, StepSettled
<1>20. CASE LinkFails(t)
  BY <1>1, <1>12, <1>20 DEF LinkFails, loopVars, store, At, StepSettled
<1>21. CASE Index(t)
  <2>1. d \in Draft /\ s \in Sessions /\ Decided(d)
    BY <1>1, <1>21 DEF Index, At, StepSettled
  <2>2. UNCHANGED <<drafts, review>> /\ Goto(t, "loopSave", d)
    BY <1>21 DEF Index, store
  <2>3. PICK row : row = [present |-> TRUE, ticket |-> d.ticket]
    OBVIOUS
  <2>4. rows' = [rows EXCEPT ![s] = row]
    BY <1>21, <2>3 DEF Index, Upserted, RowOf
  <2>5. rows \in [Sessions -> [present : BOOLEAN, ticket : Nat]]
    BY DEF TypeInv, TypeOK
  <2>6. rows'[s].present /\ RowsGrow(rows, rows')
    BY <2>1, <2>3, <2>4, <2>5 DEF RowsGrow
  <2>7. StepSettled(rows', "loopSave", s, d)
    BY <2>1, <2>6 DEF StepSettled, Settled
  <2>8. TurnsRemain
    BY <2>2, <2>7, GotoRemains
  <2>9. QED
    BY <2>2, <2>6, <2>8, RemainSuffices DEF DraftsRemain, ReviewsRemain
<1>22. CASE LoopSave(t)
  <2>1. UNCHANGED <<rows, review>> /\ Settled(rows, s, d)
    BY <1>1, <1>22 DEF LoopSave, loopVars, At, StepSettled
  <2>2. TurnsRemain
    BY <1>22, <2>1, ReturnRemains DEF LoopSave
  <2>3. DraftsRemain
    BY <1>22, <2>1 DEF LoopSave, DraftsRemain, TypeInv, TypeOK, ChatTypeOK
  <2>4. QED
    BY <2>1, <2>2, <2>3, SameRows, RemainSuffices DEF ReviewsRemain
<1>23. QED
  BY <1>3, <1>4, <1>5, <1>6, <1>8, <1>9, <1>10, <1>13, <1>14, <1>15, <1>16,
     <1>17, <1>18, <1>19, <1>20, <1>21, <1>22 DEF LoopStep

-----------------------------------------------------------------------------
\* The transport's steps, and everyone else's.

LEMMA TransportStepSettledInv ==
  ASSUME TypeInv, SettledInv, NEW t \in Turns, TransportStep(t)
  PROVE  SettledInv'
<1> DEFINE s == turn[t].session
           d == turn[t].draft
<1>1. UNCHANGED <<rows, review>>
  BY DEF TransportStep, loopVars, Transport, ChatSave, LogUser, LogReply,
         Register
<1>2. turn[t] \in Turn
  BY DEF TypeInv, TurnsTyped
<1>3. ASSUME DraftsRemain, TurnsRemain
      PROVE  SettledInv'
  BY <1>1, <1>3, SameRows, RemainSuffices DEF ReviewsRemain
<1>4. \* a turn that moves on inside the transport
      ASSUME NEW x, turn' = [turn EXCEPT ![t] = x],
             x.at \in {"logUser", "logReply", "register"}
      PROVE  TurnsRemain
  <2>1. TurnSettled(rows', x)
    BY <1>4, QuietSettled
  <2>2. QED
    BY <1>4, <2>1 DEF TurnsRemain, TypeInv, TurnsTyped
<1>5. CASE ChatSave(t)
  <2> DEFINE over == turn[t].reply = "question" /\ ~ MayAskAgain(d)
             x == [turn[t] EXCEPT !.at = "logUser",
                                  !.reply = IF over THEN "cap" ELSE @]
  <2>1. x.at = "logUser"
    BY <1>2 DEF Turn
  <2>2. turn' = [turn EXCEPT ![t] = x]
    BY <1>5 DEF ChatSave
  <2> HIDE DEF x
  <2>3. TurnsRemain
    BY <1>4, <2>1, <2>2
  <2>4. Settled(rows', s, d)
    BY <1>1, <1>5
       DEF ChatSave, At, SettledInv, TurnsSettled, TurnSettled, StepSettled
  <2>5. DraftsRemain
    BY <1>5, <2>4 DEF ChatSave, DraftsRemain, TypeInv, TypeOK, ChatTypeOK
  <2>6. QED
    BY <1>3, <2>3, <2>5
<1>6. ASSUME NEW step \in {"logReply", "register"},
             turn' = [turn EXCEPT ![t].at = step], UNCHANGED drafts
      PROVE  SettledInv'
  <2> DEFINE x == [turn[t] EXCEPT !.at = step]
  <2>1. x.at = step
    BY <1>2 DEF Turn
  <2>2. turn' = [turn EXCEPT ![t] = x]
    BY <1>6
  <2> HIDE DEF x
  <2>3. TurnsRemain
    BY <1>4, <2>1, <2>2
  <2>4. QED
    BY <1>3, <1>6, <2>3 DEF DraftsRemain
<1>7. CASE LogUser(t)
  BY <1>6, <1>7 DEF LogUser
<1>8. CASE LogReply(t)
  BY <1>6, <1>8 DEF LogReply
<1>9. CASE Register(t)
  BY <1>3, <1>9, ReleaseRemains DEF Register, DraftsRemain
<1>10. QED
  BY <1>5, <1>7, <1>8, <1>9 DEF TransportStep, Transport

LEMMA ReporterSettledInv ==
  ASSUME TypeInv, SettledInv, Reporter, UNCHANGED loopVars
  PROVE  SettledInv'
<1>1. UNCHANGED <<rows, drafts, review>>
  BY DEF loopVars, Reporter, Post, Reload, Abandon, store
<1>2. TurnsRemain
  <2>1. ASSUME NEW s \in Sessions, NEW t \in Turns, Post(s, t)
        PROVE  TurnsRemain
    <3> DEFINE x == [IdleTurn EXCEPT !.at = "arrived", !.session = s]
    <3>1. x.at = "arrived"
      BY DEF IdleTurn
    <3>2. turn' = [turn EXCEPT ![t] = x]
      BY <2>1 DEF Post
    <3> HIDE DEF x
    <3>3. TurnSettled(rows', x)
      BY <3>1, QuietSettled
    <3>4. QED
      BY <3>2, <3>3 DEF TurnsRemain, TypeInv, TurnsTyped
  <2>2. ASSUME NEW s \in Sessions, Reload(s) \/ Abandon(s)
        PROVE  TurnsRemain
    BY <2>2 DEF Reload, Abandon, TurnsRemain
  <2>3. QED
    BY <2>1, <2>2 DEF Reporter
<1>3. QED
  BY <1>1, <1>2, SameRows, RemainSuffices DEF DraftsRemain, ReviewsRemain

\* A verdict decides what the gate let through: the draft was escalated.
LEMMA AdminSettledInv ==
  ASSUME TypeInv, SettledInv, Admin, UNCHANGED loopVars
  PROVE  SettledInv'
<1>1. UNCHANGED <<rows, turn>>
  BY DEF loopVars, Admin, ReviewRead, Reviewable, ReviewWrite
<1>2. ASSUME NEW r \in Reviewers, NEW s \in Sessions, NEW v \in Terminal,
             ReviewRead(r, s, v)
      PROVE  DraftsRemain /\ ReviewsRemain
  <2> DEFINE e == [drafts[s] EXCEPT !.status = v]
             x == [session |-> s, draft |-> e]
  <2>1. drafts[s] \in Draft /\ drafts[s].status = "escalated"
    BY <1>2 DEF ReviewRead, Reviewable, TypeInv, TypeOK, ChatTypeOK
  <2>2. Decided(drafts[s]) /\ rows[s].present
    <3>1. drafts[s] # NoDraft /\ Settled(rows, s, drafts[s])
      BY <1>2 DEF ReviewRead, Reviewable, SettledInv, DraftsSettled
    <3>2. QED
      BY <2>1, <3>1 DEF Settled, Waiting
  <2>3. /\ e.category = drafts[s].category /\ e.answered = drafts[s].answered
        /\ e.round = drafts[s].round /\ e.routing = drafts[s].routing
        /\ e.status \in {"filed", "closed"}
    BY <2>1 DEF Draft, Terminal
  <2> HIDE DEF e
  <2>4. Decided(e)
    BY <2>2, <2>3, SameGate DEF Decided
  <2>5. Settled(rows', s, e)
    BY <1>1, <2>2, <2>4 DEF Settled
  <2>6. review' = [review EXCEPT ![r] = x] /\ UNCHANGED drafts
    BY <1>2 DEF ReviewRead, Reviewable, store, e
  <2>7. QED
    BY <2>5, <2>6 DEF DraftsRemain, ReviewsRemain, TypeInv, ReviewsTyped
<1>3. ASSUME NEW r \in Reviewers, ReviewWrite(r)
      PROVE  DraftsRemain /\ ReviewsRemain
  <2>1. Settled(rows', review[r].session, review[r].draft)
    BY <1>1 DEF SettledInv, ReviewsSettled
  <2>2. Settled(rows', NoReview.session, NoReview.draft)
    BY DEF NoReview, Settled
  <2>3. QED
    BY <1>3, <2>1, <2>2 DEF ReviewWrite, DraftsRemain, ReviewsRemain, TypeInv,
                            TypeOK, ChatTypeOK, ReviewsTyped
<1>4. DraftsRemain /\ ReviewsRemain
  BY <1>2, <1>3 DEF Admin
<1>5. QED
  BY <1>1, <1>4, SameRows, RemainSuffices DEF TurnsRemain

LEMMA FailureSettledInv ==
  ASSUME TypeInv, SettledInv
  PROVE  /\ \A s \in Sessions : Expire(s) /\ UNCHANGED loopVars => SettledInv'
         /\ \A t \in Turns : Fail(t) => SettledInv'
         /\ \A i \in Instances : Crash(i) => SettledInv'
<1>1. ASSUME UNCHANGED <<rows, review>>, DraftsRemain, TurnsRemain
      PROVE  SettledInv'
  BY <1>1, SameRows, RemainSuffices DEF ReviewsRemain
<1>2. ASSUME NEW s \in Sessions, Expire(s), UNCHANGED loopVars
      PROVE  SettledInv'
  <2>1. UNCHANGED <<rows, review, turn>>
    BY <1>2 DEF Expire, loopVars
  <2>2. DraftsRemain
    BY <1>2 DEF Expire, DraftsRemain, Settled, TypeInv, TypeOK, ChatTypeOK
  <2>3. QED
    BY <1>1, <2>1, <2>2 DEF TurnsRemain
<1>3. ASSUME NEW t \in Turns, Fail(t)
      PROVE  SettledInv'
  BY <1>1, <1>3, ReleaseRemains DEF Fail, Abort, loopVars, store, DraftsRemain
<1>4. ASSUME NEW i \in Instances, Crash(i)
      PROVE  SettledInv'
  <2>1. TurnSettled(rows', IdleTurn)
    BY QuietSettled DEF IdleTurn
  <2>2. TurnsRemain
    BY <1>4, <2>1 DEF Crash, TurnsRemain
  <2>3. QED
    BY <1>1, <1>4, <2>2 DEF Crash, store, DraftsRemain
<1>5. QED
  BY <1>2, <1>3, <1>4

-----------------------------------------------------------------------------
LEMMA NextSettledInv ==
  ASSUME TypeInv, SettledInv, [Next]_vars
  PROVE  SettledInv'
<1>1. CASE UNCHANGED vars
  BY <1>1, SameRows, RemainSuffices
     DEF vars, chatVars, loopVars, DraftsRemain, TurnsRemain, ReviewsRemain
<1>2. CASE Next
  BY <1>2, LoopStepSettledInv, TransportStepSettledInv, ReporterSettledInv,
     AdminSettledInv, FailureSettledInv DEF Next
<1>3. QED
  BY <1>1, <1>2

LEMMA SettledInvAlways == Spec => []SettledInv
<1>1. Init => SettledInv
  BY InitSettledInv
<1>2. TypeInv /\ SettledInv /\ [Next]_vars => SettledInv'
  BY NextSettledInv
<1>3. QED
  BY <1>1, <1>2, TypeInvAlways, PTL DEF Spec

\* What is stored waits for an answer it may still ask for, or passed the
\* clarify gate and is in the index, whatever fails, dies, overlaps or is
\* overwritten (handle, _index, _save; ChatService.handle; review_draft).
THEOREM StoredIsSettledAlways == Spec => []StoredIsSettled
<1>1. SettledInv => StoredIsSettled
  BY DEF SettledInv, DraftsSettled, Settled, Waiting, Decided, Gated,
         StoredIsSettled
<1>2. QED
  BY <1>1, SettledInvAlways, PTL
-----------------------------------------------------------------------------
(***************************************************************************)
(* What a step does, whoever takes it.                                     *)
(*                                                                         *)
(* A turn is at one await and moves to one that may follow it; a step      *)
(* moves at most one turn, unless it is a restart that frees several.      *)
(***************************************************************************)

\* Where the awaits of a turn lead.
Flow ==
  {<<"arrived", "classify">>, <<"arrived", "chatSave">>,
   <<"classify", "nearest">>, <<"classify", "loopSave">>,
   <<"nearest", "score">>,
   <<"score", "create">>, <<"score", "index">>,
   <<"create", "link">>, <<"create", "index">>, <<"link", "index">>,
   <<"index", "loopSave">>, <<"loopSave", "chatSave">>,
   <<"chatSave", "logUser">>, <<"logUser", "logReply">>,
   <<"logReply", "register">>}

\* A turn has moved on, from x to y.
MovesOn(x, y) == y.session = x.session /\ <<x.at, y.at>> \in Flow

\* Turn t is the one that moves, or gives its slot back to its page.
OneMoves(t) ==
  /\ Others(t)
  /\ \/ MovesOn(turn[t], turn'[t]) /\ UNCHANGED page
     \/ turn'[t] = IdleTurn /\ \E p \in {"ready", "locked"} : Release(t, p)

\* Turn t stores the draft it carries and hands it over to the transport.
LoopStores(t) ==
  /\ turn[t].at = "loopSave" /\ turn'[t].at = "chatSave"
  /\ turn'[t].session = turn[t].session
  /\ drafts' = [drafts EXCEPT ![turn[t].session] = turn[t].draft]

\* Turn t has one more issue created.
Creates(t) ==
  /\ turn[t].at = "create" /\ turn'[t].at \in {"link", "index", "idle"}
  /\ Len(tickets') = Len(tickets) + 1

LEMMA LoopStepMoves ==
  ASSUME TypeInv, NEW t \in Turns, LoopStep(t)
  PROVE  /\ OneMoves(t)
         /\ turn[t].at \in LoopSteps \cup {"arrived"}
         /\ UNCHANGED <<log, registered, posts, review>>
         /\ UNCHANGED drafts \/ LoopStores(t)
         /\ Len(tickets') = Len(tickets) \/ Creates(t)
<1> DEFINE Effect ==
      /\ OneMoves(t)
      /\ turn[t].at \in LoopSteps \cup {"arrived"}
      /\ UNCHANGED <<log, registered, posts, review>>
      /\ UNCHANGED drafts \/ LoopStores(t)
      /\ Len(tickets') = Len(tickets) \/ Creates(t)
<1>1. ASSUME NEW step, NEW d, Goto(t, step, d), <<turn[t].at, step>> \in Flow,
             UNCHANGED page
      PROVE  OneMoves(t)
  BY <1>1, GotoMoves DEF OneMoves, MovesOn
<1>2. ASSUME NEW d, NEW reply, Return(t, d, reply),
             <<turn[t].at, "chatSave">> \in Flow, UNCHANGED page
      PROVE  OneMoves(t)
  BY <1>2, ReturnMoves DEF OneMoves, MovesOn
<1>3. ASSUME NEW p \in {"ready", "locked"}, Release(t, p)
      PROVE  OneMoves(t)
  BY <1>3, ReleaseMoves DEF OneMoves
<1>4. ASSUME NewTicket(t)
      PROVE  Len(tickets') = Len(tickets) + 1
  BY <1>4 DEF NewTicket, TypeInv, TypeOK
<1>5. ASSUME OneMoves(t), turn[t].at \in LoopSteps \cup {"arrived"},
             UNCHANGED <<store, posts, review, tickets>>
      PROVE  Effect
  BY <1>5 DEF store
<1>6. ASSUME NewTicket(t), OneMoves(t), turn[t].at = "create",
             turn'[t].at \in {"link", "index", "idle"},
             UNCHANGED <<store, posts, review>>
      PROVE  Effect
  BY <1>4, <1>6 DEF store, Creates, LoopSteps
<1>7. CASE Load(t)
  <2> DEFINE d == Absorbed(drafts[turn[t].session])
  <2>1. /\ turn[t].at = "arrived"
        /\ UNCHANGED <<store, page, posts, review, tickets>>
    BY <1>7 DEF Load, At, loopVars
  <2>2. Return(t, d, "report") \/ Goto(t, "classify", d)
    BY <1>7 DEF Load
  <2>3. OneMoves(t)
    BY <1>1, <1>2, <2>1, <2>2 DEF Flow
  <2>4. QED
    BY <1>5, <2>1, <2>3
<1>8. ASSUME NEW c \in Categories, NEW found \in SUBSET Fields,
             Clarify(t, c, found)
      PROVE  Effect
  <2> DEFINE e == [Classified(turn[t].draft, c, found)
                     EXCEPT !.status = "gathering_info"]
             x == [turn[t] EXCEPT !.at = "loopSave", !.reply = "question",
                                  !.draft = e]
  <2>1. /\ turn[t].at = "classify"
        /\ UNCHANGED <<store, page, posts, review, tickets>>
    BY <1>8 DEF Clarify, At, loopVars
  <2>2. turn' = [turn EXCEPT ![t] = x] /\ turn[t] \in Turn
    BY <1>8 DEF Clarify, TypeInv, TurnsTyped
  <2>3. x.at = "loopSave" /\ x.session = turn[t].session
    BY <2>2 DEF Turn
  <2> HIDE DEF x
  <2>4. OneMoves(t)
    BY <2>1, <2>2, <2>3, Replaced DEF OneMoves, MovesOn, Flow
  <2>5. QED
    BY <1>5, <2>1, <2>4 DEF LoopSteps
<1>9. ASSUME NEW c \in Categories, NEW found \in SUBSET Fields,
             Investigate(t, c, found)
      PROVE  Effect
  <2>1. /\ turn[t].at = "classify"
        /\ UNCHANGED <<store, page, posts, review, tickets>>
    BY <1>9 DEF Investigate, At
  <2>2. OneMoves(t)
    BY <1>1, <1>9, <2>1 DEF Investigate, Flow
  <2>3. QED
    BY <1>5, <2>1, <2>2 DEF LoopSteps
<1>10. CASE Nearest(t)
  <2>1. /\ turn[t].at = "nearest"
        /\ UNCHANGED <<store, page, posts, review, tickets>>
    BY <1>10 DEF Nearest, At, loopVars
  <2>2. PICK d : Goto(t, "score", d)
    BY <1>10 DEF Nearest
  <2>3. OneMoves(t)
    BY <1>1, <2>1, <2>2 DEF Flow
  <2>4. QED
    BY <1>5, <2>1, <2>3 DEF LoopSteps
<1>11. ASSUME NEW score \in Scores,
              Escalate(t, score) \/ StartFiling(t, score)
       PROVE  Effect
  <2>1. /\ turn[t].at = "score"
        /\ UNCHANGED <<store, page, posts, review, tickets>>
    BY <1>11 DEF Escalate, StartFiling, At, loopVars
  <2>2. PICK d : Goto(t, "index", d) \/ Goto(t, "create", d)
    BY <1>11 DEF Escalate, StartFiling
  <2>3. OneMoves(t)
    BY <1>1, <2>1, <2>2 DEF Flow
  <2>4. QED
    BY <1>5, <2>1, <2>3 DEF LoopSteps
<1>12. ASSUME NEW score \in Scores, RefuseFiling(t, score)
       PROVE  Effect
  BY <1>3, <1>5, <1>12 DEF RefuseFiling, Abort, At, loopVars, LoopSteps
<1>13. ASSUME NEW step \in {"link", "index"}, NEW d, Goto(t, step, d),
              At(t, "create"), UNCHANGED page
       PROVE  OneMoves(t) /\ turn[t].at = "create" /\ turn'[t].at = step
  BY <1>1, <1>13, GotoMoves DEF At, Flow
<1>14. CASE FileNew(t)
  BY <1>6, <1>13, <1>14 DEF FileNew
<1>15. CASE FileDuplicate(t)
  BY <1>6, <1>13, <1>15 DEF FileDuplicate
<1>16. CASE RefuseLink(t) \/ FilingUnreadable(t)
  <2>1. NewTicket(t) /\ Abort(t) /\ turn[t].at = "create"
    BY <1>16 DEF RefuseLink, FilingUnreadable, At
  <2>2. turn'[t].at = "idle" /\ OneMoves(t)
    BY <1>3, <2>1, ReleaseMoves DEF Abort
  <2>3. QED
    BY <1>6, <2>1, <2>2 DEF Abort
<1>17. CASE FilingFails(t)
  BY <1>5, <1>13, <1>17 DEF FilingFails, loopVars, LoopSteps
<1>18. CASE FilingUnanswered(t)
  BY <1>6, <1>13, <1>18 DEF FilingUnanswered
<1>19. ASSUME At(t, "link"), NEW d, Goto(t, "index", d), UNCHANGED page
       PROVE  OneMoves(t) /\ turn[t].at \in LoopSteps
  BY <1>1, <1>19 DEF At, Flow, LoopSteps
<1>20. CASE LinkMade(t)
  <2>1. Len(tickets') = Len(tickets)
    BY <1>20 DEF LinkMade, Linked, TypeInv, TypeOK
  <2>2. OneMoves(t) /\ turn[t].at \in LoopSteps
    BY <1>19, <1>20 DEF LinkMade
  <2>3. QED
    BY <1>20, <2>1, <2>2 DEF LinkMade, store
<1>21. CASE LinkFails(t)
  BY <1>5, <1>19, <1>21 DEF LinkFails, loopVars
<1>22. CASE Index(t)
  <2>1. /\ turn[t].at = "index"
        /\ UNCHANGED <<store, page, posts, review, tickets>>
    BY <1>22 DEF Index, At
  <2>2. OneMoves(t)
    BY <1>1, <1>22, <2>1 DEF Index, Flow
  <2>3. QED
    BY <1>5, <2>1, <2>2 DEF LoopSteps
<1>23. CASE LoopSave(t)
  <2>1. /\ turn[t].at = "loopSave"
        /\ UNCHANGED <<log, registered, page, posts, review, tickets>>
    BY <1>23 DEF LoopSave, At, loopVars
  <2>2. PICK reply : Return(t, turn[t].draft, reply)
    BY <1>23 DEF LoopSave
  <2>3. OneMoves(t)
    BY <1>2, <2>1, <2>2 DEF Flow
  <2>4. LoopStores(t)
    BY <1>23, <2>1, <2>2, ReturnMoves DEF LoopSave, LoopStores
  <2>5. QED
    BY <2>1, <2>3, <2>4 DEF LoopSteps
<1>24. QED
  BY <1>7, <1>8, <1>9, <1>10, <1>11, <1>12, <1>14, <1>15, <1>16, <1>17,
     <1>18, <1>20, <1>21, <1>22, <1>23 DEF LoopStep

\* Turn t, back from the loop, stores what it returned.
ChatStores(t) ==
  /\ turn[t].at = "chatSave" /\ turn'[t].at = "logUser"
  /\ drafts' = [drafts EXCEPT ![turn[t].session] = turn[t].draft]
  /\ UNCHANGED <<log, registered>>

\* Turn t appends a line to the transcript.
Logs(t, step, next, who) ==
  /\ turn[t].at = step /\ turn'[t].at = next
  /\ log' = [log EXCEPT ![turn[t].session] = Append(@, who)]
  /\ UNCHANGED <<drafts, registered>>

\* Turn t lists its session and answers.
Registers(t) ==
  /\ turn[t].at = "register" /\ turn'[t] = IdleTurn
  /\ registered' = registered \cup {turn[t].session}
  /\ UNCHANGED <<drafts, log>>

LEMMA TransportStepMoves ==
  ASSUME TypeInv, NEW t \in Turns, TransportStep(t)
  PROVE  /\ OneMoves(t)
         /\ UNCHANGED <<posts, review, calls, tickets, rows>>
         /\ \/ ChatStores(t)
            \/ Logs(t, "logUser", "logReply", "user")
            \/ Logs(t, "logReply", "register", turn[t].reply)
            \/ Registers(t)
<1>1. UNCHANGED <<posts, review, calls, tickets, rows>>
  BY DEF TransportStep, Transport, ChatSave, LogUser, LogReply, Register,
         loopVars
<1>2. turn[t] \in Turn
  BY DEF TypeInv, TurnsTyped
<1>3. CASE ChatSave(t)
  <2> DEFINE over == turn[t].reply = "question" /\ ~ MayAskAgain(turn[t].draft)
             x == [turn[t] EXCEPT !.at = "logUser",
                                  !.reply = IF over THEN "cap" ELSE @]
  <2>1. x.at = "logUser" /\ x.session = turn[t].session
    BY <1>2 DEF Turn
  <2>2. turn' = [turn EXCEPT ![t] = x]
    BY <1>3 DEF ChatSave
  <2> HIDE DEF x
  <2>3. turn[t].at = "chatSave" /\ turn'[t] = x /\ Others(t)
    BY <1>3, <2>2, Replaced DEF ChatSave, At
  <2>4. ChatStores(t)
    BY <1>3, <2>1, <2>3 DEF ChatSave, ChatStores
  <2>5. QED
    BY <1>1, <1>3, <2>1, <2>3, <2>4 DEF ChatSave, OneMoves, MovesOn, Flow
<1>4. ASSUME NEW step \in {"logReply", "register"},
             turn' = [turn EXCEPT ![t].at = step],
             <<turn[t].at, step>> \in Flow, UNCHANGED page
      PROVE  OneMoves(t) /\ turn'[t].at = step
  <2> DEFINE x == [turn[t] EXCEPT !.at = step]
  <2>1. x.at = step /\ x.session = turn[t].session
    BY <1>2 DEF Turn
  <2>2. turn' = [turn EXCEPT ![t] = x]
    BY <1>4
  <2> HIDE DEF x
  <2>3. turn'[t] = x /\ Others(t)
    BY <2>2, Replaced
  <2>4. QED
    BY <1>4, <2>1, <2>3 DEF OneMoves, MovesOn
<1>5. CASE LogUser(t)
  <2>1. turn[t].at = "logUser" /\ turn' = [turn EXCEPT ![t].at = "logReply"]
    BY <1>5 DEF LogUser, At
  <2>2. OneMoves(t) /\ turn'[t].at = "logReply"
    BY <1>4, <1>5, <2>1 DEF LogUser, Flow
  <2>3. Logs(t, "logUser", "logReply", "user")
    BY <1>5, <2>1, <2>2 DEF LogUser, Logs
  <2>4. QED
    BY <1>1, <2>2, <2>3
<1>6. CASE LogReply(t)
  <2>1. turn[t].at = "logReply" /\ turn' = [turn EXCEPT ![t].at = "register"]
    BY <1>6 DEF LogReply, At
  <2>2. OneMoves(t) /\ turn'[t].at = "register"
    BY <1>4, <1>6, <2>1 DEF LogReply, Flow
  <2>3. Logs(t, "logReply", "register", turn[t].reply)
    BY <1>6, <2>1, <2>2 DEF LogReply, Logs
  <2>4. QED
    BY <1>1, <2>2, <2>3
<1>7. CASE Register(t)
  <2>1. turn[t].at = "register" /\ turn'[t] = IdleTurn /\ OneMoves(t)
    BY <1>7, ReleaseMoves DEF Register, At, OneMoves
  <2>2. QED
    BY <1>1, <1>7, <2>1 DEF Register, Registers, Listed
<1>8. QED
  BY <1>3, <1>5, <1>6, <1>7 DEF TransportStep, Transport

\* A message arrives on free slot t.
Arrives(t) ==
  /\ Others(t)
  /\ turn[t].at = "idle" /\ turn'[t].at = "arrived"
  /\ posts' = posts + 1
  /\ UNCHANGED <<store, review>>

LEMMA ReporterMoves ==
  ASSUME TypeInv, Reporter
  PROVE  \/ \E t \in Turns : Arrives(t)
         \/ UNCHANGED <<store, posts, turn, review>>
<1>1. ASSUME NEW s \in Sessions, NEW t \in Turns, Post(s, t)
      PROVE  Arrives(t)
  <2> DEFINE x == [IdleTurn EXCEPT !.at = "arrived", !.session = s]
  <2>1. turn' = [turn EXCEPT ![t] = x] /\ x.at = "arrived"
    BY <1>1 DEF Post, IdleTurn
  <2> HIDE DEF x
  <2>2. turn'[t].at = "arrived" /\ Others(t)
    BY <2>1, Replaced
  <2>3. QED
    BY <1>1, <2>2 DEF Post, Arrives, At
<1>2. QED
  BY <1>1 DEF Reporter, Reload, Abandon

\* A request is given up: nothing it would have written is written.
GivesUp ==
  /\ \A t \in Turns : turn'[t] = turn[t] \/ turn'[t] = IdleTurn
  /\ UNCHANGED <<store, posts, review, tickets, rows>>

LEMMA FailureMoves ==
  ASSUME TypeInv
  PROVE  /\ \A t \in Turns : Fail(t) => GivesUp
         /\ \A i \in Instances : Crash(i) => GivesUp
<1>1. ASSUME NEW t \in Turns, Fail(t)
      PROVE  GivesUp
  BY <1>1, ReleaseMoves DEF Fail, Abort, GivesUp, Others, loopVars
<1>2. ASSUME NEW i \in Instances, Crash(i)
      PROVE  GivesUp
  BY <1>2 DEF Crash, GivesUp
<1>3. QED
  BY <1>1, <1>2

-----------------------------------------------------------------------------
(***************************************************************************)
(* Every turn advances.                                                    *)
(***************************************************************************)

\* The awaits a turn still has before it, at most.
Left(x) ==
  CASE x.at = "arrived"  -> 12
    [] x.at = "classify" -> 11
    [] x.at = "nearest"  -> 10
    [] x.at = "score"    -> 9
    [] x.at = "create"   -> 8
    [] x.at = "link"     -> 7
    [] x.at = "index"    -> 6
    [] x.at = "loopSave" -> 5
    [] x.at = "chatSave" -> 4
    [] x.at = "logUser"  -> 3
    [] x.at = "logReply" -> 2
    [] x.at = "register" -> 1
    [] x.at = "idle"     -> 0

\* A step that moves a turn under way brings it nearer its answer: handle has no
\* way back to an earlier await and no step is retried, so a message is answered
\* or fails after at most twelve awaits, whatever other turns, reviews and
\* failures do meanwhile (loop.py handle, service.py handle).
TurnsAdvance ==
  [][\A t \in Turns : ~ At(t, "idle") /\ turn'[t] # turn[t]
       => Left(turn'[t]) < Left(turn[t])]_vars

LEMMA FlowAdvances ==
  ASSUME NEW x, NEW y, MovesOn(x, y) \/ (x.at \in Steps \ {"idle"} /\ y = IdleTurn)
  PROVE  Left(y) < Left(x)
BY DEF MovesOn, Flow, Left, IdleTurn, Steps, LoopSteps

LEMMA NextAdvances ==
  ASSUME TypeInv, [Next]_vars, NEW t \in Turns, ~ At(t, "idle"),
         turn'[t] # turn[t]
  PROVE  Left(turn'[t]) < Left(turn[t])
<1>1. turn[t].at \in Steps \ {"idle"}
  BY DEF TypeInv, TurnsTyped, Turn, At
<1>2. MovesOn(turn[t], turn'[t]) \/ turn'[t] = IdleTurn
  <2>1. ASSUME NEW u \in Turns, OneMoves(u)
        PROVE  MovesOn(turn[t], turn'[t]) \/ turn'[t] = IdleTurn
    BY <2>1 DEF OneMoves, Others
  <2>2. CASE (Reporter \/ Admin) /\ UNCHANGED loopVars
    BY <2>2, ReporterMoves DEF Arrives, Others, At, Admin, ReviewRead, ReviewWrite
  <2>3. CASE \E s \in Sessions : Expire(s)
    BY <2>3 DEF Expire
  <2>4. CASE UNCHANGED vars
    BY <2>4 DEF vars, chatVars
  <2>5. QED
    BY <2>1, <2>2, <2>3, <2>4, LoopStepMoves, TransportStepMoves, FailureMoves
       DEF Next, GivesUp
<1>3. QED
  BY <1>1, <1>2, FlowAdvances

\* A message is answered or fails within twelve awaits.
THEOREM TurnsAlwaysAdvance == Spec => TurnsAdvance
<1>1. TypeInv /\ [Next]_vars =>
        [\A t \in Turns : ~ At(t, "idle") /\ turn'[t] # turn[t]
           => Left(turn'[t]) < Left(turn[t])]_vars
  BY NextAdvances
<1>2. QED
  BY <1>1, TypeInvAlways, PTL DEF Spec, TurnsAdvance

-----------------------------------------------------------------------------
(***************************************************************************)
(* A message opens at most one issue.                                      *)
(*                                                                         *)
(* Each message sent is matched to the issue it has opened or to the turn  *)
(* that may still open one: IssueInv counts both, and a turn leaves the    *)
(* second count in the step that adds to the first.                        *)
(***************************************************************************)

\* Turns that may still have an issue created.
Owed == {t \in Turns : turn[t].at \in {"arrived"} \cup Unfiled}

IssueInv == Len(tickets) + Cardinality(Owed) <= posts

\* The tracker holds no more issues than messages were sent: a turn that dies,
\* is refused its link or loses the tracker's answer opens none besides the one
\* it asked for, and none is opened by a retry (_file is not retried, tools.py).
OneIssuePerMessage == Len(tickets) <= posts

LEMMA CountsTyped ==
  ASSUME TypeInv, IsFiniteSet(Turns)
  PROVE  /\ Len(tickets) \in Nat /\ posts \in Nat
         /\ IsFiniteSet(Owed) /\ Cardinality(Owed) \in Nat
<1>1. Len(tickets) \in Nat /\ posts \in Nat
  BY ChatAssumption DEF TypeInv, TypeOK, ChatTypeOK
<1>2. IsFiniteSet(Owed)
  BY FS_Subset DEF Owed
<1>3. QED
  BY <1>1, <1>2, FS_CardinalityType

\* A step in which no turn comes to owe an issue and none is opened.
LEMMA NoneOpened ==
  ASSUME TypeInv, TypeInv', IsFiniteSet(Turns), IssueInv, UNCHANGED posts,
         Len(tickets') = Len(tickets), Owed' \subseteq Owed
  PROVE  IssueInv'
<1>1. Cardinality(Owed') <= Cardinality(Owed) /\ Cardinality(Owed') \in Nat
  BY CountsTyped, FS_Subset, FS_CardinalityType
<1>2. QED
  BY <1>1, CountsTyped DEF IssueInv

LEMMA NextIssueInv ==
  ASSUME TypeInv, IsFiniteSet(Turns), IssueInv, [Next]_vars
  PROVE  IssueInv'
<1>1. TypeInv'
  BY NextTypeInv
<1>2. ASSUME \A t \in Turns : turn'[t] = turn[t] \/ turn'[t] = IdleTurn
      PROVE  Owed' \subseteq Owed
  BY <1>2 DEF Owed, IdleTurn, Unfiled
<1>3. ASSUME NEW t \in Turns, OneMoves(t), turn[t].at # "idle"
      PROVE  Owed' \subseteq Owed
  <2>1. turn'[t].at \in {"arrived"} \cup Unfiled
          => turn[t].at \in {"arrived"} \cup Unfiled
    BY <1>3 DEF OneMoves, MovesOn, Flow, IdleTurn, Unfiled
  <2>2. QED
    BY <1>3, <2>1 DEF OneMoves, Others, Owed
<1>4. ASSUME NEW t \in Turns, LoopStep(t)
      PROVE  IssueInv'
  <2>1. /\ OneMoves(t) /\ turn[t].at # "idle" /\ UNCHANGED posts
        /\ Len(tickets') = Len(tickets) \/ Creates(t)
    BY <1>4, LoopStepMoves DEF LoopSteps
  <2>2. Owed' \subseteq Owed
    BY <1>3, <2>1
  <2>3. CASE Creates(t)
    <3>1. t \in Owed /\ t \notin Owed'
      BY <2>3 DEF Creates, Owed, Unfiled
    <3>2. Owed' \subseteq Owed \ {t}
      BY <2>2, <3>1
    <3>3. Cardinality(Owed \ {t}) = Cardinality(Owed) - 1
      BY <3>1, CountsTyped, FS_RemoveElement
    <3>4. /\ Cardinality(Owed') <= Cardinality(Owed \ {t})
          /\ Cardinality(Owed') \in Nat
      <4>1. IsFiniteSet(Owed \ {t})
        BY CountsTyped, FS_Subset
      <4>2. QED
        BY <3>2, <4>1, FS_Subset, FS_CardinalityType
    <3>5. Len(tickets') = Len(tickets) + 1
      BY <2>3 DEF Creates
    <3>6. QED
      BY <2>1, <3>3, <3>4, <3>5, CountsTyped DEF IssueInv
  <2>4. QED
    BY <1>1, <2>1, <2>2, <2>3, NoneOpened
<1>5. ASSUME NEW t \in Turns, TransportStep(t)
      PROVE  IssueInv'
  <2>1. OneMoves(t) /\ turn[t].at # "idle" /\ UNCHANGED <<posts, tickets>>
    BY <1>5, TransportStepMoves DEF ChatStores, Logs, Registers
  <2>2. QED
    BY <1>1, <1>3, <2>1, NoneOpened
<1>6. ASSUME UNCHANGED <<turn, posts, tickets>>
      PROVE  IssueInv'
  BY <1>6 DEF IssueInv, Owed
<1>7. CASE (Reporter \/ Admin) /\ UNCHANGED loopVars
  <2>1. ASSUME NEW t \in Turns, Arrives(t)
        PROVE  IssueInv'
    <3>1. Owed' = Owed \cup {t} /\ t \notin Owed
      BY <2>1 DEF Arrives, Owed, Others, Unfiled
    <3>2. Cardinality(Owed') = Cardinality(Owed) + 1
      BY <3>1, CountsTyped, FS_AddElement
    <3>3. posts' = posts + 1 /\ tickets' = tickets
      BY <1>7, <2>1 DEF Arrives, loopVars
    <3>4. QED
      BY <3>2, <3>3, CountsTyped DEF IssueInv
  <2>2. QED
    BY <1>6, <1>7, <2>1, ReporterMoves DEF loopVars, Admin, ReviewRead, ReviewWrite
<1>8. CASE \E s \in Sessions : Expire(s) /\ UNCHANGED loopVars
  BY <1>6, <1>8 DEF Expire, loopVars
<1>9. ASSUME GivesUp
      PROVE  IssueInv'
  BY <1>1, <1>2, <1>9, NoneOpened DEF GivesUp
<1>10. CASE UNCHANGED vars
  BY <1>6, <1>10 DEF vars, chatVars, loopVars
<1>11. QED
  BY <1>4, <1>5, <1>7, <1>8, <1>9, <1>10, FailureMoves DEF Next

LEMMA InitIssueInv == ASSUME Init PROVE IssueInv
<1>1. Owed = {}
  BY DEF Init, ChatInit, Owed, IdleTurn, Unfiled
<1>2. QED
  BY <1>1, FS_EmptySet DEF Init, ChatInit, IssueInv

\* A message opens at most one issue, whatever fails, dies or overlaps.
THEOREM OneIssueAMessage ==
  ASSUME IsFiniteSet(Turns)
  PROVE  Spec => []OneIssuePerMessage
<1>1. Init => IssueInv
  BY InitIssueInv
<1>2. TypeInv /\ IssueInv /\ [Next]_vars => IssueInv'
  BY NextIssueInv
<1>3. TypeInv /\ IssueInv => OneIssuePerMessage
  BY CountsTyped DEF IssueInv, OneIssuePerMessage
<1>4. QED
  BY <1>1, <1>2, <1>3, TypeInvAlways, PTL DEF Spec

-----------------------------------------------------------------------------
(***************************************************************************)
(* No reply without a message.                                             *)
(*                                                                         *)
(* Overlapping turns interleave their lines in a transcript, and a turn    *)
(* that dies between its two lines leaves a message without its reply.     *)
(* LogInv counts, besides the lines, the turns that have logged their      *)
(* message and not yet their reply: each of them is owed to a message no   *)
(* reply has used up.                                                      *)
(***************************************************************************)

\* The messages and the replies among the first n lines of a transcript.
Messages(l, n) == {i \in 1..n : l[i] = "user"}
Answers(l, n) == {i \in 1..n : l[i] # "user"}

\* Every beginning of a transcript has at most as many replies as messages,
\* although its turns may overlap or die between their two lines
\* (ChatService.handle; log.py, "Append-only transcript").
RepliesAnswer ==
  \A s \in Sessions : \A n \in 0..Len(log[s]) :
    Cardinality(Answers(log[s], n)) <= Cardinality(Messages(log[s], n))

\* Turns of session s between their two lines.
BetweenLines(s) ==
  {t \in Turns : turn[t].at = "logReply" /\ turn[t].session = s}

LogInv ==
  /\ RepliesAnswer
  /\ \A s \in Sessions :
       Cardinality(Answers(log[s], Len(log[s]))) + Cardinality(BetweenLines(s))
         <= Cardinality(Messages(log[s], Len(log[s])))

LEMMA LinesCounted ==
  ASSUME NEW l, NEW n \in Nat
  PROVE  /\ IsFiniteSet(Messages(l, n)) /\ Cardinality(Messages(l, n)) \in Nat
         /\ IsFiniteSet(Answers(l, n)) /\ Cardinality(Answers(l, n)) \in Nat
<1>1. IsFiniteSet(1..n)
  BY FS_Interval
<1>2. IsFiniteSet(Messages(l, n)) /\ IsFiniteSet(Answers(l, n))
  BY <1>1, FS_Subset DEF Messages, Answers
<1>3. QED
  BY <1>2, FS_CardinalityType

\* What one more line makes of the counts.
LEMMA LineAdded ==
  ASSUME NEW S, NEW l \in Seq(S), NEW e \in S
  PROVE  LET l2 == Append(l, e)
             k == Len(l)
         IN /\ Len(l2) = k + 1 /\ k \in Nat
            /\ \A n \in 0..k : /\ Messages(l2, n) = Messages(l, n)
                               /\ Answers(l2, n) = Answers(l, n)
            /\ e = "user" =>
                 /\ Cardinality(Messages(l2, k + 1))
                      = Cardinality(Messages(l, k)) + 1
                 /\ Answers(l2, k + 1) = Answers(l, k)
            /\ e # "user" =>
                 /\ Messages(l2, k + 1) = Messages(l, k)
                 /\ Cardinality(Answers(l2, k + 1))
                      = Cardinality(Answers(l, k)) + 1
<1> DEFINE l2 == Append(l, e)
           k == Len(l)
<1>1. k \in Nat /\ Len(l2) = k + 1
  BY AppendProperties, LenProperties
<1>2. \A i \in 1..k : l2[i] = l[i]
  BY AppendProperties
<1>3. l2[k + 1] = e
  BY AppendProperties
<1> HIDE DEF l2, k
<1>4. \A n \in 0..k : Messages(l2, n) = Messages(l, n) /\ Answers(l2, n) = Answers(l, n)
  BY <1>1, <1>2 DEF Messages, Answers
<1>5. ASSUME e = "user"
      PROVE  /\ Cardinality(Messages(l2, k + 1)) = Cardinality(Messages(l, k)) + 1
             /\ Answers(l2, k + 1) = Answers(l, k)
  <2>1. Messages(l2, k + 1) = Messages(l, k) \cup {k + 1}
    BY <1>1, <1>2, <1>3, <1>5 DEF Messages
  <2>2. k + 1 \notin Messages(l, k)
    BY <1>1 DEF Messages
  <2>3. Answers(l2, k + 1) = Answers(l, k)
    BY <1>1, <1>2, <1>3, <1>5 DEF Answers
  <2>4. QED
    BY <1>1, <2>1, <2>2, <2>3, LinesCounted, FS_AddElement
<1>6. ASSUME e # "user"
      PROVE  /\ Messages(l2, k + 1) = Messages(l, k)
             /\ Cardinality(Answers(l2, k + 1)) = Cardinality(Answers(l, k)) + 1
  <2>1. Answers(l2, k + 1) = Answers(l, k) \cup {k + 1}
    BY <1>1, <1>2, <1>3, <1>6 DEF Answers
  <2>2. k + 1 \notin Answers(l, k)
    BY <1>1 DEF Answers
  <2>3. Messages(l2, k + 1) = Messages(l, k)
    BY <1>1, <1>2, <1>3, <1>6 DEF Messages
  <2>4. QED
    BY <1>1, <2>1, <2>2, <2>3, LinesCounted, FS_AddElement
<1>7. QED
  BY <1>1, <1>4, <1>5, <1>6 DEF l2, k

LEMMA BetweenTyped ==
  ASSUME IsFiniteSet(Turns), NEW s
  PROVE  IsFiniteSet(BetweenLines(s)) /\ Cardinality(BetweenLines(s)) \in Nat
<1>1. IsFiniteSet(BetweenLines(s))
  BY FS_Subset DEF BetweenLines
<1>2. QED
  BY <1>1, FS_CardinalityType

\* A step that logs nothing, after which no further turn is between its lines.
LEMMA NothingLogged ==
  ASSUME TypeInv, IsFiniteSet(Turns), LogInv, UNCHANGED log,
         \A t \in Turns : turn'[t].at = "logReply" => turn'[t] = turn[t]
  PROVE  LogInv'
<1>1. RepliesAnswer'
  BY DEF LogInv, RepliesAnswer
<1>2. ASSUME NEW s \in Sessions
      PROVE  Cardinality(Answers(log'[s], Len(log'[s])))
               + Cardinality(BetweenLines(s)')
               <= Cardinality(Messages(log'[s], Len(log'[s])))
  <2>1. BetweenLines(s)' \subseteq BetweenLines(s)
    BY DEF BetweenLines
  <2>2. /\ Cardinality(BetweenLines(s)') <= Cardinality(BetweenLines(s))
        /\ Cardinality(BetweenLines(s)') \in Nat
        /\ Cardinality(BetweenLines(s)) \in Nat
    BY <2>1, BetweenTyped, FS_Subset, FS_CardinalityType
  <2>3. Len(log[s]) \in Nat
    BY DEF TypeInv, TypeOK, ChatTypeOK
  <2>4. /\ Cardinality(Answers(log[s], Len(log[s]))) \in Nat
        /\ Cardinality(Messages(log[s], Len(log[s]))) \in Nat
    BY <2>3, LinesCounted
  <2>5. Cardinality(Answers(log[s], Len(log[s]))) + Cardinality(BetweenLines(s))
          <= Cardinality(Messages(log[s], Len(log[s])))
    BY DEF LogInv
  <2>6. QED
    BY <2>2, <2>4, <2>5
<1>3. QED
  BY <1>1, <1>2 DEF LogInv

\* A turn that logs a line.
LEMMA LineLogged ==
  ASSUME TypeInv, IsFiniteSet(Turns), LogInv, NEW t \in Turns, OneMoves(t),
         \/ Logs(t, "logUser", "logReply", "user")
         \/ Logs(t, "logReply", "register", turn[t].reply)
  PROVE  LogInv'
<1>0. PICK u : u = turn[t].session
  OBVIOUS
<1> DEFINE e == IF turn[t].at = "logUser" THEN "user" ELSE turn[t].reply
<1>1. /\ u \in Sessions /\ e \in {"user"} \cup Replies
      /\ e = "user" <=> turn[t].at = "logUser"
  BY <1>0 DEF Logs, TypeInv, TurnsTyped, Turn, Replies, Questions, Verdicts
<1>2. /\ log'[u] = Append(log[u], e) /\ log[u] \in Seq({"user"} \cup Replies)
      /\ \A s \in Sessions \ {u} : log'[s] = log[s]
  BY <1>0, <1>1 DEF Logs, TypeInv, TypeOK, ChatTypeOK
<1>3. \A s \in Sessions \ {u} : BetweenLines(s)' = BetweenLines(s)
  <2>1. /\ turn'[t].session = u \/ turn'[t] = IdleTurn
        /\ \A w \in Turns \ {t} : turn'[w] = turn[w]
    BY <1>0 DEF OneMoves, MovesOn, Others
  <2>2. IdleTurn.at = "idle"
    BY DEF IdleTurn
  <2>3. QED
    BY <1>0, <2>1, <2>2 DEF BetweenLines
<1> DEFINE l == log[u]
           l2 == log'[u]
           k == Len(l)
<1>4. /\ Len(l2) = k + 1 /\ k \in Nat
      /\ \A n \in 0..k : /\ Messages(l2, n) = Messages(l, n)
                         /\ Answers(l2, n) = Answers(l, n)
      /\ e = "user" =>
           /\ Cardinality(Messages(l2, k + 1)) = Cardinality(Messages(l, k)) + 1
           /\ Answers(l2, k + 1) = Answers(l, k)
      /\ e # "user" =>
           /\ Messages(l2, k + 1) = Messages(l, k)
           /\ Cardinality(Answers(l2, k + 1)) = Cardinality(Answers(l, k)) + 1
  <2> HIDE DEF e
  <2>1. QED
    BY SMTT(30), <1>1, <1>2, LineAdded
<1>5. Cardinality(BetweenLines(u)') =
        IF e = "user" THEN Cardinality(BetweenLines(u)) + 1
                      ELSE Cardinality(BetweenLines(u)) - 1
  <2>1. CASE e = "user"
    <3>1. turn[t].at = "logUser" /\ turn'[t].at = "logReply"
      BY <1>1, <2>1 DEF Logs
    <3>2. turn'[t].session = u
      BY <1>0, <3>1 DEF OneMoves, MovesOn, IdleTurn
    <3>3. BetweenLines(u)' = BetweenLines(u) \cup {t} /\ t \notin BetweenLines(u)
      BY <3>1, <3>2 DEF BetweenLines, OneMoves, Others
    <3>4. QED
      BY <2>1, <3>3, BetweenTyped, FS_AddElement
  <2>2. CASE e # "user"
    <3>1. turn[t].at = "logReply" /\ turn'[t].at = "register"
      BY <1>1, <2>2 DEF Logs
    <3>2. BetweenLines(u)' = BetweenLines(u) \ {t} /\ t \in BetweenLines(u)
      BY <1>0, <3>1 DEF BetweenLines, OneMoves, Others
    <3>3. QED
      BY <2>2, <3>2, BetweenTyped, FS_RemoveElement
  <2>3. QED
    BY <2>1, <2>2
<1>6. Cardinality(Answers(l, k)) + Cardinality(BetweenLines(u))
        <= Cardinality(Messages(l, k))
  BY <1>1 DEF LogInv
<1>7. /\ Cardinality(Answers(l, k)) \in Nat /\ Cardinality(Messages(l, k)) \in Nat
      /\ Cardinality(Answers(l2, k + 1)) \in Nat
      /\ Cardinality(BetweenLines(u)) \in Nat
      /\ Cardinality(BetweenLines(u)') \in Nat
  <2>1. k + 1 \in Nat
    BY <1>4
  <2>2. /\ Cardinality(Answers(l, k)) \in Nat
        /\ Cardinality(Messages(l, k)) \in Nat
        /\ Cardinality(Answers(l2, k + 1)) \in Nat
    BY <1>4, <2>1, LinesCounted
  <2>3. e # "user" => Cardinality(BetweenLines(u)) # 0
    <3> HAVE e # "user"
    <3>1. t \in BetweenLines(u)
      BY <1>0, <1>1 DEF Logs, BetweenLines
    <3>2. QED
      BY <3>1, BetweenTyped, FS_EmptySet
  <2>4. Cardinality(BetweenLines(u)) \in Nat
    BY BetweenTyped
  <2>5. Cardinality(BetweenLines(u)') \in Nat
    BY <1>5, <2>3, <2>4
  <2>6. QED
    BY <2>2, <2>4, <2>5
<1>8. Cardinality(Answers(l2, k + 1)) + Cardinality(BetweenLines(u)')
        <= Cardinality(Messages(l2, k + 1))
  <2>1. CASE e = "user"
    BY <1>4, <1>5, <1>6, <1>7, <2>1
  <2>2. CASE e # "user"
    BY <1>4, <1>5, <1>6, <1>7, <2>2
  <2>3. QED
    BY <2>1, <2>2
<1>9. \A n \in 0..Len(l2) :
        Cardinality(Answers(l2, n)) <= Cardinality(Messages(l2, n))
  <2> SUFFICES ASSUME NEW n \in 0..(k + 1)
      PROVE  Cardinality(Answers(l2, n)) <= Cardinality(Messages(l2, n))
    BY <1>4
  <2>1. CASE n \in 0..k
    BY <1>1, <1>4, <2>1 DEF LogInv, RepliesAnswer
  <2>2. CASE n = k + 1
    <3>1. k + 1 \in Nat
      BY <1>4
    <3>2. Cardinality(Messages(l2, k + 1)) \in Nat
      BY <3>1, LinesCounted
    <3>3. QED
      BY <1>7, <1>8, <2>2, <3>2
  <2>3. QED
    BY <1>4, <2>1, <2>2
<1>10. RepliesAnswer'
  BY <1>2, <1>9 DEF LogInv, RepliesAnswer
<1>11. ASSUME NEW s \in Sessions
       PROVE  Cardinality(Answers(log'[s], Len(log'[s])))
                + Cardinality(BetweenLines(s)')
                <= Cardinality(Messages(log'[s], Len(log'[s])))
  <2>1. CASE s = u
    <3>1. Len(log'[u]) = k + 1
      BY <1>4
    <3>2. QED
      BY <1>8, <2>1, <3>1
  <2>2. CASE s # u
    BY <1>2, <1>3, <2>2 DEF LogInv
  <2>3. QED
    BY <2>1, <2>2
<1>12. QED
  BY <1>10, <1>11 DEF LogInv

LEMMA NextLogInv ==
  ASSUME TypeInv, IsFiniteSet(Turns), LogInv, [Next]_vars
  PROVE  LogInv'
<1>1. ASSUME NEW t \in Turns, OneMoves(t), turn'[t].at # "logReply"
      PROVE  \A u \in Turns : turn'[u].at = "logReply" => turn'[u] = turn[u]
  BY <1>1 DEF OneMoves, Others
<1>2. ASSUME NEW t \in Turns, LoopStep(t)
      PROVE  LogInv'
  <2>1. OneMoves(t) /\ turn[t].at \in LoopSteps \cup {"arrived"} /\ UNCHANGED log
    BY <1>2, LoopStepMoves
  <2>2. turn'[t].at # "logReply"
    BY <2>1 DEF OneMoves, MovesOn, Flow, IdleTurn, LoopSteps
  <2>3. QED
    BY <1>1, <2>1, <2>2, NothingLogged
<1>3. ASSUME NEW t \in Turns, TransportStep(t)
      PROVE  LogInv'
  <2>1. OneMoves(t)
    BY <1>3, TransportStepMoves
  <2>2. CASE ChatStores(t)
    BY <1>1, <2>1, <2>2, NothingLogged DEF ChatStores
  <2>3. CASE Registers(t)
    BY <1>1, <2>1, <2>3, NothingLogged DEF Registers, IdleTurn
  <2>4. QED
    BY <1>3, <2>1, <2>2, <2>3, TransportStepMoves, LineLogged
<1>4. ASSUME UNCHANGED <<turn, log>>
      PROVE  LogInv'
  BY <1>4, NothingLogged
<1>5. CASE Reporter \/ Admin
  <2>1. ASSUME NEW t \in Turns, Arrives(t)
        PROVE  LogInv'
    BY <2>1, NothingLogged DEF Arrives, Others, store
  <2>2. QED
    BY <1>4, <1>5, <2>1, ReporterMoves DEF store, Admin, ReviewRead, ReviewWrite
<1>6. CASE \E s \in Sessions : Expire(s)
  BY <1>4, <1>6 DEF Expire
<1>7. ASSUME GivesUp
      PROVE  LogInv'
  <2>1. \A t \in Turns : turn'[t].at = "logReply" => turn'[t] = turn[t]
    BY <1>7 DEF GivesUp, IdleTurn
  <2>2. QED
    BY <1>7, <2>1, NothingLogged DEF GivesUp, store
<1>8. CASE UNCHANGED vars
  BY <1>4, <1>8 DEF vars, chatVars
<1>9. QED
  BY <1>2, <1>3, <1>5, <1>6, <1>7, <1>8, FailureMoves DEF Next

LEMMA InitLogInv == ASSUME Init PROVE LogInv
<1>1. \A s \in Sessions : log[s] = <<>> /\ BetweenLines(s) = {}
  BY DEF Init, ChatInit, BetweenLines, IdleTurn
<1>2. Len(<<>>) = 0
  OBVIOUS
<1>3. Answers(<<>>, 0) = {} /\ Messages(<<>>, 0) = {}
  BY DEF Answers, Messages
<1>4. Cardinality({}) = 0
  BY FS_EmptySet
<1>5. ASSUME NEW s \in Sessions
      PROVE  /\ Len(log[s]) = 0
             /\ Cardinality(Answers(log[s], 0)) = 0
             /\ Cardinality(Messages(log[s], 0)) = 0
             /\ Cardinality(BetweenLines(s)) = 0
  BY <1>1, <1>2, <1>3, <1>4
<1>6. RepliesAnswer
  <2> SUFFICES ASSUME NEW s \in Sessions, NEW n \in 0..Len(log[s])
      PROVE  Cardinality(Answers(log[s], n)) <= Cardinality(Messages(log[s], n))
    BY DEF RepliesAnswer
  <2>1. n = 0
    BY <1>5
  <2>2. QED
    BY <1>5, <2>1
<1>7. \A s \in Sessions :
        Cardinality(Answers(log[s], Len(log[s]))) + Cardinality(BetweenLines(s))
          <= Cardinality(Messages(log[s], Len(log[s])))
  BY <1>5
<1>8. QED
  BY <1>6, <1>7 DEF LogInv

\* No transcript ever has more replies than messages.
THEOREM RepliesAlwaysAnswer ==
  ASSUME IsFiniteSet(Turns)
  PROVE  Spec => []RepliesAnswer
<1>1. Init => LogInv
  BY InitLogInv
<1>2. TypeInv /\ LogInv /\ [Next]_vars => LogInv'
  BY NextLogInv
<1>3. LogInv => RepliesAnswer
  BY DEF LogInv
<1>4. QED
  BY <1>1, <1>2, <1>3, TypeInvAlways, PTL DEF Spec
-----------------------------------------------------------------------------
(***************************************************************************)
(* What a draft says of its duplicate and of its ticket.                   *)
(*                                                                         *)
(* The repository says that duplicate_of names a ticket, and that a filed  *)
(* draft names its own; neither is so (see the findings).  What does hold  *)
(* follows from where a turn gets the draft it carries on: only the        *)
(* neighbour search sets its duplicate, only the tracker's answer makes it *)
(* filed.  KnownInv says it of every draft held anywhere.                  *)
(***************************************************************************)

\* Turn t, at work in the loop, carries on with draft e.
CarriesOn(t, e) ==
  LET s == turn[t].session
      d == turn[t].draft
  IN \/ turn[t].at = "arrived" /\ e = Absorbed(drafts[s])
     \/ /\ turn[t].at = "nearest"
        /\ e.ticket = d.ticket /\ e.status = d.status
        /\ \/ e.dup = NoDuplicate
           \/ \E n \in Neighbours(s) : e.dup = DuplicateRef(n)
     \/ /\ turn[t].at = "create"
        /\ e.ticket = Len(tickets) + 1 /\ e.dup = d.dup
     \/ /\ turn[t].at \in LoopSteps
        /\ e.dup = d.dup /\ e.ticket = d.ticket
        /\ e.status = "filed" => d.status = "filed"

LEMMA LoopStepCarries ==
  ASSUME TypeInv, NEW t \in Turns, LoopStep(t)
  PROVE  /\ turn'[t] = IdleTurn \/ CarriesOn(t, turn'[t].draft)
         /\ RowsGrow(rows, rows')
<1> DEFINE s == turn[t].session
           d == turn[t].draft
           Effect == /\ turn'[t] = IdleTurn \/ CarriesOn(t, turn'[t].draft)
                     /\ RowsGrow(rows, rows')
<1>1. /\ ~ At(t, "idle") => s \in Sessions
      /\ turn[t].at \notin {"idle", "arrived"} => d \in Draft
  BY DEF TypeInv, TurnsTyped, At
<1>2. ASSUME NEW step, NEW e, Goto(t, step, e)
      PROVE  turn'[t].draft = e
  BY <1>2, GotoMoves
<1>3. ASSUME NEW e, NEW reply, Return(t, e, reply)
      PROVE  turn'[t].draft = e
  BY <1>3, ReturnMoves
<1>4. ASSUME CarriesOn(t, turn'[t].draft), UNCHANGED rows
      PROVE  Effect
  BY <1>4, SameRows
<1>5. ASSUME NEW p, Release(t, p), UNCHANGED rows
      PROVE  Effect
  BY <1>5, ReleaseMoves, SameRows
<1>6. \* a draft whose duplicate and ticket stay
      ASSUME NEW e, turn'[t].draft = e, turn[t].at \in LoopSteps,
             e.dup = d.dup, e.ticket = d.ticket,
             e.status = "filed" => d.status = "filed"
      PROVE  CarriesOn(t, turn'[t].draft)
  BY <1>6 DEF CarriesOn
<1>7. CASE Load(t)
  <2>1. turn'[t].draft = Absorbed(drafts[s])
    BY <1>2, <1>3, <1>7 DEF Load
  <2>2. turn[t].at = "arrived" /\ UNCHANGED rows
    BY <1>7 DEF Load, At, loopVars
  <2>3. QED
    BY <1>4, <2>1, <2>2 DEF CarriesOn
<1>8. ASSUME NEW c \in Categories, NEW found \in SUBSET Fields,
             Clarify(t, c, found)
      PROVE  Effect
  <2> DEFINE e == [Classified(d, c, found) EXCEPT !.status = "gathering_info"]
             x == [turn[t] EXCEPT !.at = "loopSave", !.reply = "question",
                                  !.draft = e]
  <2>1. turn[t].at = "classify" /\ d \in Draft /\ UNCHANGED rows
    BY <1>1, <1>8 DEF Clarify, At, loopVars
  <2>2. /\ e.ticket = d.ticket /\ e.dup = d.dup /\ e.status = "gathering_info"
    <3>1. Classified(d, c, found) \in Draft
      BY <2>1, DraftChanges
    <3>2. QED
      BY <2>1, <3>1 DEF Classified, Draft
  <2>3. turn' = [turn EXCEPT ![t] = x]
    BY <1>8 DEF Clarify
  <2> HIDE DEF e
  <2>4. x.draft = e
    BY DEF TypeInv, TurnsTyped, Turn
  <2> HIDE DEF x
  <2>5. turn'[t].draft = e
    BY <2>3, <2>4, Replaced
  <2>6. QED
    BY <1>4, <1>6, <2>1, <2>2, <2>5 DEF LoopSteps
<1>9. ASSUME NEW c \in Categories, NEW found \in SUBSET Fields,
             Investigate(t, c, found)
      PROVE  Effect
  <2> DEFINE e == [Classified(d, c, found) EXCEPT !.status = "investigating"]
  <2>1. turn[t].at = "classify" /\ d \in Draft /\ UNCHANGED rows
    BY <1>1, <1>9 DEF Investigate, At
  <2>2. /\ e.ticket = d.ticket /\ e.dup = d.dup /\ e.status = "investigating"
    <3>1. Classified(d, c, found) \in Draft
      BY <2>1, DraftChanges
    <3>2. QED
      BY <2>1, <3>1 DEF Classified, Draft
  <2>3. Goto(t, "nearest", e)
    BY <1>9 DEF Investigate
  <2> HIDE DEF e
  <2>4. turn'[t].draft = e
    BY <1>2, <2>3
  <2>5. QED
    BY <1>4, <1>6, <2>1, <2>2, <2>4 DEF LoopSteps
<1>10. CASE Nearest(t)
  <2>1. turn[t].at = "nearest" /\ d \in Draft /\ UNCHANGED rows
    BY <1>1, <1>10 DEF Nearest, At, loopVars
  <2>2. PICK ref \in IF Neighbours(s) = {} THEN {NoDuplicate}
                     ELSE {DuplicateRef(n) : n \in Neighbours(s)} :
          Goto(t, "score", [d EXCEPT !.dup = ref])
    BY <1>10 DEF Nearest
  <2> DEFINE e == [d EXCEPT !.dup = ref]
  <2>3. e.ticket = d.ticket /\ e.status = d.status /\ e.dup = ref
    BY <2>1 DEF Draft
  <2>4. ref = NoDuplicate \/ \E n \in Neighbours(s) : ref = DuplicateRef(n)
    <3>1. CASE Neighbours(s) = {}
      BY <2>2, <3>1
    <3>2. CASE Neighbours(s) # {}
      BY <2>2, <3>2
    <3>3. QED
      BY <3>1, <3>2
  <2> HIDE DEF e
  <2>5. turn'[t].draft = e
    BY <1>2, <2>2 DEF e
  <2>6. CarriesOn(t, turn'[t].draft)
    BY <2>1, <2>3, <2>4, <2>5 DEF CarriesOn
  <2>7. QED
    BY <1>4, <2>1, <2>6
<1>11. ASSUME NEW score \in Scores, Escalate(t, score)
       PROVE  Effect
  <2> DEFINE e == [Scored(d, score) EXCEPT !.status = "escalated"]
  <2>1. turn[t].at = "score" /\ d \in Draft /\ UNCHANGED rows
    BY <1>1, <1>11 DEF Escalate, At, loopVars
  <2>2. e.ticket = d.ticket /\ e.dup = d.dup /\ e.status = "escalated"
    <3>1. Scored(d, score) \in Draft
      BY <2>1, DraftChanges
    <3>2. QED
      BY <2>1, <3>1 DEF Scored, Draft
  <2>3. Goto(t, "index", e)
    BY <1>11 DEF Escalate
  <2> HIDE DEF e
  <2>4. turn'[t].draft = e
    BY <1>2, <2>3
  <2>5. QED
    BY <1>4, <1>6, <2>1, <2>2, <2>4 DEF LoopSteps
<1>12. ASSUME NEW score \in Scores, StartFiling(t, score)
       PROVE  Effect
  <2> DEFINE e == Scored(d, score)
  <2>1. turn[t].at = "score" /\ d \in Draft /\ UNCHANGED rows
    BY <1>1, <1>12 DEF StartFiling, At
  <2>2. e.ticket = d.ticket /\ e.dup = d.dup /\ e.status = "scored"
    BY <2>1 DEF Scored, Draft
  <2>3. Goto(t, "create", e)
    BY <1>12 DEF StartFiling
  <2> HIDE DEF e
  <2>4. turn'[t].draft = e
    BY <1>2, <2>3
  <2>5. QED
    BY <1>4, <1>6, <2>1, <2>2, <2>4 DEF LoopSteps
<1>13. ASSUME NEW score \in Scores, RefuseFiling(t, score)
       PROVE  Effect
  BY <1>5, <1>13 DEF RefuseFiling, Abort, loopVars
<1>14. CASE FileNew(t) \/ FileDuplicate(t)
  <2>1. turn[t].at = "create" /\ d \in Draft /\ UNCHANGED rows
    BY <1>1, <1>14 DEF FileNew, FileDuplicate, At
  <2>2. PICK step : Goto(t, step, Filed(d))
    BY <1>14 DEF FileNew, FileDuplicate
  <2>3. Filed(d).ticket = Len(tickets) + 1 /\ Filed(d).dup = d.dup
    BY <2>1 DEF Filed, Draft
  <2>4. turn'[t].draft = Filed(d)
    BY <1>2, <2>2
  <2>5. QED
    BY <1>4, <2>1, <2>3, <2>4 DEF CarriesOn
<1>15. CASE RefuseLink(t) \/ FilingUnreadable(t)
  BY <1>5, <1>15 DEF RefuseLink, FilingUnreadable, Abort
<1>16. CASE FilingFails(t) \/ FilingUnanswered(t)
  <2> DEFINE e == [d EXCEPT !.status = "escalated"]
  <2>1. turn[t].at = "create" /\ d \in Draft /\ UNCHANGED rows
    BY <1>1, <1>16 DEF FilingFails, FilingUnanswered, At, loopVars
  <2>2. e.ticket = d.ticket /\ e.dup = d.dup /\ e.status = "escalated"
    BY <2>1 DEF Draft
  <2>3. Goto(t, "index", e)
    BY <1>16 DEF FilingFails, FilingUnanswered
  <2> HIDE DEF e
  <2>4. turn'[t].draft = e
    BY <1>2, <2>3
  <2>5. QED
    BY <1>4, <1>6, <2>1, <2>2, <2>4 DEF LoopSteps
<1>17. CASE LinkMade(t) \/ LinkFails(t)
  <2>1. turn[t].at = "link" /\ UNCHANGED rows /\ Goto(t, "index", d)
    BY <1>17 DEF LinkMade, LinkFails, At, loopVars
  <2>2. QED
    BY <1>2, <1>4, <1>6, <2>1 DEF LoopSteps
<1>18. CASE Index(t)
  <2>1. turn[t].at = "index" /\ Goto(t, "loopSave", d)
    BY <1>18 DEF Index, At
  <2>2. CarriesOn(t, turn'[t].draft)
    BY <1>2, <1>6, <2>1 DEF LoopSteps
  <2>3. RowsGrow(rows, rows')
    BY <1>18 DEF Index, Upserted, RowOf, RowsGrow, TypeInv, TypeOK
  <2>4. QED
    BY <2>2, <2>3
<1>19. CASE LoopSave(t)
  <2>1. turn[t].at = "loopSave" /\ UNCHANGED rows
    BY <1>19 DEF LoopSave, At, loopVars
  <2>2. PICK reply : Return(t, d, reply)
    BY <1>19 DEF LoopSave
  <2>3. QED
    BY <1>3, <1>4, <1>6, <2>1, <2>2 DEF LoopSteps
<1>20. QED
  BY <1>7, <1>8, <1>9, <1>10, <1>11, <1>12, <1>13, <1>14, <1>15, <1>16,
     <1>17, <1>18, <1>19 DEF LoopStep

\* Where the drafts held after a step come from.
Stored ==
  \A s \in Sessions :
    \/ drafts'[s] = drafts[s]
    \/ drafts'[s] = NoDraft
    \/ \E t \in Turns : /\ turn[t].at \in LoopSteps \cup {"chatSave"}
                        /\ turn[t].session = s /\ drafts'[s] = turn[t].draft
    \/ \E r \in Reviewers : /\ review[r].draft # NoDraft
                            /\ review[r].session = s
                            /\ drafts'[s] = review[r].draft
Carried ==
  \A t \in Turns :
    \/ turn'[t].draft = NoDraft
    \/ /\ turn'[t].session = turn[t].session
       /\ turn'[t].draft = turn[t].draft \/ CarriesOn(t, turn'[t].draft)
Reviewed ==
  \A r \in Reviewers :
    \/ review'[r] = review[r]
    \/ review'[r].draft = NoDraft
    \/ \E s \in Sessions, v \in Terminal :
         /\ Reviewable(s)
         /\ review'[r].session = s
         /\ review'[r].draft = [drafts[s] EXCEPT !.status = v]

LEMMA Provenance ==
  ASSUME TypeInv, [Next]_vars
  PROVE  Stored /\ Carried /\ Reviewed /\ RowsGrow(rows, rows')
<1> DEFINE Effect == Stored /\ Carried /\ Reviewed /\ RowsGrow(rows, rows')
<1>1. ASSUME NEW t \in Turns, Others(t),
             \/ turn'[t].draft = NoDraft
             \/ /\ turn'[t].session = turn[t].session
                /\ turn'[t].draft = turn[t].draft \/ CarriesOn(t, turn'[t].draft)
      PROVE  Carried
  BY <1>1 DEF Others, Carried
<1>2. ASSUME NEW t \in Turns, turn[t].at \in LoopSteps \cup {"chatSave"},
             drafts' = [drafts EXCEPT ![turn[t].session] = turn[t].draft]
      PROVE  Stored
  BY <1>2 DEF Stored, TypeInv, TypeOK, ChatTypeOK
<1>3. IdleTurn.draft = NoDraft
  BY DEF IdleTurn
<1>4. ASSUME NEW t \in Turns, LoopStep(t)
      PROVE  Effect
  <2>1. /\ OneMoves(t) /\ UNCHANGED review
        /\ UNCHANGED drafts \/ LoopStores(t)
    BY <1>4, LoopStepMoves
  <2>2. /\ turn'[t] = IdleTurn \/ CarriesOn(t, turn'[t].draft)
        /\ RowsGrow(rows, rows')
    BY <1>4, LoopStepCarries
  <2>3. Carried
    BY <1>1, <1>3, <2>1, <2>2 DEF OneMoves, MovesOn
  <2>4. Stored
    BY <1>2, <2>1 DEF Stored, LoopStores, LoopSteps
  <2>5. QED
    BY <2>1, <2>2, <2>3, <2>4 DEF Reviewed
<1>5. ASSUME NEW t \in Turns, TransportStep(t)
      PROVE  Effect
  <2>1. OneMoves(t) /\ UNCHANGED <<review, rows>>
    BY <1>5, TransportStepMoves
  <2>2. turn'[t] = IdleTurn \/ turn'[t].draft = turn[t].draft
    <3>1. turn[t] \in Turn
      BY DEF TypeInv, TurnsTyped
    <3>2. CASE ChatSave(t)
      <4> DEFINE over == turn[t].reply = "question" /\ ~ MayAskAgain(turn[t].draft)
                 x == [turn[t] EXCEPT !.at = "logUser",
                                      !.reply = IF over THEN "cap" ELSE @]
      <4>1. x.draft = turn[t].draft
        BY <3>1 DEF Turn
      <4>2. turn' = [turn EXCEPT ![t] = x]
        BY <3>2 DEF ChatSave
      <4> HIDE DEF x
      <4>3. QED
        BY <4>1, <4>2, Replaced
    <3>3. ASSUME NEW step, turn' = [turn EXCEPT ![t].at = step]
          PROVE  turn'[t].draft = turn[t].draft
      <4> DEFINE x == [turn[t] EXCEPT !.at = step]
      <4>1. x.draft = turn[t].draft
        BY <3>1 DEF Turn
      <4>2. turn' = [turn EXCEPT ![t] = x]
        BY <3>3
      <4> HIDE DEF x
      <4>3. QED
        BY <4>1, <4>2, Replaced
    <3>4. CASE LogUser(t) \/ LogReply(t)
      BY <3>3, <3>4 DEF LogUser, LogReply
    <3>5. CASE Register(t)
      BY <3>5, ReleaseMoves DEF Register
    <3>6. QED
      BY <1>5, <3>2, <3>4, <3>5 DEF TransportStep, Transport
  <2>3. Carried
    BY <1>1, <1>3, <2>1, <2>2 DEF OneMoves, MovesOn
  <2>4. Stored
    <3>1. CASE ChatStores(t)
      BY <1>2, <3>1 DEF ChatStores
    <3>2. CASE UNCHANGED drafts
      BY <3>2 DEF Stored
    <3>3. QED
      BY <1>5, <3>1, <3>2, TransportStepMoves DEF Logs, Registers
  <2>5. QED
    BY <2>1, <2>3, <2>4, SameRows DEF Reviewed
<1>6. ASSUME UNCHANGED <<turn, review, rows>>, Stored
      PROVE  Effect
  BY <1>6, SameRows DEF Carried, Reviewed
<1>7. CASE Reporter /\ UNCHANGED loopVars
  <2>1. ASSUME NEW s \in Sessions, NEW t \in Turns, Post(s, t)
        PROVE  Effect
    <3> DEFINE x == [IdleTurn EXCEPT !.at = "arrived", !.session = s]
    <3>1. turn' = [turn EXCEPT ![t] = x] /\ x.draft = NoDraft
      BY <2>1 DEF Post, IdleTurn
    <3> HIDE DEF x
    <3>2. Carried
      BY <1>1, <3>1, Replaced
    <3>3. QED
      BY <1>7, <2>1, <3>2, SameRows DEF Post, store, loopVars, Stored, Reviewed
  <2>2. QED
    BY <1>6, <1>7, <2>1 DEF Reporter, Reload, Abandon, store, loopVars, Stored
<1>8. CASE Admin /\ UNCHANGED loopVars
  <2>1. UNCHANGED <<turn, rows>>
    BY <1>8 DEF Admin, ReviewRead, ReviewWrite, loopVars
  <2>2. ASSUME NEW r \in Reviewers, NEW s \in Sessions, NEW v \in Terminal,
               ReviewRead(r, s, v)
        PROVE  Stored /\ Reviewed
    <3> DEFINE e == [drafts[s] EXCEPT !.status = v]
               x == [session |-> s, draft |-> e]
    <3>1. review' = [review EXCEPT ![r] = x] /\ UNCHANGED drafts /\ Reviewable(s)
      BY <2>2 DEF ReviewRead, store
    <3>2. review'[r] = x /\ \A q \in Reviewers \ {r} : review'[q] = review[q]
      BY <3>1 DEF TypeInv, ReviewsTyped
    <3>3. review'[r].session = s /\ review'[r].draft = e
      BY <3>2
    <3> HIDE DEF x
    <3>4. Reviewed
      BY <3>1, <3>2, <3>3 DEF Reviewed
    <3>5. QED
      BY <3>1, <3>4 DEF Stored
  <2>3. ASSUME NEW r \in Reviewers, ReviewWrite(r)
        PROVE  Stored /\ Reviewed
    <3>1. Stored
      BY <2>3 DEF ReviewWrite, Stored, TypeInv, TypeOK, ChatTypeOK
    <3>2. Reviewed
      BY <2>3 DEF ReviewWrite, NoReview, Reviewed, TypeInv, ReviewsTyped
    <3>3. QED
      BY <3>1, <3>2
  <2>4. Stored /\ Reviewed
    BY <1>8, <2>2, <2>3 DEF Admin
  <2>5. QED
    BY <2>1, <2>4, SameRows DEF Carried
<1>9. ASSUME NEW s \in Sessions, Expire(s), UNCHANGED loopVars
      PROVE  Effect
  <2>1. Stored
    BY <1>9 DEF Expire, Stored, TypeInv, TypeOK, ChatTypeOK
  <2>2. QED
    BY <1>6, <1>9, <2>1 DEF Expire, loopVars
<1>10. ASSUME GivesUp
       PROVE  Effect
  <2>1. Carried
    BY <1>3, <1>10 DEF GivesUp, Carried
  <2>2. QED
    BY <1>10, <2>1, SameRows DEF GivesUp, store, Stored, Reviewed
<1>11. CASE UNCHANGED vars
  BY <1>6, <1>11 DEF vars, chatVars, loopVars, Stored
<1>12. QED
  BY <1>4, <1>5, <1>7, <1>8, <1>9, <1>10, <1>11, FailureMoves DEF Next

-----------------------------------------------------------------------------
\* n is a conversation on the topic of s, and in the index.
Indexed(rw, s, n) ==
  n \in Sessions \ {s} /\ TopicOf[n] = TopicOf[s] /\ rw[n].present

\* What a draft of session s, held anywhere, says is so.
Known(rw, s, d) ==
  d # NoDraft =>
    /\ d.dup \in Sessions => Indexed(rw, s, d.dup)
    /\ Reviewers = {} /\ d.status = "filed" => d.ticket # NoTicket

KnownInv ==
  /\ \A s \in Sessions : Known(rows, s, drafts[s])
  /\ \A t \in Turns : Known(rows, turn[t].session, turn[t].draft)
  /\ \A r \in Reviewers : Known(rows, review[r].session, review[r].draft)

\* duplicate_of is never made up: it is an issue of another conversation on the
\* same topic or, when that conversation had none, the conversation itself, whose
\* row the search found; both stay where the link can be followed (dedup.py
\* pick_duplicate; what the finding on DuplicateIsTicket leaves standing).
DuplicateIsKnown ==
  \A s \in Sessions : drafts[s] # NoDraft /\ drafts[s].dup # NoDuplicate =>
    \/ Duplicates(tickets, s, drafts[s].dup)
    \/ Indexed(rows, s, drafts[s].dup)

LEMMA KnownGrows ==
  ASSUME RowsGrow(rows, rows'), NEW s, NEW d, Known(rows, s, d)
  PROVE  Known(rows', s, d)
BY DEF RowsGrow, Known, Indexed

LEMMA KnownLike ==
  ASSUME NEW rw, NEW s, NEW d, d # NoDraft, Known(rw, s, d), NEW e,
         e.dup = d.dup, e.ticket = d.ticket,
         e.status = "filed" => d.status = "filed" \/ Reviewers # {}
  PROVE  Known(rw, s, e)
BY DEF Known

LEMMA CarriesOnKnown ==
  ASSUME TypeInv, KnownInv, NEW t \in Turns, NEW e, CarriesOn(t, e)
  PROVE  Known(rows, turn[t].session, e)
<1> DEFINE s == turn[t].session
           d == turn[t].draft
<1>1. /\ s \in Sessions
      /\ turn[t].at # "arrived" => d \in Draft /\ d # NoDraft
      /\ Known(rows, s, d)
  BY ChatAssumption DEF CarriesOn, KnownInv, TypeInv, TurnsTyped, LoopSteps
<1>2. CASE turn[t].at = "arrived" /\ e = Absorbed(drafts[s])
  <2>1. CASE drafts[s] = NoDraft
    BY <1>2, <2>1, DraftAssumption DEF Absorbed, NewDraft, Known
  <2>2. CASE drafts[s] # NoDraft
    <3>1. drafts[s] \in Draft /\ Known(rows, s, drafts[s])
      BY <1>1, <2>2 DEF KnownInv, TypeInv, TypeOK, ChatTypeOK
    <3>2. /\ e.dup = drafts[s].dup /\ e.ticket = drafts[s].ticket
          /\ e.status = drafts[s].status
      BY <1>2, <2>2, <3>1 DEF Absorbed, Draft
    <3>3. QED
      BY <2>2, <3>1, <3>2, KnownLike
  <2>3. QED
    BY <2>1, <2>2
<1>3. CASE turn[t].at = "nearest" /\ e.ticket = d.ticket /\ e.status = d.status
           /\ e.dup = NoDuplicate
  BY <1>1, <1>3, DraftAssumption DEF Known
<1>4. ASSUME turn[t].at = "nearest", e.ticket = d.ticket, e.status = d.status,
             NEW n \in Neighbours(s), e.dup = DuplicateRef(n)
      PROVE  Known(rows, s, e)
  <2>1. Indexed(rows, s, n)
    BY <1>4 DEF Neighbours, Indexed
  <2>2. rows[n].ticket \in Nat
    BY <1>4 DEF Neighbours, TypeInv, TypeOK
  <2>3. e.dup \in Sessions => e.dup = n
    BY <1>4, <2>2, DraftAssumption DEF DuplicateRef
  <2>4. QED
    BY <1>1, <1>4, <2>1, <2>3 DEF Known
<1>5. CASE turn[t].at = "create" /\ e.ticket = Len(tickets) + 1 /\ e.dup = d.dup
  <2>1. e.ticket # NoTicket
    BY <1>5 DEF NoTicket, TypeInv, TypeOK
  <2>2. QED
    BY <1>1, <1>5, <2>1 DEF Known
<1>6. CASE /\ turn[t].at \in LoopSteps
           /\ e.dup = d.dup /\ e.ticket = d.ticket
           /\ e.status = "filed" => d.status = "filed"
  BY <1>1, <1>6, KnownLike DEF LoopSteps
<1>7. QED
  BY <1>2, <1>3, <1>4, <1>5, <1>6 DEF CarriesOn

LEMMA NextKnownInv ==
  ASSUME TypeInv, KnownInv, [Next]_vars
  PROVE  KnownInv'
<1>1. Stored /\ Carried /\ Reviewed /\ RowsGrow(rows, rows')
  BY Provenance
<1>2. ASSUME NEW s, Known(rows, s, NoDraft)
      PROVE  Known(rows', s, NoDraft)
  BY DEF Known
<1>3. ASSUME NEW s \in Sessions
      PROVE  Known(rows', s, drafts'[s])
  <2>1. Known(rows, s, drafts'[s])
    BY <1>1 DEF Stored, KnownInv, Known
  <2>2. QED
    BY <1>1, <2>1, KnownGrows
<1>4. ASSUME NEW t \in Turns
      PROVE  Known(rows', turn'[t].session, turn'[t].draft)
  <2>1. CASE turn'[t].draft = NoDraft
    BY <2>1 DEF Known
  <2>2. CASE turn'[t].draft # NoDraft
    <3>1. Known(rows, turn'[t].session, turn'[t].draft)
      BY <1>1, <2>2, CarriesOnKnown DEF Carried, KnownInv
    <3>2. QED
      BY <1>1, <3>1, KnownGrows
  <2>3. QED
    BY <2>1, <2>2
<1>5. ASSUME NEW r \in Reviewers
      PROVE  Known(rows', review'[r].session, review'[r].draft)
  <2>1. CASE review'[r].draft = NoDraft
    BY <2>1 DEF Known
  <2>2. CASE review'[r] = review[r]
    BY <1>1, <2>2, KnownGrows DEF KnownInv
  <2>3. ASSUME NEW s \in Sessions, NEW v \in Terminal, Reviewable(s),
               review'[r].session = s,
               review'[r].draft = [drafts[s] EXCEPT !.status = v]
        PROVE  Known(rows', s, review'[r].draft)
    <3>1. drafts[s] \in Draft /\ Known(rows, s, drafts[s]) /\ drafts[s] # NoDraft
      BY <2>3 DEF Reviewable, KnownInv, TypeInv, TypeOK, ChatTypeOK
    <3> DEFINE e == [drafts[s] EXCEPT !.status = v]
    <3>2. e.dup = drafts[s].dup /\ e.ticket = drafts[s].ticket
      BY <3>1 DEF Draft
    <3> HIDE DEF e
    <3>3. Reviewers # {}
      OBVIOUS
    <3>4. Known(rows, s, e)
      BY <3>1, <3>2, <3>3, KnownLike
    <3>5. review'[r].draft = e
      BY <2>3 DEF e
    <3>6. QED
      BY <1>1, <3>4, <3>5, KnownGrows
  <2>4. QED
    BY <1>1, <2>1, <2>2, <2>3 DEF Reviewed
<1>6. QED
  BY <1>3, <1>4, <1>5 DEF KnownInv

LEMMA KnownInvAlways == Spec => []KnownInv
<1>1. Init => KnownInv
  BY DEF Init, ChatInit, KnownInv, Known, IdleTurn, NoReview
<1>2. TypeInv /\ KnownInv /\ [Next]_vars => KnownInv'
  BY NextKnownInv
<1>3. QED
  BY <1>1, <1>2, TypeInvAlways, PTL DEF Spec

\* A duplicate a draft names is an issue, or a conversation in the index, of the
\* same topic and not its own.
THEOREM DuplicateAlwaysKnown == Spec => []DuplicateIsKnown
<1>1. TypeInv /\ TicketInv /\ KnownInv => DuplicateIsKnown
  BY DEF TypeInv, TypeOK, ChatTypeOK, TicketInv, DraftsTraced, Traced, KnownInv,
         Known, DuplicateIsKnown, Draft, Refs
<1>2. QED
  BY <1>1, TypeInvAlways, TicketInvAlways, KnownInvAlways, PTL

\* While nobody reviews, a draft marked filed names the issue it became, whatever
\* fails, dies or overlaps: the finding on FiledMeansTicket is the review's doing
\* alone (review_draft sets the status and files nothing).
THEOREM FiledHasTicket ==
  ASSUME Reviewers = {}
  PROVE  Spec => []FiledMeansTicket
<1>1. KnownInv => FiledMeansTicket
  BY DEF KnownInv, Known, FiledMeansTicket
<1>2. QED
  BY <1>1, KnownInvAlways, PTL
-----------------------------------------------------------------------------
(***************************************************************************)
(* What a page waits for.                                                  *)
(***************************************************************************)

\* A page that waits is waiting for a request of its own that is under way:
\* whichever turns end, fail or die with their instance, no page is left waiting
\* for an answer that nobody is preparing, and none is given an answer meant for
\* another session (chat.js submit; with TurnsAdvance, the safety half of
\* EveryMessageAnswered).
PageAwaitsItsTurn ==
  \A s \in Sessions : page[s] \in Turns =>
    turn[page[s]].session = s /\ ~ At(page[s], "idle")

\* A step after which a page waits only for what it was waiting for before.
LEMMA StillAwaits ==
  ASSUME PageAwaitsItsTurn,
         \A s \in Sessions : page'[s] \in Turns => page'[s] = page[s],
         \A s \in Sessions, t \in Turns : page'[s] = t =>
           \/ turn'[t] = turn[t]
           \/ MovesOn(turn[t], turn'[t])
  PROVE  PageAwaitsItsTurn'
<1> SUFFICES ASSUME NEW s \in Sessions, page'[s] \in Turns
             PROVE  turn'[page'[s]].session = s /\ turn'[page'[s]].at # "idle"
  BY DEF PageAwaitsItsTurn, At
<1>1. PICK t \in Turns : t = page[s] /\ page'[s] = t
  OBVIOUS
<1>2. turn[t].session = s /\ turn[t].at # "idle"
  BY <1>1 DEF PageAwaitsItsTurn, At
<1>3. QED
  BY <1>1, <1>2 DEF MovesOn, Flow

LEMMA NextPageAwaits ==
  ASSUME TypeInv, PageAwaitsItsTurn, [Next]_vars
  PROVE  PageAwaitsItsTurn'
<1>1. page \in [Sessions -> {"ready", "locked"} \cup Turns]
  BY DEF TypeInv, TypeOK, ChatTypeOK
<1>2. "ready" \notin Turns /\ "locked" \notin Turns
  BY ChatAssumption
<1>3. ASSUME NEW t \in Turns, OneMoves(t)
      PROVE  PageAwaitsItsTurn'
  <2>1. CASE MovesOn(turn[t], turn'[t]) /\ UNCHANGED page
    BY <1>3, <2>1, StillAwaits DEF OneMoves, Others
  <2>2. ASSUME NEW p \in {"ready", "locked"}, Release(t, p)
        PROVE  PageAwaitsItsTurn'
    <3>1. \A s \in Sessions : page'[s] \in Turns => page'[s] = page[s] /\ page[s] # t
      BY <1>2, <2>2 DEF Release
    <3>2. QED
      BY <1>3, <3>1, StillAwaits DEF OneMoves, Others
  <2>3. QED
    BY <1>3, <2>1, <2>2 DEF OneMoves
<1>4. ASSUME NEW s \in Sessions, NEW t \in Turns, Post(s, t)
      PROVE  PageAwaitsItsTurn'
  <2>1. PICK x : x = [IdleTurn EXCEPT !.at = "arrived", !.session = s]
    OBVIOUS
  <2>2. x.at = "arrived" /\ x.session = s
    BY <2>1 DEF IdleTurn
  <2>3. turn'[t] = x /\ Others(t)
    BY <1>4, <2>1, Replaced DEF Post
  <2>4. /\ page' = [page EXCEPT ![s] = t] /\ turn[t].at = "idle"
    BY <1>4 DEF Post, At
  <2> SUFFICES ASSUME NEW u \in Sessions, page'[u] \in Turns
               PROVE  turn'[page'[u]].session = u /\ turn'[page'[u]].at # "idle"
    BY DEF PageAwaitsItsTurn, At
  <2>5. CASE u = s
    BY <1>1, <2>2, <2>3, <2>4, <2>5
  <2>6. CASE u # s
    <3>1. page'[u] = page[u]
      BY <1>1, <2>4, <2>6
    <3>2. turn[page[u]].session = u /\ turn[page[u]].at # "idle"
      BY <3>1 DEF PageAwaitsItsTurn, At
    <3>3. QED
      BY <2>3, <2>4, <3>1, <3>2 DEF Others
  <2>7. QED
    BY <2>5, <2>6
<1>5. ASSUME NEW s \in Sessions, Reload(s) \/ Abandon(s)
      PROVE  PageAwaitsItsTurn'
  <2>1. PICK p \in {"ready", "locked"} : page' = [page EXCEPT ![s] = p]
    BY <1>5 DEF Reload, Abandon
  <2>2. UNCHANGED turn
    BY <1>5 DEF Reload, Abandon
  <2>3. \A u \in Sessions : page'[u] \in Turns => page'[u] = page[u]
    BY <1>1, <1>2, <2>1
  <2>4. QED
    BY <2>2, <2>3, StillAwaits
<1>6. ASSUME UNCHANGED <<page, turn>>
      PROVE  PageAwaitsItsTurn'
  BY <1>6 DEF PageAwaitsItsTurn, At
<1>7. ASSUME NEW t \in Turns, Fail(t)
      PROVE  PageAwaitsItsTurn'
  BY <1>3, <1>7, ReleaseMoves DEF Fail, Abort, OneMoves
<1>8. ASSUME NEW i \in Instances, Crash(i)
      PROVE  PageAwaitsItsTurn'
  <2>1. PICK dead : dead = {t \in Turns : Home[t] = i}
    OBVIOUS
  <2>2. \A s \in Sessions : page'[s] \in Turns
          => page'[s] = page[s] /\ page[s] \notin dead
    BY <1>2, <1>8, <2>1 DEF Crash
  <2>3. \A t \in Turns \ dead : turn'[t] = turn[t]
    BY <1>8, <2>1 DEF Crash
  <2>4. QED
    BY <2>2, <2>3, StillAwaits
<1>9. CASE UNCHANGED vars
  BY <1>6, <1>9 DEF vars, chatVars
<1>10. CASE Admin \/ \E s \in Sessions : Expire(s)
  BY <1>6, <1>10 DEF Admin, ReviewRead, ReviewWrite, Expire
<1>11. QED
  BY <1>3, <1>4, <1>5, <1>7, <1>8, <1>9, <1>10, LoopStepMoves, TransportStepMoves
     DEF Next, Reporter

\* No page waits for an answer that nobody is preparing.
THEOREM PagesAwaitTheirTurn == Spec => []PageAwaitsItsTurn
<1>1. Init => PageAwaitsItsTurn
  BY ChatAssumption DEF Init, ChatInit, PageAwaitsItsTurn
<1>2. TypeInv /\ PageAwaitsItsTurn /\ [Next]_vars => PageAwaitsItsTurn'
  BY NextPageAwaits
<1>3. QED
  BY <1>1, <1>2, TypeInvAlways, PTL DEF Spec
=============================================================================
