-------------------------- MODULE AgentLoopPromise --------------------------
(***************************************************************************)
(* What the agent loop promises under conditions, for every value of the   *)
(* constants that meets them.                                              *)
(*                                                                         *)
(* While each instance serves few turns at once, its tool budget refuses   *)
(* no turn the calls it needs to file: the calls made and those still to   *)
(* come fit the budget (BudgetInv).                                        *)
(*                                                                         *)
(* While besides nothing fails and nobody reviews, the loop implements     *)
(* Conversation. Each conversation then has at most one turn, for which    *)
(* its page waits, and the turn's draft has the round that the stored one  *)
(* asks for; PromiseInv says so for each await.                            *)
(***************************************************************************)
EXTENDS AgentLoopSafety

\* The turns an instance may serve at once.
Served(i) == {t \in Turns : Home[t] = i}

\* An instance's budget is more than two calls for each turn it may serve.
BudgetSuffices ==
  /\ IsFiniteSet(Turns)
  /\ \A i \in Instances : 2 * Cardinality(Served(i)) < MaxToolCalls

\* Turns that may still file, and those that may still start to.
Before == {"nearest", "score"}
Linking(i) == {t \in Served(i) : turn[t].at \in Before \cup {"create"}}
Filing(i) == {t \in Served(i) : turn[t].at \in Before}

\* The calls made and those still to come fit the budget.
BudgetInv ==
  \A i \in Instances :
    calls[i] + Cardinality(Filing(i)) + Cardinality(Linking(i)) <= MaxToolCalls

-----------------------------------------------------------------------------
LEMMA TurnSets ==
  ASSUME BudgetSuffices, NEW i \in Instances
  PROVE  /\ IsFiniteSet(Served(i)) /\ Cardinality(Served(i)) \in Nat
         /\ \A S \in SUBSET Served(i) :
              /\ IsFiniteSet(S)
              /\ Cardinality(S) \in Nat
              /\ Cardinality(S) <= Cardinality(Served(i))
              /\ \A T \in SUBSET S : Cardinality(T) <= Cardinality(S)
              /\ \A t \in S : Cardinality(S \ {t}) = Cardinality(S) - 1
<1>1. IsFiniteSet(Served(i))
  BY FS_Subset DEF BudgetSuffices, Served
<1>2. ASSUME NEW S \in SUBSET Served(i)
      PROVE  IsFiniteSet(S) /\ Cardinality(S) <= Cardinality(Served(i))
  BY <1>1, FS_Subset
<1>3. ASSUME NEW S \in SUBSET Served(i), NEW T \in SUBSET S
      PROVE  Cardinality(T) <= Cardinality(S)
  BY <1>2, FS_Subset
<1>4. ASSUME NEW S \in SUBSET Served(i), NEW t \in S
      PROVE  Cardinality(S \ {t}) = Cardinality(S) - 1
  BY <1>2, FS_RemoveElement
<1>5. QED
  BY <1>1, <1>2, <1>3, <1>4, FS_CardinalityType

LEMMA BudgetTyped ==
  ASSUME BudgetSuffices, NEW i \in Instances
  PROVE  /\ Filing(i) \subseteq Served(i) /\ Linking(i) \subseteq Served(i)
         /\ Filing(i) \subseteq Linking(i)
         /\ Cardinality(Filing(i)) \in Nat /\ Cardinality(Linking(i)) \in Nat
<1>1. /\ Filing(i) \subseteq Served(i) /\ Linking(i) \subseteq Served(i)
      /\ Filing(i) \subseteq Linking(i)
  BY DEF Filing, Linking
<1>2. QED
  BY <1>1, TurnSets

\* A step in which no turn comes to the calls and none is spent.
LEMMA NothingSpent ==
  ASSUME TypeInv, TypeInv', BudgetSuffices, BudgetInv,
         \A i \in Instances : calls'[i] <= calls[i],
         \A t \in Turns :
           /\ turn'[t].at \in Before => turn[t].at \in Before
           /\ turn'[t].at = "create" => turn[t].at = "create"
  PROVE  BudgetInv'
<1> SUFFICES ASSUME NEW i \in Instances
    PROVE  calls'[i] + Cardinality(Filing(i)') + Cardinality(Linking(i)')
             <= MaxToolCalls
  BY DEF BudgetInv
<1>1. Filing(i)' \subseteq Filing(i) /\ Linking(i)' \subseteq Linking(i)
  BY DEF Filing, Linking, Served
<1>2. /\ Cardinality(Filing(i)') <= Cardinality(Filing(i))
      /\ Cardinality(Linking(i)') <= Cardinality(Linking(i))
      /\ Cardinality(Filing(i)') \in Nat /\ Cardinality(Linking(i)') \in Nat
      /\ Cardinality(Filing(i)) \in Nat /\ Cardinality(Linking(i)) \in Nat
  BY <1>1, BudgetTyped, TurnSets
<1>3. calls[i] \in Nat /\ calls'[i] \in Nat /\ MaxToolCalls \in Nat
  BY LoopAssumption DEF TypeInv, TypeOK
<1>4. calls[i] + Cardinality(Filing(i)) + Cardinality(Linking(i)) <= MaxToolCalls
  BY DEF BudgetInv
<1>5. QED
  BY <1>2, <1>3, <1>4

-----------------------------------------------------------------------------
\* The budget.

\* A turn that goes where no calls are still to come, and spends none.
LEMMA Leaves ==
  ASSUME TypeInv, TypeInv', BudgetSuffices, BudgetInv, UNCHANGED calls,
         NEW t \in Turns, Others(t),
         turn'[t].at \notin Before \cup {"create"}
  PROVE  BudgetInv'
<1>1. \A i \in Instances : calls'[i] <= calls[i]
  BY LoopAssumption DEF TypeInv, TypeOK
<1>2. QED
  BY <1>1, NothingSpent DEF Others

LEMMA AbortKeepsBudget ==
  ASSUME TypeInv, TypeInv', BudgetSuffices, BudgetInv, UNCHANGED calls,
         NEW t \in Turns, NEW p, Release(t, p)
  PROVE  BudgetInv'
<1>1. turn'[t].at \notin Before \cup {"create"} /\ Others(t)
  BY ReleaseMoves DEF Before
<1>2. QED
  BY <1>1, Leaves

\* A turn that spends one call, as one fewer is still to come.
LEMMA Spends ==
  ASSUME TypeInv, TypeInv', BudgetSuffices, BudgetInv,
         NEW t \in Turns, Spend(t), Others(t),
         \/ turn[t].at \in Before /\ turn'[t].at = "create"
         \/ turn[t].at = "create" /\ turn'[t].at \notin Before \cup {"create"}
  PROVE  BudgetInv'
<1> DEFINE h == Home[t]
<1>1. h \in Instances /\ t \in Served(h)
  BY LoopAssumption DEF Served
<1>2. \A i \in Instances \ {h} :
        /\ calls'[i] = calls[i]
        /\ Filing(i)' = Filing(i) /\ Linking(i)' = Linking(i)
  <2> TAKE i \in Instances \ {h}
  <2>1. calls'[i] = calls[i]
    BY DEF Spend, TypeInv, TypeOK
  <2>2. \A u \in Served(i) : turn'[u] = turn[u]
    BY DEF Served, Others
  <2>3. QED
    BY <2>1, <2>2 DEF Filing, Linking, Served
<1>3. calls'[h] = calls[h] + 1 /\ calls[h] \in Nat /\ MaxToolCalls \in Nat
  BY <1>1, LoopAssumption DEF Spend, TypeInv, TypeOK
<1>4. \A u \in Served(h) : u # t => turn'[u] = turn[u]
  BY DEF Served, Others
<1>5. /\ Filing(h) \in SUBSET Served(h) /\ Linking(h) \in SUBSET Served(h)
      /\ Cardinality(Filing(h)) \in Nat /\ Cardinality(Linking(h)) \in Nat
      /\ Cardinality(Filing(h)') \in Nat /\ Cardinality(Linking(h)') \in Nat
  BY <1>1, BudgetTyped, TurnSets DEF Filing, Linking, Served
<1>6. Cardinality(Filing(h)') + Cardinality(Linking(h)') + 1
        <= Cardinality(Filing(h)) + Cardinality(Linking(h))
  <2>1. CASE turn[t].at \in Before /\ turn'[t].at = "create"
    <3>1. t \in Filing(h) /\ Filing(h)' = Filing(h) \ {t}
      BY <1>1, <1>4, <2>1 DEF Filing, Served, Before
    <3>2. Linking(h)' = Linking(h)
      BY <1>1, <1>4, <2>1 DEF Linking, Served, Before
    <3>3. QED
      BY <1>1, <1>5, <3>1, <3>2, TurnSets
  <2>2. CASE turn[t].at = "create" /\ turn'[t].at \notin Before \cup {"create"}
    <3>1. t \in Linking(h) /\ Linking(h)' = Linking(h) \ {t}
      BY <1>1, <1>4, <2>2 DEF Linking, Served, Before
    <3>2. Filing(h)' = Filing(h)
      BY <1>1, <1>4, <2>2 DEF Filing, Served, Before
    <3>3. QED
      BY <1>1, <1>5, <3>1, <3>2, TurnSets
  <2>3. QED
    BY <2>1, <2>2
<1>7. calls'[h] + Cardinality(Filing(h)') + Cardinality(Linking(h)')
        <= MaxToolCalls
  BY <1>1, <1>3, <1>5, <1>6 DEF BudgetInv
<1>8. QED
  BY <1>2, <1>7 DEF BudgetInv

\* A turn that resets the counter: what others have spent is forgotten.
LEMMA Resets ==
  ASSUME TypeInv, TypeInv', BudgetSuffices, BudgetInv, NEW t \in Turns,
         calls' = [calls EXCEPT ![Home[t]] = 1], Others(t)
  PROVE  BudgetInv'
<1> DEFINE h == Home[t]
<1>1. h \in Instances
  BY LoopAssumption
<1>2. \A i \in Instances \ {h} :
        /\ calls'[i] = calls[i]
        /\ Filing(i)' = Filing(i) /\ Linking(i)' = Linking(i)
  <2> TAKE i \in Instances \ {h}
  <2>1. calls'[i] = calls[i]
    BY DEF TypeInv, TypeOK
  <2>2. \A u \in Served(i) : turn'[u] = turn[u]
    BY DEF Served, Others
  <2>3. QED
    BY <2>1, <2>2 DEF Filing, Linking, Served
<1>3. calls'[h] = 1 /\ MaxToolCalls \in Nat
  BY <1>1, LoopAssumption DEF TypeInv, TypeOK
<1>4. Filing(h)' \in SUBSET Served(h) /\ Linking(h)' \in SUBSET Served(h)
  BY DEF Filing, Linking, Served
<1>5. /\ Cardinality(Filing(h)') <= Cardinality(Served(h))
      /\ Cardinality(Linking(h)') <= Cardinality(Served(h))
      /\ Cardinality(Filing(h)') \in Nat /\ Cardinality(Linking(h)') \in Nat
      /\ Cardinality(Served(h)) \in Nat
  BY <1>1, <1>4, TurnSets
<1>6. 2 * Cardinality(Served(h)) < MaxToolCalls
  BY <1>1 DEF BudgetSuffices
<1>7. calls'[h] + Cardinality(Filing(h)') + Cardinality(Linking(h)')
        <= MaxToolCalls
  BY <1>3, <1>5, <1>6
<1>8. QED
  BY <1>2, <1>7 DEF BudgetInv

LEMMA LoopStepBudget ==
  ASSUME TypeInv, TypeInv', BudgetSuffices, BudgetInv,
         NEW t \in Turns, LoopStep(t)
  PROVE  BudgetInv'
<1>1. ASSUME UNCHANGED calls, NEW step, step \notin Before \cup {"create"},
             NEW d, Goto(t, step, d)
      PROVE  BudgetInv'
  BY <1>1, GotoMoves, Leaves
<1>2. ASSUME UNCHANGED calls, NEW d, NEW reply, Return(t, d, reply)
      PROVE  BudgetInv'
  BY <1>2, ReturnMoves, Leaves DEF Before
<1>3. CASE Load(t)
  BY <1>1, <1>2, <1>3 DEF Load, loopVars, Before
<1>4. ASSUME NEW c \in Categories, NEW found \in SUBSET Fields,
             Clarify(t, c, found)
      PROVE  BudgetInv'
  <2> DEFINE e == [Classified(turn[t].draft, c, found)
                     EXCEPT !.status = "gathering_info"]
             x == [turn[t] EXCEPT !.at = "loopSave", !.reply = "question",
                                  !.draft = e]
  <2>1. turn' = [turn EXCEPT ![t] = x] /\ turn[t] \in Turn
    BY <1>4 DEF Clarify, TypeInv, TypeOK, ChatTypeOK
  <2>2. x.at = "loopSave"
    BY <2>1 DEF Turn
  <2> HIDE DEF x
  <2>3. turn'[t].at = "loopSave" /\ Others(t)
    BY <2>1, <2>2, Replaced
  <2>4. QED
    BY <1>4, <2>3, Leaves DEF Clarify, loopVars, Before
<1>5. ASSUME NEW c \in Categories, NEW found \in SUBSET Fields,
             Investigate(t, c, found)
      PROVE  BudgetInv'
  <2>1. calls' = [calls EXCEPT ![Home[t]] = 1]
    BY <1>5 DEF Investigate, Reset
  <2>2. Others(t)
    BY <1>5, GotoMoves DEF Investigate
  <2>3. QED
    BY <2>1, <2>2, Resets
<1>6. CASE Nearest(t)
  <2>1. PICK d : Goto(t, "score", d)
    BY <1>6 DEF Nearest
  <2>2. turn[t].at \in Before /\ UNCHANGED calls
    BY <1>6 DEF Nearest, At, Before, loopVars
  <2>3. turn'[t].at = "score" /\ Others(t)
    BY <2>1, GotoMoves
  <2>4. \A i \in Instances : calls'[i] <= calls[i]
    BY <2>2 DEF TypeInv, TypeOK
  <2>5. QED
    BY <2>2, <2>3, <2>4, NothingSpent DEF Others
<1>7. ASSUME NEW score \in Scores, Escalate(t, score)
      PROVE  BudgetInv'
  BY <1>1, <1>7 DEF Escalate, loopVars, Before
<1>8. ASSUME NEW score \in Scores, StartFiling(t, score)
      PROVE  BudgetInv'
  BY <1>8, GotoMoves, Spends DEF StartFiling, At, Before
<1>9. ASSUME NEW score \in Scores, RefuseFiling(t, score)
      PROVE  BudgetInv'
  BY <1>9, AbortKeepsBudget DEF RefuseFiling, Abort, loopVars
<1>10. CASE FileNew(t)
  BY <1>1, <1>10 DEF FileNew, Before
<1>11. CASE FileDuplicate(t)
  <2>1. turn[t].at = "create" /\ Spend(t) /\ turn'[t].at = "link" /\ Others(t)
    BY <1>11, GotoMoves DEF FileDuplicate, At
  <2>2. "link" \notin Before \cup {"create"}
    BY DEF Before
  <2>3. QED
    BY <2>1, <2>2, Spends
<1>12. CASE RefuseLink(t)
  BY <1>12, AbortKeepsBudget DEF RefuseLink, Abort
<1>13. CASE FilingFails(t)
  BY <1>1, <1>13 DEF FilingFails, loopVars, Before
<1>14. CASE FilingUnanswered(t)
  BY <1>1, <1>14 DEF FilingUnanswered, Before
<1>15. CASE FilingUnreadable(t)
  BY <1>15, AbortKeepsBudget DEF FilingUnreadable, Abort
<1>16. CASE LinkMade(t)
  BY <1>1, <1>16 DEF LinkMade, Before
<1>17. CASE LinkFails(t)
  BY <1>1, <1>17 DEF LinkFails, loopVars, Before
<1>18. CASE Index(t)
  BY <1>1, <1>18 DEF Index, Before
<1>19. CASE LoopSave(t)
  BY <1>2, <1>19 DEF LoopSave, loopVars
<1>20. QED
  BY <1>3, <1>4, <1>5, <1>6, <1>7, <1>8, <1>9, <1>10, <1>11, <1>12, <1>13,
     <1>14, <1>15, <1>16, <1>17, <1>18, <1>19 DEF LoopStep

LEMMA NextBudget ==
  ASSUME TypeInv, BudgetSuffices, BudgetInv, [Next]_vars
  PROVE  BudgetInv'
<1> USE NextTypeInv
<1>1. ASSUME NEW t \in Turns, LoopStep(t)
      PROVE  BudgetInv'
  BY <1>1, LoopStepBudget
<1>2. ASSUME NEW t \in Turns, TransportStep(t)
      PROVE  BudgetInv'
  <2>1. UNCHANGED calls
    BY <1>2 DEF TransportStep, loopVars
  <2>2. CASE Register(t)
    BY <2>1, <2>2, AbortKeepsBudget DEF Register
  <2>3. ASSUME NEW x, turn' = [turn EXCEPT ![t] = x],
               x.at \in {"logUser", "logReply", "register"}
        PROVE  BudgetInv'
    BY <2>1, <2>3, Replaced, Leaves DEF Before
  <2>4. turn[t] \in Turn
    BY DEF TypeInv, TurnsTyped
  <2>5. CASE ChatSave(t)
    <3> DEFINE over == turn[t].reply = "question" /\ ~ MayAskAgain(turn[t].draft)
               x == [turn[t] EXCEPT !.at = "logUser",
                                    !.reply = IF over THEN "cap" ELSE @]
    <3>1. turn' = [turn EXCEPT ![t] = x] /\ x.at = "logUser"
      BY <2>4, <2>5 DEF ChatSave, Turn
    <3> HIDE DEF x
    <3>2. QED
      BY <2>3, <3>1
  <2>6. ASSUME NEW step \in {"logReply", "register"},
               turn' = [turn EXCEPT ![t].at = step]
        PROVE  BudgetInv'
    <3> DEFINE x == [turn[t] EXCEPT !.at = step]
    <3>1. turn' = [turn EXCEPT ![t] = x] /\ x.at = step
      BY <2>4, <2>6 DEF Turn
    <3> HIDE DEF x
    <3>2. QED
      BY <2>3, <3>1
  <2>7. QED
    BY <1>2, <2>2, <2>5, <2>6 DEF TransportStep, Transport, LogUser, LogReply
<1>3. \A i \in Instances : calls[i] \in Nat
  BY DEF TypeInv, TypeOK
<1>4. CASE (Reporter \/ Admin) /\ UNCHANGED loopVars
  <2>1. ASSUME NEW s \in Sessions, NEW t \in Turns, Post(s, t)
        PROVE  BudgetInv'
    <3> DEFINE x == [IdleTurn EXCEPT !.at = "arrived", !.session = s]
    <3>1. turn' = [turn EXCEPT ![t] = x] /\ x.at = "arrived"
      BY <2>1 DEF Post, IdleTurn
    <3> HIDE DEF x
    <3>2. QED
      BY <1>4, <3>1, Replaced, Leaves DEF Before, loopVars
  <2>2. ASSUME UNCHANGED turn
        PROVE  BudgetInv'
    BY <1>4, <2>2 DEF BudgetInv, Filing, Linking, loopVars
  <2>3. QED
    BY <1>4, <2>1, <2>2 DEF Reporter, Reload, Abandon, Admin, ReviewRead,
       Reviewable, ReviewWrite
<1>5. ASSUME NEW s \in Sessions, Expire(s), UNCHANGED loopVars
      PROVE  BudgetInv'
  BY <1>5 DEF Expire, BudgetInv, Filing, Linking, loopVars
<1>6. ASSUME NEW t \in Turns, Fail(t)
      PROVE  BudgetInv'
  BY <1>6, AbortKeepsBudget DEF Fail, Abort, loopVars
<1>7. ASSUME NEW i \in Instances, Crash(i)
      PROVE  BudgetInv'
  <2>1. \A j \in Instances : calls'[j] <= calls[j]
    BY <1>3, <1>7 DEF Crash, TypeInv, TypeOK
  <2>2. \A t \in Turns : turn'[t] = turn[t] \/ turn'[t].at = "idle"
    BY <1>7 DEF Crash, IdleTurn
  <2>3. QED
    BY <2>1, <2>2, NothingSpent DEF Before
<1>8. CASE UNCHANGED vars
  BY <1>8 DEF vars, chatVars, loopVars, BudgetInv, Filing, Linking
<1>9. QED
  BY <1>1, <1>2, <1>4, <1>5, <1>6, <1>7, <1>8 DEF Next

LEMMA InitBudget == ASSUME BudgetSuffices, Init PROVE BudgetInv
<1> SUFFICES ASSUME NEW i \in Instances
    PROVE  calls[i] + Cardinality(Filing(i)) + Cardinality(Linking(i))
             <= MaxToolCalls
  BY DEF BudgetInv
<1>1. calls[i] = 0 /\ Filing(i) = {} /\ Linking(i) = {}
  BY DEF Init, ChatInit, IdleTurn, Filing, Linking, Served, Before
<1>2. QED
  BY <1>1, FS_EmptySet, LoopAssumption

LEMMA BudgetInvCaps ==
  ASSUME TypeInv, BudgetSuffices, BudgetInv
  PROVE  CapIsPerRequest
<1> SUFFICES ASSUME NEW t \in Turns, turn[t].at \in {"score", "create"}
    PROVE  HasBudget(t)
  BY DEF CapIsPerRequest, At
<1> DEFINE h == Home[t]
<1>1. h \in Instances /\ t \in Linking(h)
  BY LoopAssumption DEF Linking, Served, Before
<1>2. Cardinality(Linking(h)) # 0
  BY <1>1, BudgetTyped, TurnSets, FS_EmptySet
<1>3. /\ Cardinality(Filing(h)) \in Nat /\ Cardinality(Linking(h)) \in Nat
      /\ calls[h] \in Nat /\ MaxToolCalls \in Nat
  BY <1>1, BudgetTyped, LoopAssumption DEF TypeInv, TypeOK
<1>4. QED
  BY <1>1, <1>2, <1>3 DEF BudgetInv, HasBudget

\* A cap per process is a cap per request while each instance serves few turns
\* at once: with the code's MAX_TOOL_CALLS of six no turn of a pair is ever
\* refused a call, whatever fails or dies (tools.py:31-40).
THEOREM CapIsEnough ==
  ASSUME BudgetSuffices
  PROVE  Spec => []CapIsPerRequest
<1>1. Init => BudgetInv
  BY InitBudget
<1>2. TypeInv /\ BudgetInv /\ [Next]_vars => BudgetInv'
  BY NextBudget
<1>3. TypeInv /\ BudgetInv => CapIsPerRequest
  BY BudgetInvCaps
<1>4. QED
  BY <1>1, <1>2, <1>3, TypeInvAlways, PTL DEF Spec

-----------------------------------------------------------------------------
(***************************************************************************)
(* What the loop promises when nothing fails and nobody reviews.           *)
(***************************************************************************)

Calm == Faults = {} /\ Reviewers = {} /\ BudgetSuffices

\* The issues opened for a conversation.
Issues(s) == {k \in Tickets : tickets[k].by = s}
Opened(s) == Cardinality(Issues(s))

Undecided(e) == e = NoDraft \/ e.status = "gathering_info"
Asks(d) == d.status = "gathering_info" /\ d.round < MaxRounds

\* A decision about a conversation with n issues.
Decides(d, n) ==
  /\ d.status \in {"filed", "escalated"}
  /\ n = IF d.status = "filed" THEN 1 ELSE 0

\* A reply that fits the stored draft e.
Replied(reply, e, n) ==
  /\ e # NoDraft
  /\ \/ reply = "question" /\ Asks(e) /\ n = 0
     \/ reply = "verdict" /\ e.status \in {"filed", "escalated"}

\* What each await of a turn x says of the stored draft e and of the n issues.
StepKeeps(x, e, n) ==
  /\ x.at \in LoopSteps \cup {"arrived"} => Undecided(e)
  /\ x.at \in LoopSteps => x.draft.round = AskedOf(e)
  /\ x.at \in {"arrived", "classify", "nearest", "score", "create"} => n = 0
  /\ x.at = "link" => x.draft.status = "filed" /\ n = 1
  /\ x.at = "index" => Decides(x.draft, n)
  /\ x.at = "loopSave" => Decides(x.draft, n) \/ (Asks(x.draft) /\ n = 0)
  /\ x.at = "chatSave" => x.draft = e
  /\ x.at \in {"chatSave", "logUser", "logReply", "register"} =>
       Replied(x.reply, e, n)

\* A turn under way is the only one of its session, whose page waits for it.
TurnKeeps(t) ==
  turn[t].at # "idle" =>
    /\ page[turn[t].session] = t
    /\ StepKeeps(turn[t], drafts[turn[t].session], Opened(turn[t].session))

\* A page that waits has a turn, one that is open an undecided draft and no issue,
\* and one that is locked a decided draft that is listed.
PageKeeps(s) ==
  /\ page[s] \in Turns =>
       turn[page[s]].at # "idle" /\ turn[page[s]].session = s
  /\ page[s] = "ready" => Undecided(drafts[s]) /\ Opened(s) = 0
  /\ page[s] = "locked" =>
       /\ s \in registered
       /\ drafts[s] # NoDraft
       /\ drafts[s].status \in {"filed", "escalated"}

PromiseInv == (\A t \in Turns : TurnKeeps(t)) /\ (\A s \in Sessions : PageKeeps(s))

-----------------------------------------------------------------------------
LEMMA IssuesFinite ==
  ASSUME TypeInv
  PROVE  \A s \in Sessions : IsFiniteSet(Issues(s)) /\ Opened(s) \in Nat
<1> TAKE s \in Sessions
<1>1. Tickets = 1..Len(tickets) /\ Len(tickets) \in Nat
  BY DEF Tickets, TypeInv, TypeOK
<1>2. IsFiniteSet(Tickets)
  BY <1>1, FS_Interval
<1>3. IsFiniteSet(Issues(s))
  BY <1>2, FS_Subset DEF Issues
<1>4. QED
  BY <1>3, FS_CardinalityType DEF Opened

\* Other sessions keep their issues; that of t has one more, or the same.
LEMMA TicketOpens ==
  ASSUME TypeInv, NEW t \in Turns, NEW s \in Sessions, s = turn[t].session,
         NewTicket(t)
  PROVE  /\ Opened(s)' = Opened(s) + 1
         /\ \A u \in Sessions \ {s} : Opened(u)' = Opened(u)
<1>0. PICK n : n = Len(tickets) + 1
  OBVIOUS
<1>1. /\ tickets \in Seq([by : Sessions, link : Nat])
      /\ tickets' = Append(tickets, [by |-> s, link |-> NoTicket])
  BY DEF TypeInv, TypeOK, NewTicket
<1>2. /\ Tickets = 1..Len(tickets) /\ Tickets' = Tickets \cup {n}
      /\ n \notin Tickets
      /\ \A k \in Tickets : tickets'[k] = tickets[k]
      /\ tickets'[n].by = s
  <2> DEFINE x == [by |-> s, link |-> NoTicket]
  <2>1. x \in [by : Sessions, link : Nat] /\ x.by = s
    BY DEF NoTicket
  <2> HIDE DEF x
  <2>2. /\ Len(tickets') = n /\ DOMAIN tickets' = 1..n /\ tickets'[n] = x
        /\ \A k \in 1..Len(tickets) : tickets'[k] = tickets[k]
    BY <1>0, <1>1, <2>1 DEF x
  <2>3. Len(tickets) \in Nat /\ DOMAIN tickets = 1..Len(tickets)
    BY <1>1
  <2>4. QED
    BY <1>0, <2>1, <2>2, <2>3 DEF Tickets
<1>3. Issues(s)' = Issues(s) \cup {n} /\ n \notin Issues(s)
  BY <1>2 DEF Issues
<1>4. \A u \in Sessions \ {s} : Issues(u)' = Issues(u)
  BY <1>2 DEF Issues
<1>5. Cardinality(Issues(s) \cup {n}) = Cardinality(Issues(s)) + 1
  BY <1>3, IssuesFinite, FS_AddElement
<1>6. QED
  BY <1>3, <1>4, <1>5 DEF Opened

LEMMA LinkOpensNone ==
  ASSUME TypeInv, NEW k, NEW c, tickets' = Linked(k, c)
  PROVE  \A s : Issues(s)' = Issues(s)
<1>1. tickets \in Seq([by : Sessions, link : Nat])
  BY DEF TypeInv, TypeOK
<1>2. Tickets' = Tickets
  BY DEF Tickets, Linked
<1>3. \A j \in Tickets : tickets'[j].by = tickets[j].by
  <2> TAKE j \in Tickets
  <2>1. tickets[j] \in [by : Sessions, link : Nat]
    BY <1>1, ElementOfSeq, LenProperties DEF Tickets
  <2>2. QED
    BY <2>1 DEF Tickets, Linked
<1>4. QED
  BY <1>2, <1>3 DEF Issues

\* A step of one turn: what holds of the turn and of its session is enough.
LEMMA OneTurnKeeps ==
  ASSUME TypeInv, TypeInv', PromiseInv, NEW t \in Turns, turn[t].at # "idle",
         NEW s, s = turn[t].session,
         \A u \in Turns \ {t} : turn'[u] = turn[u],
         turn'[t].at # "idle" => turn'[t].session = s,
         \A u \in Sessions \ {s} :
           /\ page'[u] = page[u] /\ drafts'[u] = drafts[u]
           /\ Opened(u)' = Opened(u),
         registered \subseteq registered',
         TurnKeeps(t)', PageKeeps(s)'
  PROVE  PromiseInv'
<1>1. s \in Sessions /\ page[s] = t
  BY DEF TypeInv, TurnsTyped, PromiseInv, TurnKeeps
<1>2. \A u \in Sessions \ {s} : PageKeeps(u)'
  <2> TAKE u \in Sessions \ {s}
  <2>1. PageKeeps(u) /\ page[u] # t
    BY DEF PromiseInv, PageKeeps
  <2>2. QED
    BY <2>1 DEF PageKeeps
<1>3. ASSUME NEW u \in Turns \ {t}, turn'[u].at # "idle"
      PROVE  TurnKeeps(u)'
  <2>1. turn'[u] = turn[u] /\ turn[u].session \in Sessions
    BY <1>3 DEF TypeInv, TurnsTyped
  <2>2. TurnKeeps(u) /\ page[turn[u].session] = u
    BY <1>3, <2>1 DEF PromiseInv, TurnKeeps
  <2>3. turn[u].session # s
    BY <1>1, <2>2
  <2>4. QED
    BY <1>3, <2>1, <2>2, <2>3 DEF TurnKeeps
<1>4. \A u \in Turns \ {t} : TurnKeeps(u)'
  BY <1>3 DEF TurnKeeps
<1>5. QED
  BY <1>2, <1>4 DEF PromiseInv

\* ... of which the page goes on waiting.
LEMMA TurnGoesOn ==
  ASSUME TypeInv, TypeInv', PromiseInv, NEW t \in Turns, turn[t].at # "idle",
         NEW s, s = turn[t].session, UNCHANGED <<page, registered>>, Others(t),
         turn'[t].session = s, turn'[t].at # "idle",
         \A u \in Sessions \ {s} :
           drafts'[u] = drafts[u] /\ Opened(u)' = Opened(u),
         StepKeeps(turn'[t], drafts'[s], Opened(s)')
  PROVE  PromiseInv'
<1>1. page[s] = t /\ page' = page
  BY DEF PromiseInv, TurnKeeps
<1>2. TurnKeeps(t)'
  BY <1>1 DEF TurnKeeps
<1>3. PageKeeps(s)'
  BY <1>1, ChatAssumption DEF PageKeeps
<1>4. QED
  BY <1>1, <1>2, <1>3, OneTurnKeeps DEF Others

\* ... and which neither stores a draft nor opens an issue.
LEMMA TurnThinks ==
  ASSUME TypeInv, TypeInv', PromiseInv, NEW t \in Turns, turn[t].at # "idle",
         NEW s, s = turn[t].session, UNCHANGED <<store, page, tickets>>, Others(t),
         turn'[t].session = s, turn'[t].at # "idle",
         StepKeeps(turn'[t], drafts[s], Opened(s))
  PROVE  PromiseInv'
<1>1. \A u \in Sessions : Opened(u)' = Opened(u)
  BY DEF Opened, Issues, Tickets
<1>2. s \in Sessions
  BY DEF TypeInv, TurnsTyped
<1>3. QED
  BY <1>1, <1>2, TurnGoesOn DEF store

LEMMA LoopStepPromise ==
  ASSUME TypeInv, TypeInv', Calm, BudgetInv, PromiseInv,
         NEW t \in Turns, LoopStep(t)
  PROVE  PromiseInv'
<1> DEFINE d == turn[t].draft
<1>1. PICK s : s = turn[t].session
  OBVIOUS
<1>2. PICK e : e = drafts[s]
  OBVIOUS
<1>3. /\ turn[t] \in Turn
      /\ turn[t].at # "idle" => s \in Sessions
      /\ turn[t].at \notin {"idle", "arrived"} => d \in Draft
      /\ e # NoDraft /\ turn[t].at # "idle" => e \in Draft
  BY <1>1, <1>2 DEF TypeInv, TypeOK, ChatTypeOK, TurnsTyped
<1>4. turn[t].at # "idle" => page[s] = t /\ StepKeeps(turn[t], e, Opened(s))
  BY <1>1, <1>2 DEF PromiseInv, TurnKeeps
<1>5. CapIsPerRequest
  BY BudgetInvCaps DEF Calm
<1>6. \* to the next await, with the round and the issues it had
      ASSUME NEW step \in LoopSteps, NEW x, Goto(t, step, x),
             UNCHANGED <<store, page, tickets>>, turn[t].at # "idle",
             Undecided(e), x.round = AskedOf(e),
             step \in {"classify", "nearest", "score", "create"} => Opened(s) = 0,
             step = "link" => x.status = "filed" /\ Opened(s) = 1,
             step = "index" => Decides(x, Opened(s)),
             step = "loopSave" => Decides(x, Opened(s))
      PROVE  PromiseInv'
  <2>1. /\ turn'[t].at = step /\ turn'[t].draft = x /\ turn'[t].session = s
        /\ Others(t)
    BY <1>1, <1>6, GotoMoves
  <2>2. StepKeeps(turn'[t], drafts[s], Opened(s))
    BY <1>2, <1>6, <2>1 DEF StepKeeps, LoopSteps
  <2>3. step # "idle"
    BY DEF LoopSteps
  <2>4. QED
    BY <1>1, <1>6, <2>1, <2>2, <2>3, TurnThinks
<1>7. CASE Load(t)
  <2>1. turn[t].at = "arrived"
    BY <1>7 DEF Load, At
  <2>2. Undecided(e) /\ Opened(s) = 0
    BY <1>4, <2>1 DEF StepKeeps
  <2>3. /\ Absorbed(e).round = AskedOf(e)
        /\ Absorbed(e).status = "gathering_info"
    BY <1>3, <2>1, <2>2 DEF Absorbed, AskedOf, Undecided, NewDraft, Draft
  <2>4. Goto(t, "classify", Absorbed(e)) /\ UNCHANGED <<store, page, tickets>>
    BY <1>1, <1>2, <1>7, <2>3 DEF Load, Terminal, loopVars
  <2>5. QED
    BY <1>6, <2>1, <2>2, <2>3, <2>4 DEF LoopSteps
<1>8. ASSUME NEW c \in Categories, NEW found \in SUBSET Fields
      PROVE  /\ turn[t].at = "classify" =>
                  Classified(d, c, found) \in Draft
                  /\ Classified(d, c, found).round = d.round
             /\ \A x \in Draft, st \in Status :
                  /\ [x EXCEPT !.status = st].round = x.round
                  /\ [x EXCEPT !.status = st].status = st
  BY <1>3 DEF Classified, Draft
<1>9. ASSUME NEW c \in Categories, NEW found \in SUBSET Fields,
             Clarify(t, c, found)
      PROVE  PromiseInv'
  <2> DEFINE k == Classified(d, c, found)
  <2>1. turn[t].at = "classify" /\ UNCHANGED <<store, page, tickets>>
        /\ NeedsAnswer(k)
    BY <1>9 DEF Clarify, At, loopVars
  <2>2. PICK y : y = [k EXCEPT !.status = "gathering_info"]
    OBVIOUS
  <2>3. y.status = "gathering_info" /\ y.round = d.round /\ y.round < MaxRounds
    BY <1>8, <2>1, <2>2 DEF NeedsAnswer, MayAskAgain, Status
  <2>4. PICK x : x = [turn[t] EXCEPT !.at = "loopSave", !.reply = "question",
                                     !.draft = y]
    OBVIOUS
  <2>5. x.at = "loopSave" /\ x.draft = y /\ x.session = s
    BY <1>1, <1>3, <2>4 DEF Turn
  <2>6. turn' = [turn EXCEPT ![t] = x]
    BY <1>9, <2>2, <2>4 DEF Clarify
  <2>7. turn'[t] = x /\ Others(t)
    BY <2>6, Replaced
  <2>8. StepKeeps(turn'[t], drafts[s], Opened(s))
    BY <1>2, <1>4, <2>1, <2>3, <2>5, <2>7 DEF StepKeeps, LoopSteps, Asks
  <2>9. QED
    BY <1>1, <2>1, <2>5, <2>7, <2>8, TurnThinks
<1>10. ASSUME NEW c \in Categories, NEW found \in SUBSET Fields,
              Investigate(t, c, found)
       PROVE  PromiseInv'
  <2> DEFINE k == Classified(d, c, found)
  <2>1. turn[t].at = "classify" /\ UNCHANGED <<store, page, tickets>>
        /\ Goto(t, "nearest", [k EXCEPT !.status = "investigating"])
    BY <1>10 DEF Investigate, At
  <2>2. [k EXCEPT !.status = "investigating"].round = d.round
    BY <1>8, <2>1 DEF Status
  <2>3. Undecided(e) /\ d.round = AskedOf(e) /\ Opened(s) = 0
    BY <1>4, <2>1 DEF StepKeeps, LoopSteps
  <2>4. QED
    BY <1>6, <2>1, <2>2, <2>3 DEF LoopSteps
<1>11. CASE Nearest(t)
  <2>1. turn[t].at = "nearest" /\ UNCHANGED <<store, page, tickets>>
    BY <1>11 DEF Nearest, At, loopVars
  <2>2. PICK ref : Goto(t, "score", [d EXCEPT !.dup = ref])
    BY <1>11 DEF Nearest
  <2>3. [d EXCEPT !.dup = ref].round = d.round
    BY <1>3, <2>1 DEF Draft
  <2>4. Undecided(e) /\ d.round = AskedOf(e) /\ Opened(s) = 0
    BY <1>4, <2>1 DEF StepKeeps, LoopSteps
  <2>5. QED
    BY <1>6, <2>1, <2>2, <2>3, <2>4 DEF LoopSteps
<1>12. ASSUME turn[t].at = "score"
       PROVE  /\ Undecided(e) /\ Opened(s) = 0 /\ HasBudget(t)
              /\ \A score : /\ Scored(d, score) \in Draft
                            /\ Scored(d, score).round = AskedOf(e)
  <2>1. Undecided(e) /\ d.round = AskedOf(e) /\ Opened(s) = 0
    BY <1>4, <1>12 DEF StepKeeps, LoopSteps
  <2>2. HasBudget(t)
    BY <1>5, <1>12 DEF CapIsPerRequest, At
  <2>3. ASSUME NEW score
        PROVE  Scored(d, score) \in Draft /\ Scored(d, score).round = d.round
    BY <1>3, <1>12 DEF Scored, Draft, Status, DecideRouting
  <2>4. QED
    BY <2>1, <2>2, <2>3
<1>13. ASSUME NEW score \in Scores, Escalate(t, score)
       PROVE  PromiseInv'
  <2>1. turn[t].at = "score" /\ UNCHANGED <<store, page, tickets>>
        /\ Goto(t, "index", [Scored(d, score) EXCEPT !.status = "escalated"])
    BY <1>13 DEF Escalate, At, loopVars
  <2>2. PICK x : x = [Scored(d, score) EXCEPT !.status = "escalated"]
    OBVIOUS
  <2>3. x.round = AskedOf(e) /\ x.status = "escalated"
    BY <1>12, <2>1, <2>2 DEF Draft
  <2>4. QED
    BY <1>6, <1>12, <2>1, <2>2, <2>3 DEF LoopSteps, Decides
<1>14. ASSUME NEW score \in Scores, StartFiling(t, score)
       PROVE  PromiseInv'
  <2>1. turn[t].at = "score" /\ UNCHANGED <<store, page, tickets>>
        /\ Goto(t, "create", Scored(d, score))
    BY <1>14 DEF StartFiling, At
  <2>2. QED
    BY <1>6, <1>12, <2>1 DEF LoopSteps
<1>15. ASSUME NEW score \in Scores, RefuseFiling(t, score)
       PROVE  PromiseInv'
  BY <1>12, <1>15 DEF RefuseFiling, At
<1>16. ASSUME turn[t].at = "create"
       PROVE  /\ Undecided(e) /\ d.round = AskedOf(e) /\ Opened(s) = 0
              /\ d.dup # NoDuplicate => HasBudget(t)
  BY <1>4, <1>5, <1>16 DEF StepKeeps, LoopSteps, CapIsPerRequest, At
<1>17. \* the issue is opened
       ASSUME NEW step \in {"link", "index"}, turn[t].at = "create", NewTicket(t),
              Goto(t, step, Filed(d)), UNCHANGED <<store, page>>
       PROVE  PromiseInv'
  <2>1. s \in Sessions
    BY <1>3, <1>17
  <2>2. /\ turn'[t].at = step /\ turn'[t].draft = Filed(d)
        /\ turn'[t].session = s /\ Others(t)
    BY <1>1, <1>17, GotoMoves
  <2>3. Filed(d).round = d.round /\ Filed(d).status = "filed"
    BY <1>3, <1>17 DEF Filed, Draft
  <2>4. Opened(s)' = 1 /\ \A u \in Sessions \ {s} : Opened(u)' = Opened(u)
    BY <1>1, <1>16, <1>17, <2>1, TicketOpens
  <2>5. drafts' = drafts /\ StepKeeps(turn'[t], drafts[s], 1)
    BY <1>2, <1>16, <1>17, <2>2, <2>3 DEF StepKeeps, LoopSteps, Decides, store
  <2>6. QED
    BY <1>1, <1>17, <2>2, <2>4, <2>5, TurnGoesOn DEF store
<1>18. CASE FileNew(t)
  BY <1>17, <1>18 DEF FileNew, At
<1>19. CASE FileDuplicate(t)
  BY <1>17, <1>19 DEF FileDuplicate, At
<1>20. CASE RefuseLink(t)
  BY <1>16, <1>20 DEF RefuseLink, At
<1>21. CASE FilingFails(t)
  <2>1. turn[t].at = "create" /\ UNCHANGED <<store, page, tickets>>
        /\ Goto(t, "index", [d EXCEPT !.status = "escalated"])
    BY <1>21 DEF FilingFails, At, loopVars
  <2>2. PICK x : x = [d EXCEPT !.status = "escalated"]
    OBVIOUS
  <2>3. x.round = AskedOf(e) /\ x.status = "escalated"
    BY <1>3, <1>16, <2>1, <2>2 DEF Draft
  <2>4. QED
    BY <1>6, <1>16, <2>1, <2>2, <2>3 DEF LoopSteps, Decides
<1>22. CASE FilingUnanswered(t) \/ FilingUnreadable(t)
  BY <1>22 DEF FilingUnanswered, FilingUnreadable, Calm
<1>23. ASSUME turn[t].at = "link"
       PROVE  Undecided(e) /\ d.round = AskedOf(e) /\ Decides(d, Opened(s))
  BY <1>4, <1>23 DEF StepKeeps, LoopSteps, Decides
<1>24. CASE LinkMade(t)
  <2>1. /\ turn[t].at = "link" /\ UNCHANGED <<store, page>>
        /\ Goto(t, "index", d)
        /\ tickets' = Linked(d.ticket, d.dup)
    BY <1>24 DEF LinkMade, At
  <2>2. /\ turn'[t].at = "index" /\ turn'[t].draft = d
        /\ turn'[t].session = s /\ Others(t)
    BY <1>1, <2>1, GotoMoves
  <2>3. \A u : Opened(u)' = Opened(u)
    BY <2>1, LinkOpensNone DEF Opened
  <2>4. StepKeeps(turn'[t], drafts[s], Opened(s))
    BY <1>2, <1>23, <2>1, <2>2 DEF StepKeeps, LoopSteps
  <2>5. QED
    BY <1>1, <2>1, <2>2, <2>3, <2>4, TurnGoesOn DEF store
<1>25. CASE LinkFails(t)
  BY <1>6, <1>23, <1>25 DEF LinkFails, At, loopVars, LoopSteps
<1>26. CASE Index(t)
  <2>1. /\ turn[t].at = "index" /\ UNCHANGED <<store, page, tickets>>
        /\ Goto(t, "loopSave", d)
    BY <1>26 DEF Index, At
  <2>2. Undecided(e) /\ d.round = AskedOf(e) /\ Decides(d, Opened(s))
    BY <1>4, <2>1 DEF StepKeeps, LoopSteps
  <2>3. QED
    BY <1>6, <2>1, <2>2 DEF LoopSteps
<1>27. CASE LoopSave(t)
  <2>1. turn[t].at = "loopSave" /\ s \in Sessions /\ d \in Draft
    BY <1>3, <1>27 DEF LoopSave, At
  <2>2. PICK reply : reply = IF d.status = "gathering_info" THEN "question"
                                                            ELSE "verdict"
    OBVIOUS
  <2>3. /\ drafts' = [drafts EXCEPT ![s] = d] /\ Return(t, d, reply)
        /\ UNCHANGED <<registered, page, tickets>>
    BY <1>1, <1>27, <2>2 DEF LoopSave, loopVars
  <2>4. /\ turn'[t].at = "chatSave" /\ turn'[t].draft = d
        /\ turn'[t].session = s /\ turn'[t].reply = reply /\ Others(t)
    BY <1>1, <2>3, ReturnMoves
  <2>5. drafts'[s] = d /\ \A u \in Sessions \ {s} : drafts'[u] = drafts[u]
    BY <2>1, <2>3 DEF TypeInv, TypeOK, ChatTypeOK
  <2>6. \A u : Opened(u)' = Opened(u)
    BY <2>3 DEF Opened, Issues, Tickets
  <2>7. Decides(d, Opened(s)) \/ (Asks(d) /\ Opened(s) = 0)
    BY <1>4, <2>1 DEF StepKeeps
  <2>8. Replied(reply, d, Opened(s))
    BY <2>1, <2>2, <2>7, ChatAssumption DEF Replied, Decides, Asks
  <2>9. StepKeeps(turn'[t], d, Opened(s))
    BY <2>4, <2>8 DEF StepKeeps, LoopSteps
  <2>10. QED
    BY <1>1, <2>1, <2>3, <2>4, <2>5, <2>6, <2>9, TurnGoesOn
<1>28. QED
  BY <1>7, <1>9, <1>10, <1>11, <1>13, <1>14, <1>15, <1>18, <1>19, <1>20, <1>21,
     <1>22, <1>24, <1>25, <1>26, <1>27 DEF LoopStep

LEMMA TransportStepPromise ==
  ASSUME TypeInv, TypeInv', PromiseInv, NEW t \in Turns, TransportStep(t)
  PROVE  PromiseInv'
<1>1. PICK s : s = turn[t].session
  OBVIOUS
<1>2. PICK e : e = drafts[s]
  OBVIOUS
<1>3. turn[t] \in Turn /\ turn[t].at # "idle"
  BY DEF TypeInv, TurnsTyped, TransportStep, Transport, ChatSave, LogUser,
         LogReply, Register, At
<1>4. s \in Sessions /\ page[s] = t /\ StepKeeps(turn[t], e, Opened(s))
  BY <1>1, <1>2, <1>3 DEF PromiseInv, TurnKeeps, TypeInv, TurnsTyped
<1>5. /\ UNCHANGED tickets
      /\ \A u : Opened(u)' = Opened(u)
  BY DEF TransportStep, loopVars, Opened, Issues, Tickets
<1>6. \* on to a later await of the transport
      ASSUME NEW x, turn' = [turn EXCEPT ![t] = x],
             x.at \in {"logUser", "logReply", "register"},
             x.session = s, Replied(x.reply, e, Opened(s)),
             UNCHANGED <<page, registered>>,
             \A u \in Sessions : drafts'[u] = drafts[u]
      PROVE  PromiseInv'
  <2>1. turn'[t] = x /\ Others(t)
    BY <1>6, Replaced
  <2>2. StepKeeps(turn'[t], drafts'[s], Opened(s)')
    BY <1>2, <1>4, <1>5, <1>6, <2>1 DEF StepKeeps, LoopSteps
  <2>3. x.at # "idle"
    BY <1>6
  <2>4. QED
    BY <1>1, <1>3, <1>5, <1>6, <2>1, <2>2, <2>3, TurnGoesOn
<1>7. CASE ChatSave(t)
  <2>1. PICK d : d = turn[t].draft
    OBVIOUS
  <2>2. d = e /\ Replied(turn[t].reply, e, Opened(s))
    BY <1>4, <1>7, <2>1 DEF StepKeeps, ChatSave, At
  <2>3. ~ (turn[t].reply = "question" /\ ~ MayAskAgain(d))
    BY <2>2 DEF Replied, Asks, MayAskAgain
  <2>4. PICK x : x = [turn[t] EXCEPT !.at = "logUser", !.reply = @]
    OBVIOUS
  <2>5. turn' = [turn EXCEPT ![t] = x] /\ UNCHANGED <<page, registered>>
    BY <1>7, <2>1, <2>3, <2>4 DEF ChatSave
  <2>6. x.at = "logUser" /\ x.session = s /\ x.reply = turn[t].reply
    BY <1>1, <1>3, <2>4 DEF Turn
  <2>7. \A u \in Sessions : drafts'[u] = drafts[u]
    BY <1>1, <1>2, <1>7, <2>1, <2>2 DEF ChatSave, TypeInv, TypeOK, ChatTypeOK
  <2>8. QED
    BY <1>6, <2>2, <2>5, <2>6, <2>7
<1>8. ASSUME NEW step \in {"logReply", "register"},
             turn' = [turn EXCEPT ![t].at = step],
             turn[t].at \in {"logUser", "logReply"},
             UNCHANGED <<drafts, page, registered>>
      PROVE  PromiseInv'
  <2>1. PICK x : x = [turn[t] EXCEPT !.at = step]
    OBVIOUS
  <2>2. x.at = step /\ x.session = s /\ x.reply = turn[t].reply
    BY <1>1, <1>3, <2>1 DEF Turn
  <2>3. Replied(turn[t].reply, e, Opened(s))
    BY <1>4, <1>8 DEF StepKeeps
  <2>4. QED
    BY <1>6, <1>8, <2>1, <2>2, <2>3
<1>9. CASE Register(t)
  <2>1. PICK p : p = IF turn[t].reply = "question" THEN "ready" ELSE "locked"
    OBVIOUS
  <2>2. Release(t, p) /\ registered' = registered \cup {s} /\ drafts' = drafts
    BY <1>1, <1>9, <2>1 DEF Register, Listed
  <2>3. turn'[t].at = "idle" /\ Others(t)
    BY <2>2, ReleaseMoves
  <2>4. \A u \in Sessions : page'[u] = IF page[u] = t THEN p ELSE page[u]
    BY <2>2 DEF Release
  <2>5. \A u \in Sessions \ {s} : page'[u] = page[u]
    BY <1>1, <2>4 DEF PromiseInv, PageKeeps
  <2>6. Replied(turn[t].reply, e, Opened(s))
    BY <1>4, <1>9 DEF StepKeeps, Register, At
  <2>7. page'[s] = p /\ drafts'[s] = e /\ s \in registered'
    BY <1>2, <1>4, <2>2, <2>4
  <2>8. PageKeeps(s)'
    BY <1>5, <2>1, <2>6, <2>7, ChatAssumption
       DEF PageKeeps, Replied, Asks, Undecided
  <2>9. TurnKeeps(t)'
    BY <2>3 DEF TurnKeeps
  <2>10. QED
    BY <1>1, <1>3, <1>5, <2>2, <2>3, <2>5, <2>8, <2>9, OneTurnKeeps DEF Others
<1>10. QED
  BY <1>7, <1>8, <1>9 DEF TransportStep, Transport, LogUser, LogReply, At

LEMMA ReporterPromise ==
  ASSUME TypeInv, TypeInv', Calm, PromiseInv, Reporter, UNCHANGED loopVars
  PROVE  PromiseInv'
<1>1. \A u : Opened(u)' = Opened(u)
  BY DEF loopVars, Opened, Issues, Tickets
<1>2. ASSUME NEW s \in Sessions, NEW t \in Turns, Post(s, t)
      PROVE  PromiseInv'
  <2>1. PICK x : x = [IdleTurn EXCEPT !.at = "arrived", !.session = s]
    OBVIOUS
  <2>2. x.at = "arrived" /\ x.session = s
    BY <2>1 DEF IdleTurn
  <2>3. turn' = [turn EXCEPT ![t] = x] /\ UNCHANGED <<drafts, registered>>
    BY <1>2, <2>1 DEF Post, store
  <2>4. turn'[t] = x /\ Others(t)
    BY <2>3, Replaced
  <2>5. /\ page'[s] = t
        /\ \A u \in Sessions \ {s} : page'[u] = page[u]
    BY <1>2 DEF Post, TypeInv, TypeOK, ChatTypeOK
  <2>6. /\ turn[t].at = "idle" /\ page[s] = "ready"
        /\ Undecided(drafts[s]) /\ Opened(s) = 0
    BY <1>2 DEF Post, At, InputOpen, PromiseInv, PageKeeps
  <2>7. TurnKeeps(t)'
    BY <1>1, <2>2, <2>3, <2>4, <2>5, <2>6 DEF TurnKeeps, StepKeeps, LoopSteps
  <2>8. ASSUME NEW u \in Turns \ {t}, turn[u].at # "idle"
        PROVE  TurnKeeps(u)'
    <3>1. turn'[u] = turn[u] /\ turn[u].session \in Sessions
      BY <2>4, <2>8 DEF Others, TypeInv, TurnsTyped
    <3>2. TurnKeeps(u) /\ page[turn[u].session] = u
      BY <2>8 DEF PromiseInv, TurnKeeps
    <3>3. turn[u].session # s
      BY <2>6, <3>2, ChatAssumption
    <3>4. QED
      BY <1>1, <2>3, <2>5, <2>8, <3>1, <3>2, <3>3 DEF TurnKeeps
  <2>9. \A u \in Turns \ {t} : TurnKeeps(u)'
    BY <2>4, <2>8 DEF TurnKeeps, Others
  <2>10. PageKeeps(s)'
    BY <2>2, <2>4, <2>5, ChatAssumption DEF PageKeeps
  <2>11. ASSUME NEW u \in Sessions \ {s}
         PROVE  PageKeeps(u)'
    <3>1. PageKeeps(u) /\ page'[u] = page[u] /\ page[u] # t
      BY <2>5, <2>6 DEF PromiseInv, PageKeeps
    <3>2. page[u] \in Turns => turn'[page[u]] = turn[page[u]]
      BY <2>4, <3>1 DEF Others
    <3>3. QED
      BY <1>1, <2>3, <3>1, <3>2 DEF PageKeeps
  <2>12. QED
    BY <2>7, <2>9, <2>10, <2>11 DEF PromiseInv
<1>3. ASSUME NEW s \in Sessions, Reload(s)
      PROVE  PromiseInv'
  <2> DEFINE done == drafts[s] # NoDraft /\ drafts[s].status \in Done
  <2>1. page[s] = "ready" => ~ done
    BY DEF PromiseInv, PageKeeps, Undecided, Done
  <2>2. page[s] = "locked" => done
    BY DEF PromiseInv, PageKeeps, Done
  <2>3. page[s] \in {"ready", "locked"} \ {IF done THEN "locked" ELSE "ready"}
    BY <1>3 DEF Reload
  <2>4. QED
    BY <2>1, <2>2, <2>3
<1>4. QED
  BY <1>2, <1>3 DEF Reporter, Abandon, Calm

LEMMA NextPromise ==
  ASSUME TypeInv, Calm, BudgetInv, PromiseInv, [Next]_vars
  PROVE  PromiseInv'
<1>1. TypeInv'
  BY NextTypeInv
<1>2. ASSUME UNCHANGED vars
      PROVE  PromiseInv'
  BY <1>2 DEF vars, chatVars, loopVars, PromiseInv, TurnKeeps, PageKeeps,
              Opened, Issues, Tickets
<1>3. CASE Next
  BY <1>1, <1>3, LoopStepPromise, TransportStepPromise, ReporterPromise
     DEF Next, Calm, Admin, Expire, Fail, Crash
<1>4. QED
  BY <1>2, <1>3

LEMMA InitPromise == ASSUME Init PROVE PromiseInv
<1>1. \A t \in Turns : TurnKeeps(t)
  BY DEF Init, ChatInit, IdleTurn, TurnKeeps
<1>2. ASSUME NEW s \in Sessions
      PROVE  PageKeeps(s)
  <2>1. Opened(s) = 0
    <3>1. Issues(s) = {}
      BY DEF Issues, Tickets, Init
    <3>2. QED
      BY <3>1, FS_EmptySet DEF Opened
  <2>2. drafts[s] = NoDraft /\ page[s] = "ready"
    BY DEF Init, ChatInit
  <2>3. QED
    BY <2>1, <2>2, ChatAssumption DEF PageKeeps, Undecided
<1>3. QED
  BY <1>1, <1>2 DEF PromiseInv

LEMMA PromiseInvAlways ==
  ASSUME Calm
  PROVE  Spec => [](TypeInv /\ BudgetInv /\ PromiseInv)
<1>1. Init => BudgetInv /\ PromiseInv
  BY InitBudget, InitPromise DEF Calm
<1>2. TypeInv /\ BudgetInv /\ PromiseInv /\ [Next]_vars
        => BudgetInv' /\ PromiseInv'
  BY NextBudget, NextPromise DEF Calm
<1>3. QED
  BY <1>1, <1>2, TypeInvAlways, PTL DEF Spec

-----------------------------------------------------------------------------
(***************************************************************************)
(* The refinement: every step is one of the promise, or none.              *)
(***************************************************************************)

LEMMA Stutters ==
  ASSUME \A u \in Sessions : drafts'[u] = drafts[u] /\ Opened(u)' = Opened(u)
  PROVE  UNCHANGED Promise!vars
BY DEF Promise!vars, Opened, Issues

\* The two steps of a conversation that the store shows.
LEMMA StoreRefines ==
  ASSUME TypeInv, NEW s \in Sessions, NEW d \in Draft,
         drafts' = [drafts EXCEPT ![s] = d],
         \A u \in Sessions : Opened(u)' = Opened(u),
         Undecided(drafts[s]), d.round = AskedOf(drafts[s]),
         Decides(d, Opened(s)) \/ (Asks(d) /\ Opened(s) = 0)
  PROVE  Promise!Next
<1> DEFINE st == [u \in Sessions |-> StageOf(drafts[u])]
           ak == [u \in Sessions |-> AskedOf(drafts[u])]
           op == [u \in Sessions |-> Opened(u)]
<1>1. d # NoDraft /\ d.round \in Nat /\ d.status \in Status
  BY ChatAssumption DEF Draft
<1>2. drafts'[s] = d /\ \A u \in Sessions \ {s} : drafts'[u] = drafts[u]
  BY DEF TypeInv, TypeOK, ChatTypeOK
<1>3. st[s] \in {"new", "asking"} /\ ak[s] = d.round
  BY DEF StageOf, Undecided
<1>4. op' = op
  OBVIOUS
<1> HIDE DEF ak, st
<1>5. /\ ak = [u \in Sessions |-> ak[u]] /\ ak' = [u \in Sessions |-> ak'[u]]
      /\ st = [u \in Sessions |-> st[u]] /\ st' = [u \in Sessions |-> st'[u]]
  BY DEF ak, st
<1>6. /\ ak'[s] = AskedOf(d) /\ \A u \in Sessions \ {s} : ak'[u] = ak[u]
      /\ st'[s] = StageOf(d) /\ \A u \in Sessions \ {s} : st'[u] = st[u]
  BY <1>2 DEF ak, st
<1>7. CASE Asks(d) /\ Opened(s) = 0
  <2>1. StageOf(d) = "asking" /\ AskedOf(d) = d.round + 1
    BY <1>1, <1>7 DEF StageOf, AskedOf, Asks
  <2>2. st' = [st EXCEPT ![s] = "asking"]
    BY <1>5, <1>6, <2>1
  <2>3. ak' = [ak EXCEPT ![s] = @ + 1]
    BY <1>3, <1>5, <1>6, <2>1
  <2>4. op[s] = 0 /\ ak[s] < MaxRounds
    BY <1>3, <1>7 DEF Asks
  <2>5. Promise!Ask(s)
    BY <1>3, <1>4, <2>2, <2>3, <2>4
       DEF ak, st, Promise!Ask, Promise!Undecided, Opened, Issues
  <2>6. QED
    BY <2>5 DEF Promise!Next
<1>8. CASE Decides(d, Opened(s))
  <2>1. StageOf(d) = d.status /\ AskedOf(d) = d.round
        /\ d.status = IF op[s] = 1 THEN "filed" ELSE "escalated"
    BY <1>1, <1>8 DEF StageOf, AskedOf, Decides
  <2>2. st' = [st EXCEPT ![s] = IF op[s] = 1 THEN "filed" ELSE "escalated"]
    BY <1>5, <1>6, <2>1
  <2>3. ak' = ak
    <3>1. \A u \in Sessions : ak'[u] = ak[u]
      BY <1>3, <1>6, <2>1
    <3>2. QED
      BY <1>5, <3>1
  <2>4. Promise!Decide(s)
    BY <1>3, <1>4, <2>2, <2>3
       DEF ak, st, Promise!Decide, Promise!Undecided, Opened, Issues
  <2>5. QED
    BY <2>4 DEF Promise!Next
<1>9. QED
  BY <1>7, <1>8

\* The one that the tracker shows.
LEMMA TicketRefines ==
  ASSUME TypeInv, NEW t \in Turns, NEW s \in Sessions, s = turn[t].session,
         NewTicket(t), UNCHANGED drafts, Undecided(drafts[s]), Opened(s) = 0
  PROVE  Promise!Next
<1> DEFINE st == [u \in Sessions |-> StageOf(drafts[u])]
           ak == [u \in Sessions |-> AskedOf(drafts[u])]
           op == [u \in Sessions |-> Opened(u)]
<1>1. st[s] \in {"new", "asking"} /\ op[s] = 0 /\ st' = st /\ ak' = ak
  BY DEF StageOf, Undecided
<1>2. op' = [op EXCEPT ![s] = 1]
  <2>1. op'[s] = 1 /\ \A u \in Sessions \ {s} : op'[u] = op[u]
    <3>1. Opened(s)' = 1 /\ \A u \in Sessions \ {s} : Opened(u)' = Opened(u)
      BY TicketOpens
    <3>2. QED
      BY <3>1
  <2>2. QED
    BY <2>1
<1>3. Promise!Open(s)
  BY <1>1, <1>2 DEF Promise!Open, Promise!Undecided, Opened, Issues
<1>4. QED
  BY <1>3 DEF Promise!Next

LEMMA InitRefines == ASSUME Init PROVE Promise!Init
<1>1. \A s \in Sessions : Opened(s) = 0
  <2> TAKE s \in Sessions
  <2>1. Issues(s) = {}
    BY DEF Issues, Tickets, Init
  <2>2. QED
    BY <2>1, FS_EmptySet DEF Opened
<1>2. \A s \in Sessions : drafts[s] = NoDraft
  BY DEF Init, ChatInit
<1>3. QED
  BY <1>1, <1>2 DEF Promise!Init, StageOf, AskedOf, Opened, Issues

LEMMA LoopStepRefines ==
  ASSUME TypeInv, Calm, BudgetInv, PromiseInv, NEW t \in Turns, LoopStep(t)
  PROVE  [Promise!Next]_(Promise!vars)
<1>1. PICK s : s = turn[t].session
  OBVIOUS
<1>2. turn[t].at # "idle"
  BY DEF LoopStep, Load, Clarify, Investigate, Nearest, Escalate, StartFiling,
         RefuseFiling, FileNew, FileDuplicate, RefuseLink, FilingFails,
         FilingUnanswered, FilingUnreadable, LinkMade, LinkFails, Index,
         LoopSave, At
<1>3. s \in Sessions /\ StepKeeps(turn[t], drafts[s], Opened(s))
  BY <1>1, <1>2 DEF PromiseInv, TurnKeeps, TypeInv, TurnsTyped
<1>4. CASE UNCHANGED <<drafts, tickets>>
  BY <1>4, Stutters DEF Opened, Issues, Tickets
<1>5. CASE turn[t].at = "create" /\ NewTicket(t) /\ UNCHANGED drafts
  <2>1. Undecided(drafts[s]) /\ Opened(s) = 0
    BY <1>3, <1>5 DEF StepKeeps, LoopSteps
  <2>2. QED
    BY <1>1, <1>3, <1>5, <2>1, TicketRefines
<1>6. CASE LinkMade(t)
  BY <1>6, LinkOpensNone, Stutters DEF LinkMade, store, Opened
<1>7. CASE LoopSave(t)
  <2>1. PICK d : d = turn[t].draft
    OBVIOUS
  <2>2. turn[t].at = "loopSave" /\ d \in Draft
    BY <1>7, <2>1 DEF LoopSave, At, TypeInv, TurnsTyped
  <2>3. drafts' = [drafts EXCEPT ![s] = d] /\ UNCHANGED tickets
    BY <1>1, <1>7, <2>1 DEF LoopSave, loopVars
  <2>4. \A u \in Sessions : Opened(u)' = Opened(u)
    BY <2>3 DEF Opened, Issues, Tickets
  <2>5. /\ Undecided(drafts[s]) /\ d.round = AskedOf(drafts[s])
        /\ Decides(d, Opened(s)) \/ (Asks(d) /\ Opened(s) = 0)
    BY <1>3, <2>1, <2>2 DEF StepKeeps, LoopSteps
  <2>6. QED
    BY <1>3, <2>2, <2>3, <2>4, <2>5, StoreRefines
<1>8. ~ RefuseLink(t)
  BY BudgetInvCaps DEF RefuseLink, CapIsPerRequest, At, Calm
<1>9. QED
  BY <1>4, <1>5, <1>6, <1>7, <1>8
     DEF LoopStep, Load, Clarify, Investigate, Nearest, Escalate, StartFiling,
         RefuseFiling, Abort, FileNew, FileDuplicate, FilingFails,
         FilingUnanswered, FilingUnreadable, LinkFails, Index, Calm, At, store,
         loopVars

LEMMA TransportStepRefines ==
  ASSUME TypeInv, PromiseInv, NEW t \in Turns, TransportStep(t)
  PROVE  UNCHANGED Promise!vars
<1>1. \A u : Opened(u)' = Opened(u)
  BY DEF TransportStep, loopVars, Opened, Issues, Tickets
<1>2. \A u \in Sessions : drafts'[u] = drafts[u]
  <2>1. CASE ChatSave(t)
    <3>1. PICK s : s = turn[t].session
      OBVIOUS
    <3>2. turn[t].at = "chatSave"
      BY <2>1 DEF ChatSave, At
    <3>3. StepKeeps(turn[t], drafts[s], Opened(s))
      BY <3>1, <3>2 DEF PromiseInv, TurnKeeps
    <3>4. turn[t].draft = drafts[s]
      BY <3>2, <3>3 DEF StepKeeps
    <3>5. QED
      BY <2>1, <3>1, <3>4 DEF ChatSave, TypeInv, TypeOK, ChatTypeOK
  <2>2. QED
    BY <2>1 DEF TransportStep, Transport, LogUser, LogReply, Register
<1>3. QED
  BY <1>1, <1>2, Stutters

LEMMA NextRefines ==
  ASSUME TypeInv, Calm, BudgetInv, PromiseInv, [Next]_vars
  PROVE  [Promise!Next]_(Promise!vars)
<1>1. ASSUME UNCHANGED <<drafts, tickets>>
      PROVE  UNCHANGED Promise!vars
  BY <1>1, Stutters DEF Opened, Issues, Tickets
<1>2. CASE UNCHANGED vars
  BY <1>1, <1>2 DEF vars, chatVars, loopVars
<1>3. CASE Reporter /\ UNCHANGED loopVars
  BY <1>1, <1>3 DEF Reporter, Post, Reload, Abandon, store, loopVars
<1>4. CASE Next
  BY <1>3, <1>4, LoopStepRefines, TransportStepRefines
     DEF Next, Calm, Admin, Expire, Fail, Crash
<1>5. QED
  BY <1>2, <1>4

\* The agent loop keeps the promise of every conversation while nothing fails,
\* nobody reviews and the budget suffices, however its turns interleave: at most
\* MaxRounds questions, then one decision, and one issue in the tracker exactly
\* when it is to file (contracts/draft.py:9-11, loop.py:1-8).
THEOREM LoopKeepsPromise ==
  ASSUME Calm
  PROVE  Spec => KeepsPromise
<1>1. Init => Promise!Init
  BY InitRefines
<1>2. TypeInv /\ BudgetInv /\ PromiseInv /\ [Next]_vars
        => [Promise!Next]_(Promise!vars)
  BY NextRefines
<1>3. QED
  BY <1>1, <1>2, PromiseInvAlways, PTL DEF Spec, KeepsPromise, Promise!Spec

=============================================================================
