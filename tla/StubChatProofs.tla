--------------------------- MODULE StubChatProofs ---------------------------
(***************************************************************************)
(* Proofs about StubChat, for every number of sessions, turns, reviewers   *)
(* and messages and under every fault, as long as no category requires     *)
(* MaxRounds fields.                                                       *)
(*                                                                         *)
(* A stored draft comes from a turn or a review that read another one some *)
(* steps before, so the first invariant, StubInv, speaks of every draft    *)
(* held anywhere and needs nothing of the environment.  The second,        *)
(* FollowInv, is for pages that wait for their answers and drafts that are *)
(* kept: it gives the bound on the questions, the transcript, that a       *)
(* decision stands, and the promise of Conversation.                       *)
(***************************************************************************)
EXTENDS StubChat, FiniteSetTheorems, TLAPS

\* What _REQUIRED_FIELDS gives: fewer fields than there are rounds.
FewFields ==
  \A c \in Categories :
    IsFiniteSet(Required[c]) /\ Cardinality(Required[c]) < MaxRounds

\* A classified draft with as many rounds as answers.
Matched(d) ==
  /\ d \in Draft
  /\ d.category \in Categories
  /\ d.answered \subseteq Required[d.category]
  /\ d.round = Cardinality(d.answered)

\* A draft as advance leaves it: it waits for the answer of one more round, or
\* is complete.
Sound(d) ==
  /\ d \in Draft
  /\ d.category \in Categories
  /\ d.answered \subseteq Required[d.category]
  /\ d.status = "gathering_info" =>
       Missing(d) # {} /\ d.round = Cardinality(d.answered) + 1
  /\ d.status # "gathering_info" =>
       Missing(d) = {} /\ d.round = Cardinality(d.answered)

\* A question may be asked.
Askable(t) ==
  turn[t].reply = "question" =>
    MayAskAgain(turn[t].draft)

TurnSound(t) ==
  turn[t].at # "idle" =>
    /\ turn[t].session \in Sessions
    /\ turn[t].at = "chatSave" => Sound(turn[t].draft) /\ Askable(t)
    /\ turn[t].reply # "cap"

StubTyped ==
  /\ drafts \in [Sessions -> Draft \cup {NoDraft}]
  /\ log \in [Sessions -> Seq({"user"} \cup Replies)]
  /\ turn \in [Turns -> Turn]
  /\ review \in [Reviewers -> Review]

StubInv ==
  /\ StubTyped
  /\ \A s \in Sessions : drafts[s] # NoDraft => Sound(drafts[s])
  /\ \A t \in Turns : TurnSound(t)
  /\ \A r \in Reviewers :
       review[r].draft # NoDraft =>
         review[r].session \in Sessions /\ Sound(review[r].draft)
  /\ CapReplyUnused

LEMMA NewDraftTyped == NewDraft \in Draft
BY DEF NewDraft, Draft, Refs, Status, NoTicket

LEMMA InitStub == Init => StubInv
<1> SUFFICES ASSUME Init PROVE StubInv
  OBVIOUS
<1> USE DEF Init, ChatInit
<1>1. IdleTurn \in Turn /\ NoReview \in Review
  BY DEF IdleTurn, NoReview, Turn, Review, Steps, Replies
<1>2. StubTyped
  BY <1>1 DEF StubTyped
<1>3. \A t \in Turns : TurnSound(t)
  BY DEF TurnSound, IdleTurn
<1>4. QED
  BY <1>2, <1>3 DEF StubInv, NoReview, CapReplyUnused

-----------------------------------------------------------------------------
(***************************************************************************)
(* One message, whatever was stored.                                       *)
(***************************************************************************)

LEMMA OpenedMatched ==
  ASSUME FewFields, NEW s \in Sessions,
         drafts[s] # NoDraft => Sound(drafts[s]),
         NEW d \in Opened(s)
  PROVE  Matched(d)
<1>1. CASE drafts[s] = NoDraft
  <2>1. PICK c \in Categories : d = [NewDraft EXCEPT !.category = c]
    BY <1>1 DEF Opened, Started
  <2>2. /\ d.category = c /\ d.answered = {} /\ d.round = 0
        /\ d \in Draft
    BY <2>1, NewDraftTyped DEF NewDraft, Draft
  <2>3. QED
    BY <2>2, FS_EmptySet DEF Matched
<1>2. CASE drafts[s] # NoDraft
  <2> DEFINE b == drafts[s]
  <2>1. Sound(b)
    BY <1>2
  <2>2. CASE Missing(b) = {}
    BY <1>2, <2>1, <2>2 DEF Opened, Answered, Sound, Matched
  <2>3. CASE Missing(b) # {}
    <3>1. PICK f \in Missing(b) : d = [b EXCEPT !.answered = @ \cup {f}]
      BY <1>2, <2>3 DEF Opened, Answered
    <3>2. /\ b \in Draft /\ b.category \in Categories
          /\ b.answered \subseteq Required[b.category]
          /\ b.status = "gathering_info" /\ b.round = Cardinality(b.answered) + 1
      BY <2>1, <2>3 DEF Sound
    <3>3. f \in Required[b.category] /\ f \notin b.answered
      BY <3>1 DEF Missing
    <3>4. Required[b.category] \subseteq Fields
      BY <3>2, DraftAssumption
    <3>5. /\ d \in Draft /\ d.category = b.category /\ d.round = b.round
          /\ d.answered = b.answered \cup {f}
      BY <3>1, <3>2, <3>3, <3>4 DEF Draft
    <3>6. IsFiniteSet(b.answered)
      BY <3>2, FS_Subset DEF FewFields
    <3>7. Cardinality(d.answered) = Cardinality(b.answered) + 1
      BY <3>3, <3>5, <3>6, FS_AddElement
    <3>8. QED
      BY <3>2, <3>3, <3>5, <3>7 DEF Matched
  <2>4. QED
    BY <2>2, <2>3
<1>3. QED
  BY <1>1, <1>2

LEMMA AdvancedSound ==
  ASSUME FewFields, NEW d, Matched(d), NEW urgent \in BOOLEAN
  PROVE  LET e == Advanced(d, urgent)
         IN  Sound(e) /\ (e.status = "gathering_info" => MayAskAgain(e))
<1> DEFINE e == Advanced(d, urgent)
<1>1. /\ d \in Draft /\ d.category \in Categories
      /\ d.answered \subseteq Required[d.category]
      /\ d.round = Cardinality(d.answered)
  BY DEF Matched
<1>2. CASE Missing(d) = {}
  <2>1. e = Finished(d, urgent)
    BY <1>2 DEF Advanced
  <2>2. /\ e \in Draft /\ e.category = d.category /\ e.answered = d.answered
        /\ e.round = d.round /\ e.status \in {"escalated", "scored"}
    BY <1>1, <2>1 DEF Finished, Draft, Status
  <2>3. QED
    BY <1>1, <1>2, <2>2 DEF Sound, Missing
<1>3. CASE Missing(d) # {}
  <2>1. /\ IsFiniteSet(Required[d.category]) /\ MaxRounds \in Nat
        /\ Cardinality(Required[d.category]) < MaxRounds
    BY <1>1, DraftAssumption DEF FewFields
  <2>2. /\ IsFiniteSet(d.answered)
        /\ Cardinality(d.answered) < Cardinality(Required[d.category])
        /\ Cardinality(d.answered) \in Nat
        /\ Cardinality(Required[d.category]) \in Nat
    BY <1>1, <1>3, <2>1, FS_Subset, FS_CardinalityType DEF Missing
  <2>3. d.round + 1 < MaxRounds /\ d.round \in Nat
    BY <1>1, <2>1, <2>2
  <2>4. e = AskedNext(d)
    BY <1>3, <2>1, <2>3 DEF Advanced, MayAskAgain
  <2>5. /\ e \in Draft /\ e.category = d.category /\ e.answered = d.answered
        /\ e.round = d.round + 1 /\ e.status = "gathering_info"
    <3>1. PICK n \in Nat : n = d.round + 1
      BY <2>3
    <3>2. PICK x : x = [d EXCEPT !.round = n, !.status = "gathering_info"]
      OBVIOUS
    <3>3. /\ x \in Draft /\ x.category = d.category /\ x.answered = d.answered
          /\ x.round = n /\ x.status = "gathering_info"
      BY <1>1, <3>2 DEF Draft, Status
    <3>4. x = e
      BY <2>4, <3>1, <3>2 DEF AskedNext
    <3> HIDE DEF e
    <3>5. QED
      BY <3>1, <3>3, <3>4
  <2>6. QED
    BY <1>1, <1>3, <2>3, <2>5 DEF Sound, Missing, MayAskAgain
<1>4. QED
  BY <1>2, <1>3

LEMMA AdvanceKeeps ==
  ASSUME FewFields, StubInv, NEW t \in Turns, Advance(t)
  PROVE  StubInv'
<1> DEFINE s == turn[t].session
<1>1. /\ turn[t].at = "arrived" /\ s \in Sessions /\ turn \in [Turns -> Turn]
      /\ UNCHANGED <<drafts, log, review>>
  BY DEF Advance, At, StubInv, StubTyped, TurnSound, store
<1>2. PICK d \in Opened(s), urgent \in Urgencies(drafts[s]) :
        Return(t, Advanced(d, urgent),
               IF Advanced(d, urgent).status = "gathering_info"
               THEN "question" ELSE "verdict")
  BY DEF Advance
<1>3. urgent \in BOOLEAN
  BY DEF Urgencies
<1>4. Matched(d)
  BY <1>1, OpenedMatched DEF StubInv
<1>5. PICK e : e = Advanced(d, urgent)
  OBVIOUS
<1>6. Sound(e) /\ (e.status = "gathering_info" => MayAskAgain(e)) /\ e \in Draft
  BY <1>3, <1>4, <1>5, AdvancedSound DEF Sound
<1>7. PICK u \in Turn :
        /\ turn' = [turn EXCEPT ![t] = u]
        /\ u.at = "chatSave" /\ u.session = s /\ u.draft = e
        /\ u.reply \in {"question", "verdict"}
        /\ u.reply = "question" => e.status = "gathering_info"
  <2> DEFINE reply == IF e.status = "gathering_info" THEN "question" ELSE "verdict"
  <2>1. [turn[t] EXCEPT !.at = "chatSave", !.draft = e, !.reply = reply] \in Turn
    BY <1>1, <1>6 DEF Turn, Steps, Replies, Questions, Verdicts
  <2>2. turn' = [turn EXCEPT ![t] =
          [turn[t] EXCEPT !.at = "chatSave", !.draft = e, !.reply = reply]]
    BY <1>1, <1>2, <1>5 DEF Return
  <2>3. QED
    BY <1>1, <2>1, <2>2 DEF Turn
<1>8. \A x \in Turns : TurnSound(x)'
  <2>1. \A x \in Turns : turn'[x] = IF x = t THEN u ELSE turn[x]
    BY <1>1, <1>7
  <2>2. QED
    BY <1>1, <1>6, <1>7, <2>1 DEF StubInv, TurnSound, Askable
<1>9. StubTyped'
  BY <1>1, <1>7 DEF StubInv, StubTyped
<1>10. QED
  BY <1>1, <1>8, <1>9 DEF StubInv, CapReplyUnused

-----------------------------------------------------------------------------
(***************************************************************************)
(* The transport, the page and the review.                                 *)
(***************************************************************************)

LEMMA OfTurn ==
  ASSUME StubInv, NEW t \in Turns
  PROVE  /\ turn \in [Turns -> Turn] /\ turn[t] \in Turn /\ TurnSound(t)
         /\ drafts \in [Sessions -> Draft \cup {NoDraft}]
         /\ log \in [Sessions -> Seq({"user"} \cup Replies)]
BY DEF StubInv, StubTyped

\* A step that leaves drafts, transcript and reviews alone and ends turns, starts
\* them or moves them past the save.
LEMMA QuietKeeps ==
  ASSUME StubInv, UNCHANGED <<drafts, log, review>>,
         turn' \in [Turns -> Turn],
         \A t \in Turns :
           \/ turn'[t] = turn[t]
           \/ turn'[t].at = "idle"
           \/ /\ turn'[t].at # "chatSave" /\ turn'[t].session \in Sessions
              /\ turn'[t].reply # "cap"
  PROVE  StubInv'
<1>1. \A t \in Turns : TurnSound(t)'
  BY DEF StubInv, TurnSound, Askable
<1>2. QED
  BY <1>1 DEF StubInv, StubTyped, CapReplyUnused

LEMMA ReleaseKeeps ==
  ASSUME StubInv, UNCHANGED <<drafts, log, review>>, NEW t \in Turns,
         turn' = [turn EXCEPT ![t] = IdleTurn]
  PROVE  StubInv'
<1>1. IdleTurn \in Turn /\ IdleTurn.at = "idle"
  BY DEF IdleTurn, Turn, Steps, Replies
<1>2. QED
  BY <1>1, OfTurn, QuietKeeps

LEMMA ChatSaveKeeps ==
  ASSUME StubInv, NEW t \in Turns, ChatSave(t)
  PROVE  StubInv'
<1> DEFINE s == turn[t].session
<1>1. /\ turn[t].at = "chatSave" /\ s \in Sessions /\ turn[t].draft \in Draft
      /\ Sound(turn[t].draft) /\ Askable(t) /\ turn[t].reply # "cap"
  BY OfTurn DEF ChatSave, At, TurnSound, Sound
<1>2. /\ drafts' = [drafts EXCEPT ![s] = turn[t].draft]
      /\ turn' = [turn EXCEPT ![t].at = "logUser"]
      /\ UNCHANGED <<log, review>>
  BY <1>1, OfTurn DEF ChatSave, Askable, Turn
<1>3. PICK u \in Turn :
        /\ turn' = [turn EXCEPT ![t] = u]
        /\ u.at = "logUser" /\ u.session = s /\ u.reply = turn[t].reply
  <2>1. [turn[t] EXCEPT !.at = "logUser"] \in Turn
    BY OfTurn DEF Turn, Steps
  <2>2. QED
    BY <1>2, <2>1, OfTurn DEF Turn
<1>4. /\ turn' \in [Turns -> Turn]
      /\ \A x \in Turns : turn'[x] = IF x = t THEN u ELSE turn[x]
      /\ \A x \in Sessions : drafts'[x] = IF x = s THEN turn[t].draft ELSE drafts[x]
      /\ drafts' \in [Sessions -> Draft \cup {NoDraft}]
  BY <1>1, <1>2, <1>3, OfTurn
<1>5. \A x \in Turns : TurnSound(x)'
  BY <1>1, <1>3, <1>4 DEF StubInv, TurnSound, Askable
<1>6. QED
  BY <1>1, <1>2, <1>4, <1>5 DEF StubInv, StubTyped, CapReplyUnused

\* A line is added to the transcript.
LEMMA LogKeeps ==
  ASSUME StubInv, NEW t \in Turns, LogUser(t) \/ LogReply(t)
  PROVE  StubInv'
<1> DEFINE s == turn[t].session
<1>1. PICK line \in ({"user"} \cup Replies) \ {"cap"}, step \in {"logReply", "register"} :
        /\ log' = [log EXCEPT ![s] = Append(@, line)]
        /\ turn' = [turn EXCEPT ![t].at = step]
        /\ UNCHANGED <<drafts, review>>
  BY OfTurn DEF LogUser, LogReply, At, TurnSound, Turn
<1>2. s \in Sessions /\ turn[t].reply # "cap"
  BY OfTurn DEF LogUser, LogReply, At, TurnSound
<1>3. PICK u \in Turn :
        /\ turn' = [turn EXCEPT ![t] = u]
        /\ u.at # "chatSave" /\ u.session = s /\ u.reply # "cap"
  <2>1. [turn[t] EXCEPT !.at = step] \in Turn
    BY OfTurn DEF Turn, Steps
  <2>2. QED
    BY <1>1, <1>2, <2>1, OfTurn DEF Turn
<1>4. /\ turn' \in [Turns -> Turn]
      /\ \A x \in Turns : turn'[x] = IF x = t THEN u ELSE turn[x]
  BY <1>3, OfTurn
<1>5. /\ log' \in [Sessions -> Seq({"user"} \cup Replies)]
      /\ log'[s] = Append(log[s], line)
      /\ \A x \in Sessions \ {s} : log'[x] = log[x]
  BY <1>1, <1>2, OfTurn
<1>6. CapReplyUnused'
  <2> SUFFICES ASSUME NEW x \in Sessions, NEW i \in DOMAIN log'[x]
               PROVE  log'[x][i] # "cap"
    BY DEF CapReplyUnused
  <2>1. CapReplyUnused /\ log[x] \in Seq({"user"} \cup Replies)
    BY OfTurn DEF StubInv
  <2>2. CASE x # s
    BY <1>5, <2>1, <2>2 DEF CapReplyUnused
  <2>3. CASE x = s
    BY <1>1, <1>2, <1>5, <2>1, <2>3 DEF CapReplyUnused
  <2>4. QED
    BY <2>2, <2>3
<1>7. \A x \in Turns : TurnSound(x)'
  BY <1>2, <1>3, <1>4 DEF StubInv, TurnSound, Askable
<1>8. QED
  BY <1>1, <1>4, <1>5, <1>6, <1>7 DEF StubInv, StubTyped

LEMMA PageKeeps ==
  ASSUME StubInv,
         \/ \E s \in Sessions, t \in Turns : Post(s, t)
         \/ \E s \in Sessions : Reload(s)
         \/ \E s \in Sessions : Abandon(s)
  PROVE  StubInv'
<1>1. CASE \E s \in Sessions, t \in Turns : Post(s, t)
  <2>1. PICK s \in Sessions, t \in Turns : Post(s, t)
    BY <1>1
  <2>2. PICK u \in Turn :
          /\ u = [IdleTurn EXCEPT !.at = "arrived", !.session = s]
          /\ u.at = "arrived" /\ u.session = s /\ u.reply = "none"
    <3>1. PICK i \in Turn : i = IdleTurn /\ i.reply = "none"
      <4>1. IdleTurn \in Turn
        BY DEF IdleTurn, Turn, Steps, Replies
      <4>2. IdleTurn.reply = "none"
        BY DEF IdleTurn
      <4>3. QED
        BY <4>1, <4>2
    <3>2. PICK v : v = [i EXCEPT !.at = "arrived", !.session = s]
      OBVIOUS
    <3>3. v \in Turn /\ v.at = "arrived" /\ v.session = s /\ v.reply = "none"
      BY <3>1, <3>2 DEF Turn, Steps
    <3>4. QED
      BY <3>1, <3>2, <3>3
  <2>3. turn' = [turn EXCEPT ![t] = u] /\ UNCHANGED <<drafts, log, review>>
    BY <2>1, <2>2 DEF Post, store
  <2>4. QED
    BY <2>2, <2>3, OfTurn, QuietKeeps
<1>2. CASE \E s \in Sessions : Reload(s) \/ Abandon(s)
  BY <1>2, QuietKeeps DEF Reload, Abandon, store, StubInv, StubTyped
<1>3. QED
  BY <1>1, <1>2

\* A verdict decides only what is complete.
LEMMA ReviewReadKeeps ==
  ASSUME StubInv, NEW r \in Reviewers, NEW s \in Sessions, NEW v \in Terminal,
         ReviewRead(r, s, v)
  PROVE  StubInv'
<1>1. /\ drafts[s] # NoDraft /\ Sound(drafts[s]) /\ drafts[s].status = "escalated"
      /\ UNCHANGED <<drafts, log, turn>>
      /\ review \in [Reviewers -> Review]
  BY DEF ReviewRead, Reviewable, StubInv, StubTyped, store
<1>2. PICK d : d = [drafts[s] EXCEPT !.status = v]
  OBVIOUS
<1>3. /\ d \in Draft /\ d.category = drafts[s].category
      /\ d.answered = drafts[s].answered /\ d.round = drafts[s].round
      /\ d.status \in {"filed", "closed"}
  BY <1>1, <1>2 DEF Sound, Draft, Status, Terminal
<1>4. Sound(d)
  BY <1>1, <1>3 DEF Sound, Missing
<1>5. /\ [session |-> s, draft |-> d] \in Review
      /\ review' = [review EXCEPT ![r] = [session |-> s, draft |-> d]]
  BY <1>2, <1>3 DEF ReviewRead, Review
<1>6. QED
  BY <1>1, <1>4, <1>5 DEF StubInv, StubTyped, TurnSound, Askable, CapReplyUnused

LEMMA ReviewWriteKeeps ==
  ASSUME StubInv, NEW r \in Reviewers, ReviewWrite(r)
  PROVE  StubInv'
<1>1. /\ review[r].draft # NoDraft /\ review[r].session \in Sessions
      /\ Sound(review[r].draft)
      /\ drafts' = [drafts EXCEPT ![review[r].session] = review[r].draft]
      /\ review' = [review EXCEPT ![r] = NoReview]
      /\ UNCHANGED <<log, turn>>
  BY DEF ReviewWrite, StubInv
<1>2. NoReview \in Review /\ review[r].draft \in Draft /\ NoReview.draft = NoDraft
  BY <1>1 DEF NoReview, Review, Sound
<1>3. QED
  BY <1>1, <1>2 DEF StubInv, StubTyped, TurnSound, Askable, CapReplyUnused

LEMMA ExpireKeeps ==
  ASSUME StubInv, NEW s \in Sessions, Expire(s)
  PROVE  StubInv'
BY DEF Expire, StubInv, StubTyped, TurnSound, Askable, CapReplyUnused

LEMMA StubStep ==
  ASSUME FewFields
  PROVE  StubInv /\ [Next]_chatVars => StubInv'
<1> SUFFICES ASSUME StubInv, [Next]_chatVars PROVE StubInv'
  OBVIOUS
<1>1. CASE \E t \in Turns : Advance(t) \/ Transport(t)
  <2>1. PICK t \in Turns : Advance(t) \/ Transport(t)
    BY <1>1
  <2>2. CASE Register(t)
    BY <2>2, ReleaseKeeps DEF Register, Release
  <2>3. QED
    BY <2>1, <2>2, AdvanceKeeps, ChatSaveKeeps, LogKeeps DEF Transport
<1>2. CASE Reporter
  BY <1>2, PageKeeps DEF Reporter
<1>3. CASE Admin
  BY <1>3, ReviewReadKeeps, ReviewWriteKeeps DEF Admin
<1>4. CASE \E s \in Sessions : Expire(s)
  BY <1>4, ExpireKeeps
<1>5. CASE \E t \in Turns : "error" \in Faults /\ Abort(t)
  BY <1>5, ReleaseKeeps DEF Abort, Release, store
<1>6. CASE UNCHANGED chatVars
  BY <1>6 DEF chatVars, StubInv, StubTyped, TurnSound, Askable, CapReplyUnused
<1>7. QED
  BY <1>1, <1>2, <1>3, <1>4, <1>5, <1>6 DEF Next

THEOREM StubInvariant ==
  ASSUME FewFields
  PROVE  Spec => []StubInv
<1>1. QED
  BY InitStub, StubStep, PTL DEF Spec

\* Every question but the last has been answered, although turns and reviews
\* overwrite each other's drafts.
THEOREM RoundsMatch ==
  ASSUME FewFields
  PROVE  Spec => []RoundsMatchAnswers
<1>1. StubInv => RoundsMatchAnswers
  BY DraftAssumption DEF StubInv, Sound, Draft, RoundsMatchAnswers
<1>2. QED
  BY StubInvariant, <1>1, PTL

\* The stub decides nothing that is incomplete, and nor does a reviewer.
THEOREM DecidedIsComplete ==
  ASSUME FewFields
  PROVE  Spec => []DecidesOnlyComplete
<1>1. StubInv => DecidesOnlyComplete
  BY DEF StubInv, Sound, DecidesOnlyComplete
<1>2. QED
  BY StubInvariant, <1>1, PTL

\* The transport never has to put its own cap in place of a question.
THEOREM CapNeverReached ==
  ASSUME FewFields
  PROVE  Spec => []CapReplyUnused
<1>1. StubInv => CapReplyUnused
  BY DEF StubInv
<1>2. QED
  BY StubInvariant, <1>1, PTL
-----------------------------------------------------------------------------
(***************************************************************************)
(* What a reporter may rely on with the stub, while a page waits for its   *)
(* answer before it posts again and no draft expires.                      *)
(*                                                                         *)
(* The stub takes up a finished request again when its page is written to  *)
(* once more, as it can be after a turn that died past its save.  That it  *)
(* nevertheless keeps what it has decided, and asks nothing more, follows  *)
(* from the turn being the only one of its session: FollowInv says of each *)
(* await what the turn's draft owes to the stored one.                     *)
(***************************************************************************)

Patient == "abandon" \notin Faults /\ "expire" \notin Faults

Undecided(e) == e = NoDraft \/ e.status = "gathering_info"

\* The questions a stored draft has counted.
Counted(e) == IF e = NoDraft THEN 0 ELSE e.round

\* The questions of a transcript.
Questioned(lg) == Cardinality({i \in DOMAIN lg : lg[i] = "question"})

RepliesFollow(lg) ==
  \A i \in DOMAIN lg : lg[i] # "user" => i > 1 /\ lg[i-1] = "user"

\* What a turn may store over d: one question more, or a decision.
Follows(e, d) ==
  IF e.status = "gathering_info" THEN Undecided(d) /\ e.round = Counted(d) + 1
                                 ELSE e.round = Counted(d)

\* What each await of a turn x says of the stored draft d and transcript lg.
StepFollows(x, d, lg) ==
  /\ x.at = "chatSave" =>
       /\ x.reply = "question" <=> x.draft.status = "gathering_info"
       /\ Follows(x.draft, d)
  /\ x.at \in {"logUser", "logReply"} /\ x.reply = "question" =>
       Questioned(lg) + 1 <= Counted(d)
  /\ x.at = "logReply" => lg # <<>> /\ lg[Len(lg)] = "user"

\* A turn under way is the only one of its session, whose page waits for it.
TurnFollows(t) ==
  turn[t].at # "idle" =>
    /\ page[turn[t].session] = t
    /\ StepFollows(turn[t], drafts[turn[t].session], log[turn[t].session])

SessionFollows(s) ==
  Questioned(log[s]) <= Counted(drafts[s]) /\ RepliesFollow(log[s])

\* A review is of a decided draft, and changes no round of it.
ReviewFollows(r) ==
  review[r].draft # NoDraft =>
    /\ ~ Undecided(review[r].draft)
    /\ ~ Undecided(drafts[review[r].session])
    /\ review[r].draft.round = Counted(drafts[review[r].session])

PagesTyped == page \in [Sessions -> {"ready", "locked"} \cup Turns]

FollowInv ==
  /\ PagesTyped
  /\ \A t \in Turns : TurnFollows(t)
  /\ \A s \in Sessions : SessionFollows(s)
  /\ \A r \in Reviewers : ReviewFollows(r)

\* A decided draft is only replaced by one that counts the same questions.
Stands(d, e) ==
  ~ Undecided(d) => ~ Undecided(e) /\ Counted(e) = Counted(d)

-----------------------------------------------------------------------------
LEMMA Appended ==
  ASSUME NEW lg \in Seq({"user"} \cup Replies), NEW x \in {"user"} \cup Replies
  PROVE  /\ Questioned(lg) \in Nat
         /\ Questioned(Append(lg, x)) =
              Questioned(lg) + IF x = "question" THEN 1 ELSE 0
         /\ RepliesFollow(lg) /\ (x = "user" \/ (lg # <<>> /\ lg[Len(lg)] = "user"))
              => RepliesFollow(Append(lg, x))
         /\ Append(lg, x) # <<>>
         /\ Append(lg, x)[Len(Append(lg, x))] = x
<1>1. PICK n : n = Len(lg) + 1
  OBVIOUS
<1>2. PICK m : m = Append(lg, x)
  OBVIOUS
<1>3. /\ n \in Nat \ {0} /\ DOMAIN lg = 1..(n - 1) /\ DOMAIN m = 1..n
      /\ Len(m) = n /\ m[n] = x /\ \A i \in 1..(n - 1) : m[i] = lg[i]
      /\ m \in Seq({"user"} \cup Replies)
  BY <1>1, <1>2
<1>4. PICK Q : Q = {i \in DOMAIN lg : lg[i] = "question"}
  OBVIOUS
<1>5. IsFiniteSet(Q) /\ Cardinality(Q) \in Nat /\ n \notin Q
  <2>1. IsFiniteSet(1..(n - 1))
    BY <1>3, FS_Interval
  <2>2. IsFiniteSet(Q) /\ n \notin Q
    BY <1>3, <1>4, <2>1, FS_Subset
  <2>3. QED
    BY <2>2, FS_CardinalityType
<1>6. {i \in DOMAIN m : m[i] = "question"} = IF x = "question" THEN Q \cup {n} ELSE Q
  BY <1>3, <1>4
<1>7. Questioned(m) = Cardinality(Q) + IF x = "question" THEN 1 ELSE 0
  <2>1. Cardinality(Q \cup {n}) = Cardinality(Q) + 1
    BY <1>5, FS_AddElement
  <2>2. Questioned(m) = IF x = "question" THEN Cardinality(Q \cup {n})
                                          ELSE Cardinality(Q)
    BY <1>6 DEF Questioned
  <2>3. QED
    BY <1>5, <2>1, <2>2
<1>8. Questioned(lg) = Cardinality(Q)
  BY <1>4 DEF Questioned
<1>9. ASSUME RepliesFollow(lg), x = "user" \/ (lg # <<>> /\ lg[Len(lg)] = "user")
      PROVE  RepliesFollow(m)
  <2> SUFFICES ASSUME NEW i \in 1..n, m[i] # "user"
      PROVE  i > 1 /\ m[i-1] = "user"
    BY <1>3 DEF RepliesFollow
  <2>1. CASE i = n
    <3>1. lg # <<>> /\ lg[n - 1] = "user"
      BY <1>1, <1>3, <1>9, <2>1
    <3>2. n > 1
      BY <1>1, <1>3, <3>1
    <3>3. QED
      BY <1>3, <2>1, <3>1, <3>2
  <2>2. CASE i # n
    <3>1. i \in 1..(n - 1) /\ lg[i] # "user"
      BY <1>3, <2>2
    <3>2. i > 1 /\ lg[i-1] = "user"
      BY <1>3, <1>9, <3>1 DEF RepliesFollow
    <3>3. QED
      BY <1>3, <3>1, <3>2
  <2>3. QED
    BY <2>1, <2>2
<1>10. m # <<>>
  BY <1>3
<1>11. QED
  BY <1>2, <1>3, <1>5, <1>7, <1>8, <1>9, <1>10

\* The page of a turn under way waits for it, and for no other.
LEMMA OnlyTurn ==
  ASSUME StubInv, FollowInv, NEW t \in Turns, turn[t].at # "idle"
  PROVE  /\ turn[t].session \in Sessions /\ page[turn[t].session] = t
         /\ StepFollows(turn[t], drafts[turn[t].session], log[turn[t].session])
BY DEF StubInv, TurnSound, FollowInv, TurnFollows

\* A step in which at most the turn t of session s writes.
LEMMA OneWrites ==
  ASSUME StubInv, StubInv', FollowInv, UNCHANGED <<page, review>>,
         NEW t \in Turns, NEW s \in Sessions,
         turn[t].at # "idle", turn[t].session = s,
         turn'[t].session = s,
         \A u \in Turns \ {t} : turn'[u] = turn[u],
         \A q \in Sessions \ {s} : drafts'[q] = drafts[q] /\ log'[q] = log[q],
         StepFollows(turn'[t], drafts'[s], log'[s]),
         Questioned(log'[s]) <= Counted(drafts'[s]), RepliesFollow(log'[s]),
         Stands(drafts[s], drafts'[s])
  PROVE  FollowInv'
<1>1. TurnFollows(t)'
  BY OnlyTurn DEF TurnFollows
<1>2. ASSUME NEW u \in Turns \ {t}
      PROVE  TurnFollows(u)'
  <2>1. turn'[u] = turn[u]
    OBVIOUS
  <2>2. CASE turn[u].at # "idle"
    <3>1. /\ turn[u].session \in Sessions /\ page[turn[u].session] = u
          /\ StepFollows(turn[u], drafts[turn[u].session], log[turn[u].session])
      BY <2>2, OnlyTurn
    <3>2. turn[u].session # s
      BY <3>1, OnlyTurn
    <3>3. QED
      BY <2>1, <3>1, <3>2 DEF TurnFollows
  <2>3. QED
    BY <2>1, <2>2 DEF TurnFollows
<1>3. \A q \in Sessions : SessionFollows(q)'
  BY DEF FollowInv, SessionFollows
<1>4. ASSUME NEW r \in Reviewers, review[r].draft # NoDraft
      PROVE  /\ ~ Undecided(review[r].draft)
             /\ ~ Undecided(drafts'[review[r].session])
             /\ review[r].draft.round = Counted(drafts'[review[r].session])
  <2>1. PICK q \in Sessions : q = review[r].session
    BY <1>4 DEF StubInv
  <2>2. /\ ~ Undecided(review[r].draft) /\ ~ Undecided(drafts[q])
        /\ review[r].draft.round = Counted(drafts[q])
    BY <1>4, <2>1 DEF FollowInv, ReviewFollows
  <2>3. QED
    BY <2>1, <2>2 DEF Stands
<1>5. \A r \in Reviewers : ReviewFollows(r)'
  BY <1>4 DEF ReviewFollows
<1>6. QED
  BY <1>1, <1>2, <1>3, <1>5 DEF FollowInv, PagesTyped

\* What a message makes of the stored draft d.
LEMMA AdvancedFollows ==
  ASSUME FewFields, NEW s \in Sessions, drafts[s] # NoDraft => Sound(drafts[s]),
         NEW d \in Opened(s), NEW urgent \in BOOLEAN
  PROVE  Follows(Advanced(d, urgent), drafts[s])
<1> DEFINE b == drafts[s]
<1>1. PICK e : e = Advanced(d, urgent)
  OBVIOUS
<1>2. /\ Matched(d)
      /\ IsFiniteSet(Required[d.category])
      /\ Cardinality(Required[d.category]) < MaxRounds
      /\ Sound(e)
  BY <1>1, OpenedMatched, AdvancedSound DEF FewFields, Matched
<1>3. d.round = Counted(b) /\ (Undecided(b) \/ Missing(d) = {})
  <2>1. CASE b = NoDraft
    BY <2>1, NewDraftTyped DEF Opened, Started, NewDraft, Counted, Undecided, Draft
  <2>2. CASE b # NoDraft /\ Missing(b) = {}
    <3>1. d = b
      BY <2>2 DEF Opened, Answered
    <3>2. QED
      BY <2>2, <3>1 DEF Counted
  <2>3. CASE b # NoDraft /\ Missing(b) # {}
    <3>1. PICK f \in Missing(b) : d = [b EXCEPT !.answered = @ \cup {f}]
      BY <2>3 DEF Opened, Answered
    <3>2. b \in Draft /\ Sound(b)
      BY <2>3 DEF Sound
    <3>3. d.round = b.round
      BY <3>1, <3>2 DEF Draft
    <3>4. b.status = "gathering_info"
      BY <2>3, <3>2 DEF Sound
    <3>5. QED
      BY <2>3, <3>3, <3>4 DEF Counted, Undecided
  <2>4. QED
    BY <2>1, <2>2, <2>3
<1>4. CASE Missing(d) = {}
  <2>1. e = Finished(d, urgent)
    BY <1>1, <1>4 DEF Advanced
  <2>2. e.round = d.round /\ e.status # "gathering_info"
    BY <1>2, <2>1 DEF Finished, Matched, Draft
  <2>3. QED
    BY <1>1, <1>3, <2>2 DEF Follows
<1>5. CASE Missing(d) # {}
  <2>1. MayAskAgain(d)
    <3>1. /\ IsFiniteSet(d.answered) /\ MaxRounds \in Nat
          /\ Cardinality(d.answered) <= Cardinality(Required[d.category])
          /\ Cardinality(d.answered) \in Nat
          /\ Cardinality(Required[d.category]) \in Nat
      BY <1>2, DraftAssumption, FS_Subset, FS_CardinalityType DEF Matched
    <3>2. QED
      BY <1>2, <3>1 DEF MayAskAgain, Matched
  <2>2. e = AskedNext(d)
    BY <1>1, <1>5, <2>1 DEF Advanced
  <2>3. d \in Draft /\ d.round \in Nat
    BY <1>2 DEF Matched, Draft
  <2>4. PICK n \in Nat : n = d.round + 1
    BY <2>3
  <2>5. e = [d EXCEPT !.round = n, !.status = "gathering_info"]
    BY <2>2, <2>4 DEF AskedNext
  <2>6. e.round = n /\ e.status = "gathering_info"
    BY <2>3, <2>5 DEF Draft
  <2>7. QED
    BY <1>1, <1>3, <1>5, <2>4, <2>6 DEF Follows
<1>6. QED
  BY <1>4, <1>5

\* One message moves one conversation, or none.
Moved ==
  \/ \A s \in Sessions :
       /\ Counted(drafts'[s]) = Counted(drafts[s])
       /\ Undecided(drafts'[s]) <=> Undecided(drafts[s])
       /\ drafts'[s] = NoDraft <=> drafts[s] = NoDraft
  \/ \E s \in Sessions :
       /\ drafts'[s] # NoDraft /\ Sound(drafts'[s])
       /\ Follows(drafts'[s], drafts[s])
       /\ \A q \in Sessions \ {s} : drafts'[q] = drafts[q]

LEMMA AdvanceFollows ==
  ASSUME FewFields, StubInv, StubInv', FollowInv, NEW t \in Turns, Advance(t)
  PROVE  FollowInv'
<1>1. PICK s \in Sessions : s = turn[t].session
  BY OfTurn DEF Advance, At, TurnSound
<1>2. /\ turn[t].at = "arrived" /\ turn \in [Turns -> Turn]
      /\ drafts' = drafts /\ log' = log /\ UNCHANGED <<page, review>>
  BY OfTurn DEF Advance, At, store
<1>3. PICK d \in Opened(s), urgent \in Urgencies(drafts[s]) :
        Return(t, Advanced(d, urgent),
               IF Advanced(d, urgent).status = "gathering_info"
               THEN "question" ELSE "verdict")
  BY <1>1 DEF Advance
<1>4. PICK e : e = Advanced(d, urgent)
  OBVIOUS
<1>5. Follows(e, drafts[s])
  BY <1>1, <1>3, <1>4, AdvancedFollows DEF StubInv, Urgencies
<1>6. PICK reply : reply = IF e.status = "gathering_info" THEN "question" ELSE "verdict"
  OBVIOUS
<1>7. PICK x : x = [turn[t] EXCEPT !.at = "chatSave", !.draft = e, !.reply = reply]
  OBVIOUS
<1>8. turn' = [turn EXCEPT ![t] = x]
  BY <1>2, <1>3, <1>4, <1>6, <1>7 DEF Return
<1>9. x.at = "chatSave" /\ x.draft = e /\ x.reply = reply /\ x.session = s
  BY <1>1, <1>2, <1>7 DEF Turn
<1>10. turn'[t] = x /\ \A u \in Turns \ {t} : turn'[u] = turn[u]
  BY <1>2, <1>8
<1>11. StepFollows(x, drafts[s], log[s])
  BY <1>5, <1>6, <1>9 DEF StepFollows
<1>12. SessionFollows(s) /\ Stands(drafts[s], drafts[s])
  BY DEF FollowInv, Stands
<1>13. QED
  BY <1>1, <1>2, <1>9, <1>10, <1>11, <1>12, OneWrites DEF SessionFollows

LEMMA ChatSaveFollows ==
  ASSUME StubInv, StubInv', FollowInv, NEW t \in Turns, ChatSave(t)
  PROVE  FollowInv' /\ Moved
<1>1. PICK s \in Sessions : s = turn[t].session
  BY OfTurn DEF ChatSave, At, TurnSound
<1>2. PICK e : e = turn[t].draft
  OBVIOUS
<1>3. /\ turn[t].at = "chatSave" /\ turn[t] \in Turn
      /\ Sound(e) /\ Askable(t) /\ turn[t].reply # "cap"
      /\ turn \in [Turns -> Turn] /\ drafts \in [Sessions -> Draft \cup {NoDraft}]
  BY <1>2, OfTurn DEF ChatSave, At, TurnSound
<1>4. /\ turn[t].reply = "question" <=> e.status = "gathering_info"
      /\ Follows(e, drafts[s])
  BY <1>1, <1>2, <1>3, OnlyTurn DEF StepFollows
<1>5. /\ drafts' = [drafts EXCEPT ![s] = e]
      /\ log' = log /\ UNCHANGED <<page, review>>
  BY <1>1, <1>2 DEF ChatSave
<1>6. PICK x : x = [turn[t] EXCEPT !.at = "logUser"]
  OBVIOUS
<1>7. turn' = [turn EXCEPT ![t] = x]
  BY <1>3, <1>6 DEF ChatSave, Askable, Turn
<1>8. x.at = "logUser" /\ x.session = s /\ x.reply = turn[t].reply
  BY <1>1, <1>3, <1>6 DEF Turn
<1>9. /\ turn'[t] = x /\ \A u \in Turns \ {t} : turn'[u] = turn[u]
      /\ drafts'[s] = e /\ \A q \in Sessions \ {s} : drafts'[q] = drafts[q]
  BY <1>3, <1>5, <1>7
<1>10. /\ e # NoDraft /\ e.round \in Nat /\ Counted(e) = e.round
       /\ Counted(drafts[s]) \in Nat
  <2>1. e \in Draft
    BY <1>3 DEF Sound
  <2>2. e # NoDraft /\ e.round \in Nat
    BY <2>1, ChatAssumption DEF Draft
  <2>3. Counted(drafts[s]) \in Nat
    BY <1>3 DEF Counted, Draft
  <2>4. QED
    BY <2>2, <2>3 DEF Counted
<1>11. Questioned(log[s]) <= Counted(drafts[s]) /\ RepliesFollow(log[s])
  BY DEF FollowInv, SessionFollows
<1>12. Questioned(log[s]) \in Nat
  BY OfTurn, Appended
<1>13. /\ Questioned(log[s]) <= Counted(e)
       /\ e.status = "gathering_info" => Questioned(log[s]) + 1 <= Counted(e)
  BY <1>4, <1>10, <1>11, <1>12 DEF Follows
<1>14. StepFollows(x, e, log[s])
  BY <1>4, <1>8, <1>13 DEF StepFollows
<1>15. Stands(drafts[s], e)
  BY <1>4, <1>10 DEF Stands, Follows, Undecided
<1>16. FollowInv'
  BY <1>1, <1>3, <1>5, <1>8, <1>9, <1>11, <1>13, <1>14, <1>15, OneWrites
<1>17. Moved
  BY <1>3, <1>4, <1>9, <1>10 DEF Moved
<1>18. QED
  BY <1>16, <1>17

LEMMA LogFollows ==
  ASSUME StubInv, StubInv', FollowInv, NEW t \in Turns, LogUser(t) \/ LogReply(t)
  PROVE  FollowInv'
<1>1. PICK s \in Sessions : s = turn[t].session
  BY OfTurn DEF LogUser, LogReply, At, TurnSound
<1>2. /\ turn[t].at \in {"logUser", "logReply"} /\ turn[t] \in Turn
      /\ turn \in [Turns -> Turn] /\ log \in [Sessions -> Seq({"user"} \cup Replies)]
  BY OfTurn DEF LogUser, LogReply, At
<1>3. /\ turn[t].reply = "question" => Questioned(log[s]) + 1 <= Counted(drafts[s])
      /\ turn[t].at = "logReply" => log[s] # <<>> /\ log[s][Len(log[s])] = "user"
  BY <1>1, <1>2, OnlyTurn DEF StepFollows
<1>4. PICK line \in {"user"} \cup Replies, step \in {"logReply", "register"} :
        /\ log' = [log EXCEPT ![s] = Append(@, line)]
        /\ turn' = [turn EXCEPT ![t].at = step]
        /\ line = IF turn[t].at = "logUser" THEN "user" ELSE turn[t].reply
        /\ step = IF turn[t].at = "logUser" THEN "logReply" ELSE "register"
        /\ UNCHANGED <<drafts, page, review>>
  BY <1>1, <1>2 DEF LogUser, LogReply, At, Turn
<1>5. PICK x : x = [turn[t] EXCEPT !.at = step]
  OBVIOUS
<1>6. x.at = step /\ x.session = s /\ x.reply = turn[t].reply
  BY <1>1, <1>2, <1>5 DEF Turn
<1>7. /\ turn'[t] = x /\ \A u \in Turns \ {t} : turn'[u] = turn[u]
      /\ log'[s] = Append(log[s], line)
      /\ \A q \in Sessions \ {s} : log'[q] = log[q]
      /\ drafts' = drafts
  BY <1>2, <1>4, <1>5
<1>8. Questioned(log[s]) <= Counted(drafts[s]) /\ RepliesFollow(log[s])
  BY DEF FollowInv, SessionFollows
<1>9. PICK m : m = Append(log[s], line)
  OBVIOUS
<1>10. log[s] \in Seq({"user"} \cup Replies)
  BY <1>2
<1>11. /\ Questioned(log[s]) \in Nat
       /\ Questioned(m) = Questioned(log[s]) + IF line = "question" THEN 1 ELSE 0
       /\ line = "user" \/ (log[s] # <<>> /\ log[s][Len(log[s])] = "user")
            => RepliesFollow(m)
       /\ m # <<>> /\ m[Len(m)] = line
  BY <1>8, <1>9, <1>10, Appended
<1>12. Questioned(m) <= Counted(drafts[s]) /\ RepliesFollow(m)
  BY <1>2, <1>3, <1>4, <1>8, <1>11
<1>13. StepFollows(x, drafts[s], m)
  <2>1. x.at # "chatSave" /\ x.at # "logUser"
    BY <1>6
  <2>2. ASSUME x.at = "logReply"
        PROVE  /\ line = "user" /\ m # <<>> /\ m[Len(m)] = "user"
               /\ x.reply = "question" => Questioned(m) + 1 <= Counted(drafts[s])
    BY <1>2, <1>3, <1>4, <1>6, <1>11, <2>2
  <2>3. QED
    BY <2>1, <2>2 DEF StepFollows
<1>14. Stands(drafts[s], drafts'[s])
  BY <1>7 DEF Stands
<1>15. QED
  BY <1>1, <1>2, <1>4, <1>6, <1>7, <1>9, <1>12, <1>13, <1>14, OneWrites

\* A turn ends: its page goes on, and every other turn's with it.
LEMMA ReleaseFollows ==
  ASSUME StubInv, FollowInv, UNCHANGED <<drafts, log, review>>, NEW t \in Turns,
         turn[t].at # "idle", NEW p \in {"ready", "locked"}, Release(t, p)
  PROVE  FollowInv'
<1>1. /\ \A u \in Turns \ {t} : turn'[u] = turn[u]
      /\ turn'[t] = IdleTurn /\ IdleTurn.at = "idle"
      /\ \A s \in Sessions : page'[s] = IF page[s] = t THEN p ELSE page[s]
      /\ PagesTyped'
  BY OfTurn DEF Release, FollowInv, PagesTyped, IdleTurn
<1>2. ASSUME NEW u \in Turns
      PROVE  TurnFollows(u)'
  <2>1. CASE u = t
    BY <1>1, <2>1 DEF TurnFollows
  <2>2. CASE u # t /\ turn[u].at # "idle"
    BY <1>1, <2>2, OnlyTurn DEF TurnFollows
  <2>3. CASE u # t /\ turn[u].at = "idle"
    BY <1>1, <2>3 DEF TurnFollows
  <2>4. QED
    BY <2>1, <2>2, <2>3
<1>3. QED
  BY <1>1, <1>2 DEF FollowInv, SessionFollows, ReviewFollows

LEMMA PageFollows ==
  ASSUME StubInv, FollowInv,
         \/ \E s \in Sessions, t \in Turns : Post(s, t)
         \/ \E s \in Sessions : Reload(s)
  PROVE  FollowInv'
<1>1. CASE \E s \in Sessions, t \in Turns : Post(s, t)
  <2>1. PICK s \in Sessions, t \in Turns : Post(s, t)
    BY <1>1
  <2>2. /\ page[s] = "ready" /\ page' = [page EXCEPT ![s] = t]
        /\ UNCHANGED <<drafts, log, review>>
    BY <2>1 DEF Post, InputOpen, store
  <2>3. PICK x : x = [IdleTurn EXCEPT !.at = "arrived", !.session = s]
    OBVIOUS
  <2>4. x.at = "arrived" /\ x.session = s
    BY <2>3 DEF IdleTurn
  <2>5. turn' = [turn EXCEPT ![t] = x]
    BY <2>1, <2>3 DEF Post
  <2>6. /\ turn'[t] = x /\ \A u \in Turns \ {t} : turn'[u] = turn[u]
        /\ page'[s] = t /\ \A q \in Sessions \ {s} : page'[q] = page[q]
        /\ PagesTyped'
    BY <2>2, <2>5, OfTurn DEF FollowInv, PagesTyped
  <2>7. ASSUME NEW u \in Turns
        PROVE  TurnFollows(u)'
    <3>1. CASE u = t
      BY <2>4, <2>6, <3>1 DEF TurnFollows, StepFollows
    <3>2. CASE u # t /\ turn[u].at # "idle"
      <4>1. turn[u].session # s
        BY <2>2, <3>2, OnlyTurn, ChatAssumption
      <4>2. QED
        BY <2>2, <2>6, <3>2, <4>1, OnlyTurn DEF TurnFollows
    <3>3. CASE u # t /\ turn[u].at = "idle"
      BY <2>6, <3>3 DEF TurnFollows
    <3>4. QED
      BY <3>1, <3>2, <3>3
  <2>8. QED
    BY <2>2, <2>6, <2>7 DEF FollowInv, SessionFollows, ReviewFollows
<1>2. CASE \E s \in Sessions : Reload(s)
  <2>1. PICK s \in Sessions : Reload(s)
    BY <1>2
  <2>2. PICK p \in {"ready", "locked"} : page' = [page EXCEPT ![s] = p]
    BY <2>1 DEF Reload
  <2>3. /\ page[s] \in {"ready", "locked"} /\ UNCHANGED <<drafts, log, turn, review>>
    BY <2>1 DEF Reload, store
  <2>4. PagesTyped' /\ \A q \in Sessions \ {s} : page'[q] = page[q]
    BY <2>2 DEF FollowInv, PagesTyped
  <2>5. ASSUME NEW u \in Turns, turn[u].at # "idle"
        PROVE  turn[u].session # s
    BY <2>3, <2>5, OnlyTurn, ChatAssumption
  <2>6. ASSUME NEW u \in Turns
        PROVE  TurnFollows(u)'
    BY <2>3, <2>4, <2>5, OnlyTurn DEF TurnFollows
  <2>7. QED
    BY <2>3, <2>4, <2>6 DEF FollowInv, SessionFollows, ReviewFollows
<1>3. QED
  BY <1>1, <1>2

\* A verdict is given on a decided draft.
LEMMA ReviewReadFollows ==
  ASSUME StubInv, FollowInv, NEW r \in Reviewers, NEW s \in Sessions,
         NEW v \in Terminal, ReviewRead(r, s, v)
  PROVE  FollowInv'
<1>1. /\ drafts[s] # NoDraft /\ drafts[s] \in Draft
      /\ drafts[s].status = "escalated"
      /\ UNCHANGED <<drafts, log, page, turn>>
      /\ review \in [Reviewers -> Review]
  BY DEF ReviewRead, Reviewable, StubInv, StubTyped, store
<1>2. PICK d : d = [drafts[s] EXCEPT !.status = v]
  OBVIOUS
<1>3. /\ d \in Draft /\ d.round = drafts[s].round
      /\ d.status \in {"filed", "closed"}
  BY <1>1, <1>2 DEF Draft, Status, Terminal
<1>4. PICK x : x = [session |-> s, draft |-> d]
  OBVIOUS
<1>5. x.session = s /\ x.draft = d
  BY <1>4
<1>6. /\ review'[r] = x
      /\ \A q \in Reviewers \ {r} : review'[q] = review[q]
  BY <1>1, <1>2, <1>4 DEF ReviewRead
<1>7. /\ ~ Undecided(d) /\ ~ Undecided(drafts[s])
      /\ d.round = Counted(drafts[s])
  BY <1>1, <1>3, ChatAssumption DEF Undecided, Counted
<1>8. \A q \in Reviewers : ReviewFollows(q)'
  BY <1>1, <1>5, <1>6, <1>7 DEF FollowInv, ReviewFollows
<1>9. QED
  BY <1>1, <1>8 DEF FollowInv, PagesTyped, TurnFollows, SessionFollows

\* The verdict replaces a decided draft, perhaps by one read long ago.
LEMMA ReviewWriteFollows ==
  ASSUME StubInv, FollowInv, NEW r \in Reviewers, ReviewWrite(r)
  PROVE  FollowInv' /\ Moved
<1>1. PICK s \in Sessions : s = review[r].session
  BY DEF ReviewWrite, StubInv
<1>2. PICK d : d = review[r].draft
  OBVIOUS
<1>3. /\ d # NoDraft /\ Sound(d)
      /\ drafts' = [drafts EXCEPT ![s] = d]
      /\ review' = [review EXCEPT ![r] = NoReview]
      /\ UNCHANGED <<log, turn, page>>
      /\ drafts \in [Sessions -> Draft \cup {NoDraft}]
  BY <1>1, <1>2, OfTurn DEF ReviewWrite, StubInv, StubTyped
<1>4. ~ Undecided(d) /\ ~ Undecided(drafts[s]) /\ d.round = Counted(drafts[s])
  BY <1>1, <1>2, <1>3 DEF FollowInv, ReviewFollows
<1>5. Counted(d) = Counted(drafts[s]) /\ drafts[s] # NoDraft
  BY <1>3, <1>4 DEF Counted, Undecided
<1>6. /\ drafts'[s] = d /\ \A q \in Sessions \ {s} : drafts'[q] = drafts[q]
      /\ review \in [Reviewers -> Review]
      /\ review'[r] = NoReview /\ NoReview.draft = NoDraft
      /\ \A q \in Reviewers \ {r} : review'[q] = review[q]
  BY <1>3 DEF StubInv, StubTyped, NoReview
<1>7. \A q \in Sessions :
        /\ Counted(drafts'[q]) = Counted(drafts[q])
        /\ Undecided(drafts'[q]) <=> Undecided(drafts[q])
        /\ drafts'[q] = NoDraft <=> drafts[q] = NoDraft
  <2>1. ASSUME NEW q \in Sessions, q = s
        PROVE  /\ Counted(drafts'[q]) = Counted(drafts[q])
               /\ Undecided(drafts'[q]) <=> Undecided(drafts[q])
               /\ drafts'[q] = NoDraft <=> drafts[q] = NoDraft
    BY <1>3, <1>4, <1>5, <1>6, <2>1
  <2>2. QED
    BY <1>6, <2>1
<1>8. ASSUME NEW u \in Turns
      PROVE  TurnFollows(u)'
  <2>1. CASE turn[u].at = "idle"
    BY <1>3, <2>1 DEF TurnFollows
  <2>2. CASE turn[u].at # "idle"
    <3>1. PICK q \in Sessions : q = turn[u].session
      BY <2>2, OnlyTurn
    <3>2. page[q] = u /\ StepFollows(turn[u], drafts[q], log[q])
      BY <2>2, <3>1, OnlyTurn
    <3>3. /\ Counted(drafts'[q]) = Counted(drafts[q])
          /\ Undecided(drafts'[q]) <=> Undecided(drafts[q])
      BY <1>7
    <3>4. StepFollows(turn[u], drafts'[q], log[q])
      BY <3>2, <3>3 DEF StepFollows, Follows
    <3>5. QED
      BY <1>3, <3>1, <3>2, <3>4 DEF TurnFollows
  <2>3. QED
    BY <2>1, <2>2
<1>9. \A q \in Sessions : SessionFollows(q)'
  BY <1>3, <1>7 DEF FollowInv, SessionFollows
<1>10. ASSUME NEW q \in Reviewers
       PROVE  ReviewFollows(q)'
  <2>1. CASE q = r \/ review[q].draft = NoDraft
    BY <1>6, <2>1 DEF ReviewFollows
  <2>2. CASE q # r /\ review[q].draft # NoDraft
    <3>1. /\ review[q].session \in Sessions
          /\ ~ Undecided(review[q].draft)
          /\ ~ Undecided(drafts[review[q].session])
          /\ review[q].draft.round = Counted(drafts[review[q].session])
      BY <2>2 DEF StubInv, FollowInv, ReviewFollows
    <3>2. review'[q] = review[q]
      BY <1>6, <2>2
    <3>3. QED
      BY <1>7, <3>1, <3>2 DEF ReviewFollows
  <2>3. QED
    BY <2>1, <2>2
<1>11. FollowInv'
  BY <1>3, <1>8, <1>9, <1>10 DEF FollowInv, PagesTyped
<1>12. Moved
  BY <1>7 DEF Moved
<1>13. QED
  BY <1>11, <1>12

LEMMA InitFollows == Init => FollowInv
<1> SUFFICES ASSUME Init PROVE FollowInv
  OBVIOUS
<1>1. /\ \A t \in Turns : turn[t] = IdleTurn /\ IdleTurn.at = "idle"
      /\ \A r \in Reviewers : review[r] = NoReview /\ NoReview.draft = NoDraft
      /\ \A s \in Sessions : log[s] = <<>> /\ drafts[s] = NoDraft
      /\ PagesTyped
  BY DEF Init, ChatInit, IdleTurn, NoReview, PagesTyped
<1>2. Questioned(<<>>) = 0 /\ RepliesFollow(<<>>)
  <2>1. {i \in DOMAIN <<>> : <<>>[i] = "question"} = {}
    OBVIOUS
  <2>2. QED
    BY <2>1, FS_EmptySet DEF Questioned, RepliesFollow
<1>3. QED
  BY <1>1, <1>2 DEF FollowInv, TurnFollows, ReviewFollows, SessionFollows, Counted

LEMMA StubFollows ==
  ASSUME FewFields, Patient, StubInv, StubInv', FollowInv, [Next]_chatVars
  PROVE  FollowInv' /\ Moved
<1>1. ASSUME drafts' = drafts PROVE Moved
  BY <1>1 DEF Moved
<1>2. CASE \E t \in Turns : Advance(t) \/ Transport(t)
  <2>1. PICK t \in Turns : Advance(t) \/ Transport(t)
    BY <1>2
  <2>2. CASE Advance(t)
    BY <1>1, <2>2, AdvanceFollows DEF Advance, store
  <2>3. CASE ChatSave(t)
    BY <2>3, ChatSaveFollows
  <2>4. CASE LogUser(t) \/ LogReply(t)
    BY <1>1, <2>4, LogFollows DEF LogUser, LogReply
  <2>5. CASE Register(t)
    <3>1. PICK p \in {"ready", "locked"} : Release(t, p)
      BY <2>5 DEF Register
    <3>2. turn[t].at # "idle" /\ UNCHANGED <<drafts, log, review>>
      BY <2>5 DEF Register, At
    <3>3. QED
      BY <1>1, <3>1, <3>2, ReleaseFollows
  <2>6. QED
    BY <2>1, <2>2, <2>3, <2>4, <2>5 DEF Transport
<1>3. CASE Reporter
  <2>1. ~ \E s \in Sessions : Abandon(s)
    BY DEF Abandon, Patient
  <2>2. drafts' = drafts
    BY <1>3 DEF Reporter, Post, Reload, Abandon, store
  <2>3. QED
    BY <1>1, <1>3, <2>1, <2>2, PageFollows DEF Reporter
<1>4. CASE Admin
  <2>1. CASE \E r \in Reviewers, s \in Sessions, v \in Terminal : ReviewRead(r, s, v)
    BY <1>1, <2>1, ReviewReadFollows DEF ReviewRead, store
  <2>2. CASE \E r \in Reviewers : ReviewWrite(r)
    BY <2>2, ReviewWriteFollows
  <2>3. QED
    BY <1>4, <2>1, <2>2 DEF Admin
<1>5. CASE \E s \in Sessions : Expire(s)
  BY <1>5 DEF Expire, Patient
<1>6. CASE \E t \in Turns : "error" \in Faults /\ Abort(t)
  BY <1>1, <1>6, ReleaseFollows DEF Abort, At, store
<1>7. CASE UNCHANGED chatVars
  BY <1>1, <1>7 DEF chatVars, FollowInv, PagesTyped, TurnFollows, SessionFollows,
     ReviewFollows
<1>8. QED
  BY <1>2, <1>3, <1>4, <1>5, <1>6, <1>7 DEF Next

THEOREM StubAlwaysFollows ==
  ASSUME FewFields, Patient
  PROVE  Spec => [](StubInv /\ FollowInv)
<1>1. Init => StubInv /\ FollowInv
  BY InitStub, InitFollows
<1>2. StubInv /\ FollowInv /\ [Next]_chatVars => StubInv' /\ FollowInv'
  BY StubStep, StubFollows
<1>3. QED
  BY <1>1, <1>2, PTL DEF Spec

-----------------------------------------------------------------------------
(***************************************************************************)
(* What the reporter sees of it, and the promise of the intake: the stub   *)
(* asks, and hands on what it has; it opens no issue.                      *)
(***************************************************************************)

Stage(e) == IF e = NoDraft THEN "new"
            ELSE IF e.status = "gathering_info" THEN "asking" ELSE "escalated"

Handed == INSTANCE Conversation WITH
  stage <- [s \in Sessions |-> Stage(drafts[s])],
  asked <- [s \in Sessions |-> Counted(drafts[s])],
  opened <- [s \in Sessions |-> 0]

\* A decided draft is never taken back, nor is another question counted on it,
\* although a page that failed after its save takes the request up again and a
\* review may write a draft it read before that.
DecisionsStand ==
  [][\A s \in Sessions :
       ~ Undecided(drafts[s]) =>
         ~ Undecided(drafts'[s]) /\ Counted(drafts'[s]) = Counted(drafts[s])]_chatVars

\* A sound draft has counted at most MaxRounds questions.
LEMMA CountedBounded ==
  ASSUME FewFields, NEW d, d # NoDraft => Sound(d)
  PROVE  Counted(d) \in 0..MaxRounds
<1>1. CASE d = NoDraft
  BY <1>1, DraftAssumption DEF Counted
<1>2. CASE d # NoDraft
  <2>1. /\ IsFiniteSet(Required[d.category]) /\ MaxRounds \in Nat
        /\ Cardinality(Required[d.category]) < MaxRounds
        /\ d.answered \subseteq Required[d.category] /\ d.round \in Nat
    BY <1>2, DraftAssumption DEF FewFields, Sound, Draft
  <2>2. /\ Cardinality(d.answered) <= Cardinality(Required[d.category])
        /\ Cardinality(d.answered) \in Nat
        /\ Cardinality(Required[d.category]) \in Nat
    BY <2>1, FS_Subset, FS_CardinalityType
  <2>3. d.round <= Cardinality(d.answered) + 1
    BY <1>2, <2>2 DEF Sound
  <2>4. QED
    BY <1>2, <2>1, <2>2, <2>3 DEF Counted
<1>3. QED
  BY <1>1, <1>2

\* At most MaxRounds questions are put to a reporter, however many turns of the
\* conversation died and were sent again.
THEOREM StubQuestionsCapped ==
  ASSUME FewFields, Patient
  PROVE  Spec => []QuestionsCapped
<1>1. StubInv /\ FollowInv => QuestionsCapped
  <2> SUFFICES ASSUME StubInv, FollowInv, NEW s \in Sessions
      PROVE  Asked(s) <= MaxRounds
    BY DEF QuestionsCapped
  <2>1. Asked(s) \in Nat /\ Asked(s) <= Counted(drafts[s])
    <3>1. log[s] \in Seq({"user"} \cup Replies)
      BY DEF StubInv, StubTyped
    <3>2. Questioned(log[s]) \in Nat
      BY <3>1, Appended
    <3>3. QED
      BY <3>2 DEF FollowInv, SessionFollows, Asked, Questioned
  <2>2. Counted(drafts[s]) \in 0..MaxRounds
    BY CountedBounded DEF StubInv
  <2>3. QED
    BY <2>1, <2>2, DraftAssumption
<1>2. QED
  BY StubAlwaysFollows, <1>1, PTL

\* Every reply of the stub directly follows the message it answers.
THEOREM StubRepliesFollow ==
  ASSUME FewFields, Patient
  PROVE  Spec => []RepliesFollowMessages
<1>1. FollowInv => RepliesFollowMessages
  BY DEF FollowInv, SessionFollows, RepliesFollow, RepliesFollowMessages
<1>2. QED
  BY StubAlwaysFollows, <1>1, PTL

\* The stub keeps its decisions.
THEOREM StubDecisionsStand ==
  ASSUME FewFields, Patient
  PROVE  Spec => DecisionsStand
<1>1. StubInv /\ StubInv' /\ FollowInv /\ [Next]_chatVars =>
        [\A s \in Sessions :
           ~ Undecided(drafts[s]) =>
             ~ Undecided(drafts'[s]) /\ Counted(drafts'[s]) = Counted(drafts[s])]_chatVars
  <2> SUFFICES ASSUME StubInv, StubInv', FollowInv, [Next]_chatVars,
                      NEW s \in Sessions, ~ Undecided(drafts[s])
      PROVE  ~ Undecided(drafts'[s]) /\ Counted(drafts'[s]) = Counted(drafts[s])
    OBVIOUS
  <2>1. Moved
    BY StubFollows
  <2>2. CASE \A q \in Sessions :
               /\ Counted(drafts'[q]) = Counted(drafts[q])
               /\ Undecided(drafts'[q]) <=> Undecided(drafts[q])
               /\ drafts'[q] = NoDraft <=> drafts[q] = NoDraft
    BY <2>2
  <2>3. ASSUME NEW q \in Sessions, drafts'[q] # NoDraft,
               Follows(drafts'[q], drafts[q]),
               \A p \in Sessions \ {q} : drafts'[p] = drafts[p]
        PROVE  ~ Undecided(drafts'[s]) /\ Counted(drafts'[s]) = Counted(drafts[s])
    <3>1. CASE q = s
      BY <2>3, <3>1 DEF Follows, Undecided, Counted
    <3>2. CASE q # s
      BY <2>3, <3>2
    <3>3. QED
      BY <3>1, <3>2
  <2>4. QED
    BY <2>1, <2>2, <2>3 DEF Moved
<1>2. QED
  BY StubAlwaysFollows, <1>1, PTL DEF Spec, DecisionsStand

LEMMA HandedStep ==
  ASSUME FewFields, StubInv, Moved, [Next]_chatVars
  PROVE  [Handed!Next]_(Handed!vars)
<1> DEFINE st == [s \in Sessions |-> Stage(drafts[s])]
           as == [s \in Sessions |-> Counted(drafts[s])]
<1>1. CASE \A s \in Sessions :
             /\ Counted(drafts'[s]) = Counted(drafts[s])
             /\ Undecided(drafts'[s]) <=> Undecided(drafts[s])
             /\ drafts'[s] = NoDraft <=> drafts[s] = NoDraft
  <2>1. ASSUME NEW s \in Sessions
        PROVE  /\ Stage(drafts'[s]) = Stage(drafts[s])
               /\ Counted(drafts'[s]) = Counted(drafts[s])
    BY <1>1 DEF Stage, Undecided
  <2>2. st' = st /\ as' = as
    BY <2>1
  <2>3. QED
    BY <2>2 DEF Handed!vars
<1>2. ASSUME NEW s \in Sessions, drafts'[s] # NoDraft, Sound(drafts'[s]),
             Follows(drafts'[s], drafts[s]),
             \A q \in Sessions \ {s} : drafts'[q] = drafts[q]
      PROVE  [Handed!Next]_(Handed!vars)
  <2>1. PICK d, e : d = drafts[s] /\ e = drafts'[s]
    OBVIOUS
  <2>2. PICK k, n : k = Stage(e) /\ n = Counted(e)
    OBVIOUS
  <2>3. /\ st[s] = Stage(d) /\ as[s] = Counted(d)
        /\ st' = [st EXCEPT ![s] = k] /\ as' = [as EXCEPT ![s] = n]
    <3>1. ASSUME NEW q \in Sessions
          PROVE  /\ Stage(drafts'[q]) = [st EXCEPT ![s] = k][q]
                 /\ Counted(drafts'[q]) = [as EXCEPT ![s] = n][q]
      BY <1>2, <2>1, <2>2
    <3>2. QED
      BY <2>1, <3>1
  <2>4. /\ Counted(d) \in 0..MaxRounds /\ n \in 0..MaxRounds
        /\ e # NoDraft /\ n = e.round
    <3>1. Counted(e) \in 0..MaxRounds
      BY <1>2, <2>1, CountedBounded
    <3>2. Counted(d) \in 0..MaxRounds
      BY <2>1, CountedBounded DEF StubInv
    <3>3. QED
      BY <1>2, <2>1, <2>2, <3>1, <3>2 DEF Counted
  <2>5. CASE e.status = "gathering_info"
    <3>1. Undecided(d) /\ n = Counted(d) + 1 /\ k = "asking"
      BY <1>2, <2>1, <2>2, <2>4, <2>5 DEF Follows, Stage
    <3>2. Stage(d) \in {"new", "asking"} /\ Counted(d) < MaxRounds
      BY <2>4, <3>1, DraftAssumption DEF Undecided, Stage
    <3>3. Handed!Ask(s)
      BY <2>3, <3>1, <3>2 DEF Handed!Ask, Handed!Undecided
    <3>4. QED
      BY <3>3 DEF Handed!Next
  <2>6. CASE e.status # "gathering_info"
    <3>1. n = Counted(d) /\ k = "escalated"
      BY <1>2, <2>1, <2>2, <2>4, <2>6 DEF Follows, Stage
    <3>2. as' = as
      BY <2>3, <3>1
    <3>3. CASE Stage(d) = "escalated"
      BY <2>3, <3>1, <3>2, <3>3 DEF Handed!vars
    <3>4. CASE Stage(d) # "escalated"
      <4>1. Stage(d) \in {"new", "asking"}
        BY <3>4 DEF Stage
      <4>2. Handed!Decide(s)
        BY <2>3, <3>1, <3>2, <4>1 DEF Handed!Decide, Handed!Undecided
      <4>3. QED
        BY <4>2 DEF Handed!Next
    <3>5. QED
      BY <3>3, <3>4
  <2>7. QED
    BY <2>5, <2>6
<1>3. QED
  BY <1>1, <1>2 DEF Moved

\* The conversations of the stub are conversations as the intake promises them:
\* a message asks one more question, hands the request on, or changes nothing.
THEOREM StubKeepsPromise ==
  ASSUME FewFields, Patient
  PROVE  Spec => Handed!Spec
<1>1. Init => Handed!Init
  <2> SUFFICES ASSUME Init PROVE Handed!Init
    OBVIOUS
  <2>1. \A s \in Sessions : Stage(drafts[s]) = "new" /\ Counted(drafts[s]) = 0
    BY DEF Init, ChatInit, Stage, Counted
  <2>2. QED
    BY <2>1 DEF Handed!Init
<1>2. StubInv /\ StubInv' /\ FollowInv /\ [Next]_chatVars => [Handed!Next]_(Handed!vars)
  BY StubFollows, HandedStep
<1>3. QED
  BY StubAlwaysFollows, <1>1, <1>2, PTL DEF Spec, Handed!Spec
=============================================================================
