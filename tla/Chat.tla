-------------------------------- MODULE Chat --------------------------------
(***************************************************************************)
(* The web chat around the intake seam: the browser page, the transport    *)
(* (ChatService), the draft store, the transcript, the draft index and the *)
(* administrator's review.  What an orchestrator does with one message is  *)
(* left to the module that extends this one: it takes a turn from          *)
(* "arrived" to "chatSave", with the draft and the reply it returns.       *)
(*                                                                         *)
(* A turn is one POST /chat in flight.  Each await of the code ends a      *)
(* step, so turns, reviews and expiry interleave at the awaits only.       *)
(***************************************************************************)
EXTENDS Draft, Sequences, FiniteSets

CONSTANTS
  Turns,       \* slots for requests in flight
  Reviewers,   \* administrators' review requests in flight
  Faults,      \* what the environment may do, see FaultKinds
  MaxPosts,    \* bound: messages sent in all conversations together
  NoSession    \* the session of a free slot

(***************************************************************************)
(* "error": an awaited call raises, or an instance dies.  "lost": the      *)
(* tracker creates an issue and the answer is lost or unreadable.          *)
(* "abandon": a page stops waiting (dropped connection, reload, a second   *)
(* tab) and its reporter may write again.  "expire": a draft's TTL ends,   *)
(* or a deploy makes it unreadable.                                        *)
(***************************************************************************)
FaultKinds == {"error", "lost", "abandon", "expire"}

ASSUME ChatAssumption ==
  /\ Faults \subseteq FaultKinds
  /\ MaxPosts \in Nat
  /\ Turns \cap {"ready", "locked"} = {}
  /\ NoDraft \notin Draft
  /\ NoSession \notin Sessions

VARIABLES
  drafts,      \* StateStore: the draft of each session, or NoDraft
  log,         \* ConversationLog: who spoke, newest last
  registered,  \* DraftIndex: sessions the dashboard lists
  page,        \* the reporter's page: ready, locked, or the turn it waits for
  posts,       \* messages sent so far (bounded by MaxPosts)
  turn,        \* requests being handled
  review       \* reviews between their read and their write

store == <<drafts, log, registered>>
chatVars == <<drafts, log, registered, page, posts, turn, review>>

Questions == {"question"}
Verdicts == {"verdict", "report", "cap"}
Replies == {"none"} \cup Questions \cup Verdicts

\* Each step is named for the await it waits at.
LoopSteps == {"classify", "nearest", "score", "create", "link", "index",
              "loopSave"}
Steps == {"idle", "arrived", "chatSave", "logUser", "logReply", "register"}
         \cup LoopSteps

Turn == [at : Steps, session : Sessions \cup {NoSession}, draft : Draft \cup {NoDraft},
         reply : Replies]

\* A free slot.
IdleTurn == [at |-> "idle", session |-> NoSession, draft |-> NoDraft,
             reply |-> "none"]

Review == [session : Sessions \cup {NoSession}, draft : Draft \cup {NoDraft}]

\* A review that is not between its read and its write.
NoReview == [session |-> NoSession, draft |-> NoDraft]

ChatTypeOK ==
  /\ drafts \in [Sessions -> Draft \cup {NoDraft}]
  /\ log \in [Sessions -> Seq({"user"} \cup Replies)]
  /\ registered \subseteq Sessions
  /\ page \in [Sessions -> {"ready", "locked"} \cup Turns]
  /\ posts \in 0..MaxPosts
  /\ turn \in [Turns -> Turn]
  /\ review \in [Reviewers -> Review]

ChatInit ==
  /\ drafts = [s \in Sessions |-> NoDraft]
  /\ log = [s \in Sessions |-> <<>>]
  /\ registered = {}
  /\ page = [s \in Sessions |-> "ready"]
  /\ posts = 0
  /\ turn = [t \in Turns |-> IdleTurn]
  /\ review = [r \in Reviewers |-> NoReview]

-----------------------------------------------------------------------------
\* Helpers shared with the orchestrators.

At(t, step) == turn[t].at = step

\* The turn moves to its next await with draft d.
Goto(t, step, d) ==
  turn' = [turn EXCEPT ![t].at = step, ![t].draft = d]

\* The turn returns draft d and a reply to ChatService.
Return(t, d, reply) ==
  turn' = [turn EXCEPT ![t].at = "chatSave", ![t].draft = d,
                       ![t].reply = reply]

\* The request is over; its page, if it still waits, becomes p.
Release(t, p) ==
  /\ turn' = [turn EXCEPT ![t] = IdleTurn]
  /\ page' = [s \in Sessions |-> IF page[s] = t THEN p ELSE page[s]]

-----------------------------------------------------------------------------
\* The reporter's page (chat.js).

\* Variant: a page that lets its reporter write while it waits.
OpenWhileWaiting(s) == page[s] # "locked"

\* The input is disabled while an answer is awaited and once the reply is done.
InputOpen(s) == page[s] = "ready"

\* submit: POST /chat, on a free slot.
Post(s, t) ==
  /\ InputOpen(s)
  /\ posts < MaxPosts
  /\ At(t, "idle")
  /\ posts' = posts + 1
  /\ page' = [page EXCEPT ![s] = t]
  /\ turn' = [turn EXCEPT ![t] = [IdleTurn EXCEPT !.at = "arrived",
                                                  !.session = s]]
  /\ UNCHANGED <<store, review>>

\* chat_page: a fresh page is locked when the stored draft is done.
Reload(s) ==
  LET done == drafts[s] # NoDraft /\ drafts[s].status \in Done
      p == IF done THEN "locked" ELSE "ready"
  IN /\ page[s] \in {"ready", "locked"} \ {p}
     /\ page' = [page EXCEPT ![s] = p]
     /\ UNCHANGED <<store, posts, turn, review>>

\* The page stops waiting; the server goes on with the turn.
Abandon(s) ==
  /\ "abandon" \in Faults
  /\ page[s] \in Turns
  /\ page' = [page EXCEPT ![s] = "ready"]
  /\ UNCHANGED <<store, posts, turn, review>>

-----------------------------------------------------------------------------
\* ChatService.handle, after the orchestrator has returned.

\* The round cap of the transport, then state.set.
ChatSave(t) ==
  LET d == turn[t].draft
      over == turn[t].reply = "question" /\ ~ MayAskAgain(d)
  IN /\ At(t, "chatSave")
     /\ drafts' = [drafts EXCEPT ![turn[t].session] = d]
     /\ turn' = [turn EXCEPT ![t].at = "logUser",
                             ![t].reply = IF over THEN "cap" ELSE @]
     /\ UNCHANGED <<log, registered, page, posts, review>>

\* Variant: the message that closes a conversation is not logged.
LogUserWhileOpen(t) ==
  /\ At(t, "logUser")
  /\ log' = IF turn[t].reply = "question"
            THEN [log EXCEPT ![turn[t].session] = Append(@, "user")] ELSE log
  /\ turn' = [turn EXCEPT ![t].at = "logReply"]
  /\ UNCHANGED <<drafts, registered, page, posts, review>>

\* log.append(session_id, "user", message)
LogUser(t) ==
  /\ At(t, "logUser")
  /\ log' = [log EXCEPT ![turn[t].session] = Append(@, "user")]
  /\ turn' = [turn EXCEPT ![t].at = "logReply"]
  /\ UNCHANGED <<drafts, registered, page, posts, review>>

\* log.append(session_id, "assistant", reply)
LogReply(t) ==
  /\ At(t, "logReply")
  /\ log' = [log EXCEPT ![turn[t].session] = Append(@, turn[t].reply)]
  /\ turn' = [turn EXCEPT ![t].at = "register"]
  /\ UNCHANGED <<drafts, registered, page, posts, review>>

\* Variant: a session that leaves the index with its last reply.
ListedWhileOpen(t) ==
  IF turn[t].reply = "question" THEN registered \cup {turn[t].session}
                                ELSE registered \ {turn[t].session}

\* register: sadd, whatever the reply.
Listed(t) == registered \cup {turn[t].session}

\* registry.register, then the response: the page locks if data.done.
Register(t) ==
  /\ At(t, "register")
  /\ registered' = Listed(t)
  /\ Release(t, IF turn[t].reply = "question" THEN "ready" ELSE "locked")
  /\ UNCHANGED <<drafts, log, posts, review>>

\* An awaited call raises: an error response, and nothing more is written.
Abort(t) ==
  /\ ~ At(t, "idle")
  /\ Release(t, "ready")
  /\ UNCHANGED <<store, posts, review>>

-----------------------------------------------------------------------------
\* review_draft (admin/service.py): any session id, listed or not, whose draft is
\* reviewable; a refused review changes nothing.

Reviewable(s) == drafts[s] # NoDraft /\ drafts[s].status = "escalated"

ReviewRead(r, s, verdict) ==
  /\ review[r].draft = NoDraft
  /\ Reviewable(s)
  /\ review' = [review EXCEPT
       ![r] = [session |-> s, draft |-> [drafts[s] EXCEPT !.status = verdict]]]
  /\ UNCHANGED <<store, page, posts, turn>>

ReviewWrite(r) ==
  /\ review[r].draft # NoDraft
  /\ drafts' = [drafts EXCEPT ![review[r].session] = review[r].draft]
  /\ review' = [review EXCEPT ![r] = NoReview]
  /\ UNCHANGED <<log, registered, page, posts, turn>>

\* RedisStateStore: the key expires, or no longer validates.
Expire(s) ==
  /\ "expire" \in Faults
  /\ drafts[s] # NoDraft
  /\ drafts' = [drafts EXCEPT ![s] = NoDraft]
  /\ UNCHANGED <<log, registered, page, posts, turn, review>>

-----------------------------------------------------------------------------
Reporter ==
  \/ \E s \in Sessions, t \in Turns : Post(s, t)
  \/ \E s \in Sessions : Reload(s)
  \/ \E s \in Sessions : Abandon(s)

Transport(t) == ChatSave(t) \/ LogUser(t) \/ LogReply(t) \/ Register(t)

Admin ==
  \/ \E r \in Reviewers, s \in Sessions, v \in Terminal : ReviewRead(r, s, v)
  \/ \E r \in Reviewers : ReviewWrite(r)
-----------------------------------------------------------------------------
(***************************************************************************)
(* What a reporter may rely on; the runs say under which faults.           *)
(***************************************************************************)

Asked(s) == Cardinality({i \in DOMAIN log[s] : log[s][i] = "question"})

\* At most MAX_CLARIFICATION_ROUNDS clarifying questions across the
\* conversation (loop.py:6), counted in what the reporter was asked, although a
\* turn may die anywhere and be sent again.
QuestionsCapped == \A s \in Sessions : Asked(s) <= MaxRounds

\* Every reply in the transcript directly follows the message it answers
\* (service.py:62-63, log.py "Append-only transcript").
RepliesFollowMessages ==
  \A s \in Sessions : \A i \in DOMAIN log[s] :
    log[s][i] # "user" => i > 1 /\ log[s][i-1] = "user"

\* load_drafts: what the administrator's dashboard lists.
Dashboard == {s \in registered : drafts[s] # NoDraft}

\* A locked page tells the truth: the stored draft is decided, and the session
\* is listed for the administrator who may have to act on it.
LockedMeansHandled ==
  \A s \in Sessions : page[s] = "locked" =>
    /\ s \in Dashboard
    /\ drafts[s].status \in Done

\* Every message is answered: a page does not wait for ever.
EveryMessageAnswered ==
  \A s \in Sessions : page[s] \in Turns ~> page[s] \notin Turns

\* No escalation is stranded: the turn that stores an escalated draft, three
\* awaited writes before it registers the session, goes on to do so, and the
\* administrator finds the draft or has already decided it (service.py:61-64).
EscalatedIsListed ==
  \A s \in Sessions : Reviewable(s) ~> s \in Dashboard

\* Clarification ends: a reporter who answers every question is told a verdict
\* (draft.py:9-11, "three rounds, then the draft is either sufficient or gets
\* flagged incomplete for a human").
PatientReporterGetsVerdict ==
  \A s \in Sessions : page[s] = "ready" ~> page[s] = "locked"

\* "Approve or reject an escalated draft and persist the new status"
\* (admin/service.py:30): while its draft is kept, a rejected request stays
\* closed.
RejectionStands ==
  [][\A s \in Sessions :
       drafts[s] # NoDraft /\ drafts[s].status = "closed"
         => drafts'[s] # NoDraft /\ drafts'[s].status = "closed"]_drafts
=============================================================================
