------------------------------ MODULE AgentLoop ------------------------------
(***************************************************************************)
(* The agent loop (orchestrator/loop.py) behind the web chat, with what it *)
(* shares between turns: the tool budget of each instance, the issue       *)
(* tracker and the vector store it finds duplicates in.                    *)
(*                                                                         *)
(* A definition marked "Variant" is not the code: it is the definition     *)
(* after it with a plausible mistake, kept to see that a property notices. *)
(***************************************************************************)
EXTENDS Chat

CONSTANTS
  Instances,    \* application processes
  Home,         \* the instance that serves each turn
  MaxToolCalls, \* MAX_TOOL_CALLS
  Topics,       \* requests on one topic embed within the threshold
  TopicOf       \* what each conversation is about

ASSUME LoopAssumption ==
  /\ Home \in [Turns -> Instances]
  /\ MaxToolCalls \in Nat \ {0}
  /\ TopicOf \in [Sessions -> Topics]

VARIABLES
  calls,     \* ToolRegistry._calls of each instance
  tickets,   \* the tracker's issues, oldest first: who filed, what it duplicates
  rows       \* the vector store's row of each session

loopVars == <<calls, tickets, rows>>
vars == <<chatVars, loopVars>>

\* Row metadata: NoRow, or the ticket_id ("" is NoTicket).
NoRow == [present |-> FALSE, ticket |-> NoTicket]

TypeOK ==
  /\ ChatTypeOK
  /\ calls \in [Instances -> 0..MaxToolCalls]
  /\ tickets \in Seq([by : Sessions, link : Nat])
  /\ rows \in [Sessions -> [present : BOOLEAN, ticket : Nat]]

Init ==
  /\ ChatInit
  /\ calls = [i \in Instances |-> 0]
  /\ tickets = <<>>
  /\ rows = [s \in Sessions |-> NoRow]

-----------------------------------------------------------------------------
\* ToolRegistry

\* Variant: the counter runs on from turn to turn.
NoReset(n) == n

\* reset: the counter at the start of a request's investigation.
Reset(n) == 0

\* Variant: one call too many.
HasBudgetInclusive(t) == calls[Home[t]] <= MaxToolCalls

\* _spend raises unless a call is left.
HasBudget(t) == calls[Home[t]] < MaxToolCalls

\* _spend, when the budget allows the call.
Spend(t) == calls' = [calls EXCEPT ![Home[t]] = @ + 1]

-----------------------------------------------------------------------------
\* handle

\* Variant: a round is not counted when its answer arrives.
AbsorbedSameRound(d) == IF d = NoDraft THEN NewDraft ELSE d

\* The new draft, or the stored one with one more message and one more round.
Absorbed(d) == IF d = NoDraft THEN NewDraft ELSE [d EXCEPT !.round = @ + 1]

\* A message to a finished request only reports.
Load(t) ==
  LET d == Absorbed(drafts[turn[t].session])
  IN /\ At(t, "arrived")
     /\ IF d.status \in Terminal
        THEN Return(t, d, "report")
        ELSE Goto(t, "classify", d)
     /\ UNCHANGED <<store, page, posts, review, loopVars>>

\* Variant: the last classification replaces what earlier ones extracted.
ForgetAnswers(d, c, found) ==
  [d EXCEPT !.category = IF @ = NoCategory THEN c ELSE @,
            !.answered = found]

\* Merge a classification: the category sticks, answers accumulate.
Classified(d, c, found) ==
  [d EXCEPT !.category = IF @ = NoCategory THEN c ELSE @,
            !.answered = @ \cup found]

\* The clarify gate: something is missing and a round is left.
NeedsAnswer(d) == Missing(d) # {} /\ MayAskAgain(d)

Clarify(t, c, found) ==
  LET d == Classified(turn[t].draft, c, found)
  IN /\ At(t, "classify")
     /\ NeedsAnswer(d)
     /\ turn' = [turn EXCEPT ![t].at = "loopSave", ![t].reply = "question",
                   ![t].draft = [d EXCEPT !.status = "gathering_info"]]
     /\ UNCHANGED <<store, page, posts, review, loopVars>>

\* Past the gate: reset the budget and spend search_jira, in one go.
Investigate(t, c, found) ==
  LET d == Classified(turn[t].draft, c, found)
  IN /\ At(t, "classify")
     /\ ~ NeedsAnswer(d)
     /\ Goto(t, "nearest", [d EXCEPT !.status = "investigating"])
     /\ calls' = [calls EXCEPT ![Home[t]] = Reset(@) + 1]
     /\ UNCHANGED <<store, page, posts, review, tickets, rows>>

\* nearest: indexed requests within the threshold, the session's own excluded.
Neighbours(s) ==
  {n \in Sessions \ {s} : rows[n].present /\ TopicOf[n] = TopicOf[s]}

\* pick_duplicate: the metadata's ticket_id, or else the row's own id.
DuplicateRef(n) == IF rows[n].ticket = NoTicket THEN n ELSE rows[n].ticket

\* The search returns and the vector store answers; the best match is picked.
Nearest(t) ==
  LET near == Neighbours(turn[t].session)
  IN /\ At(t, "nearest")
     /\ \E ref \in IF near = {} THEN {NoDuplicate}
                   ELSE {DuplicateRef(n) : n \in near} :
          Goto(t, "score", [turn[t].draft EXCEPT !.dup = ref])
     /\ UNCHANGED <<store, page, posts, review, loopVars>>

\* score_draft returns and decide_routing decides.
Scored(d, score) ==
  [d EXCEPT !.routing = DecideRouting(d, score), !.status = "scored"]

Escalate(t, score) ==
  LET d == Scored(turn[t].draft, score)
  IN /\ At(t, "score")
     /\ d.routing # "auto_file"
     /\ Goto(t, "index", [d EXCEPT !.status = "escalated"])
     /\ UNCHANGED <<store, page, posts, review, loopVars>>

StartFiling(t, score) ==
  LET d == Scored(turn[t].draft, score)
  IN /\ At(t, "score")
     /\ d.routing = "auto_file"
     /\ HasBudget(t)
     /\ Spend(t)
     /\ Goto(t, "create", d)
     /\ UNCHANGED <<store, page, posts, review, tickets, rows>>

\* ToolBudgetError before the ticket exists: the request fails.
RefuseFiling(t, score) ==
  /\ At(t, "score")
  /\ Scored(turn[t].draft, score).routing = "auto_file"
  /\ ~ HasBudget(t)
  /\ Abort(t)
  /\ UNCHANGED loopVars

-----------------------------------------------------------------------------
\* _file

\* The tracker creates the issue of turn t.
NewTicket(t) ==
  tickets' = Append(tickets, [by |-> turn[t].session, link |-> NoTicket])

\* Variant: the newest key is read before the issue exists.
FiledUnderLatest(d) == [d EXCEPT !.ticket = Len(tickets), !.status = "filed"]

\* The draft once its issue's key is known.
Filed(d) == [d EXCEPT !.ticket = Len(tickets) + 1, !.status = "filed"]

FileNew(t) ==
  /\ At(t, "create")
  /\ turn[t].draft.dup = NoDuplicate
  /\ NewTicket(t)
  /\ Goto(t, "index", Filed(turn[t].draft))
  /\ UNCHANGED <<store, page, posts, review, calls, rows>>

FileDuplicate(t) ==
  /\ At(t, "create")
  /\ turn[t].draft.dup # NoDuplicate
  /\ HasBudget(t)
  /\ Spend(t)
  /\ NewTicket(t)
  /\ Goto(t, "link", Filed(turn[t].draft))
  /\ UNCHANGED <<store, page, posts, review, rows>>

\* ToolBudgetError after the ticket exists: the draft that names it is lost.
RefuseLink(t) ==
  /\ At(t, "create")
  /\ turn[t].draft.dup # NoDuplicate
  /\ ~ HasBudget(t)
  /\ NewTicket(t)
  /\ Abort(t)
  /\ UNCHANGED <<calls, rows>>

\* The tracker refuses: a person files it.
FilingFails(t) ==
  /\ At(t, "create")
  /\ Goto(t, "index", [turn[t].draft EXCEPT !.status = "escalated"])
  /\ UNCHANGED <<store, page, posts, review, loopVars>>

\* The issue exists, but the transport reports an error.
FilingUnanswered(t) ==
  /\ "lost" \in Faults
  /\ At(t, "create")
  /\ NewTicket(t)
  /\ Goto(t, "index", [turn[t].draft EXCEPT !.status = "escalated"])
  /\ UNCHANGED <<store, page, posts, review, calls, rows>>

\* The issue exists, but its 2xx body does not parse: ValueError.
FilingUnreadable(t) ==
  /\ "lost" \in Faults
  /\ At(t, "create")
  /\ NewTicket(t)
  /\ Abort(t)
  /\ UNCHANGED <<calls, rows>>

\* Variant: the canonical issue linked as the duplicate.
LinkReversed(k, canonical) ==
  [tickets EXCEPT ![canonical].link = k]

\* link_duplicate: issue k duplicates the canonical one.
Linked(k, canonical) == [tickets EXCEPT ![k].link = canonical]

LinkMade(t) ==
  LET d == turn[t].draft
  IN /\ At(t, "link")
     /\ d.dup \in DOMAIN tickets
     /\ tickets' = Linked(d.ticket, d.dup)
     /\ Goto(t, "index", d)
     /\ UNCHANGED <<store, page, posts, review, calls, rows>>

\* Variant: a refused link is tried again, for ever.
LinkRetries(t) == At(t, "link") /\ UNCHANGED vars

\* The tracker refuses, as it does when dup is no issue: the draft stays filed.
LinkFails(t) ==
  /\ At(t, "link")
  /\ Goto(t, "index", turn[t].draft)
  /\ UNCHANGED <<store, page, posts, review, loopVars>>

-----------------------------------------------------------------------------
\* Variant: what the tracker already has is not indexed.
RowUnlessFiled(d) == IF d.ticket # NoTicket THEN NoRow
                     ELSE [present |-> TRUE, ticket |-> NoTicket]

\* Variant: the key of the ticket the request became is left out.
RowWithoutTicket(d) == [present |-> TRUE, ticket |-> NoTicket]

\* The row upserted for a draft.
RowOf(d) == [present |-> TRUE, ticket |-> d.ticket]

\* upsert: one row per id, inserted or replaced.
Upserted(s, row) == [rows EXCEPT ![s] = row]

\* _index: embed and upsert the session's row.
Index(t) ==
  /\ At(t, "index")
  /\ rows' = Upserted(turn[t].session, RowOf(turn[t].draft))
  /\ Goto(t, "loopSave", turn[t].draft)
  /\ UNCHANGED <<store, page, posts, review, calls, tickets>>

\* _save, then the reply to the transport.
LoopSave(t) ==
  LET d == turn[t].draft
  IN /\ At(t, "loopSave")
     /\ drafts' = [drafts EXCEPT ![turn[t].session] = d]
     /\ Return(t, d, IF d.status = "gathering_info" THEN "question"
                                                    ELSE "verdict")
     /\ UNCHANGED <<log, registered, page, posts, review, loopVars>>

-----------------------------------------------------------------------------
\* Any awaited call of the turn raises; the model's does when its retries are
\* used up, on any other HTTP error and on an answer that does not validate.
Fail(t) ==
  /\ "error" \in Faults
  /\ Abort(t)
  /\ UNCHANGED loopVars

\* An instance restarts: its turns die and its ToolRegistry is a new one.
Crash(i) ==
  LET dead == {t \in Turns : Home[t] = i}
  IN /\ "error" \in Faults
     /\ \E t \in dead : ~ At(t, "idle")
     /\ turn' = [t \in Turns |-> IF t \in dead THEN IdleTurn ELSE turn[t]]
     /\ page' = [s \in Sessions |-> IF page[s] \in dead THEN "ready"
                                                         ELSE page[s]]
     /\ calls' = [calls EXCEPT ![i] = 0]
     /\ UNCHANGED <<store, posts, review, tickets, rows>>

LoopStep(t) ==
  \/ Load(t)
  \/ \E c \in Categories, found \in SUBSET Fields :
       Clarify(t, c, found) \/ Investigate(t, c, found)
  \/ Nearest(t)
  \/ \E score \in Scores :
       Escalate(t, score) \/ StartFiling(t, score) \/ RefuseFiling(t, score)
  \/ FileNew(t) \/ FileDuplicate(t) \/ RefuseLink(t)
  \/ FilingFails(t) \/ FilingUnanswered(t) \/ FilingUnreadable(t)
  \/ LinkMade(t) \/ LinkFails(t)
  \/ Index(t) \/ LoopSave(t)

TransportStep(t) == Transport(t) /\ UNCHANGED loopVars

Next ==
  \/ \E t \in Turns : LoopStep(t)
  \/ \E t \in Turns : TransportStep(t)
  \/ (Reporter \/ Admin) /\ UNCHANGED loopVars
  \/ \E s \in Sessions : Expire(s) /\ UNCHANGED loopVars
  \/ \E t \in Turns : Fail(t)
  \/ \E i \in Instances : Crash(i)

Spec == Init /\ [][Next]_vars

\* Every awaited call answers or raises (each client has a timeout).
FairSpec == Spec /\ \A t \in Turns : WF_vars(LoopStep(t) \/ TransportStep(t))

\* ... and a reporter whose page is ready keeps answering.
PatientSpec ==
  /\ FairSpec
  /\ \A s \in Sessions :
       WF_vars(\E t \in Turns : Post(s, t) /\ UNCHANGED loopVars)
-----------------------------------------------------------------------------
(***************************************************************************)
(* Safety, whatever the environment does.                                  *)
(***************************************************************************)

Tickets == DOMAIN tickets

\* k is no ticket, or an issue the tracker created for session s.
OwnTicket(s, k) == k = NoTicket \/ (k \in Tickets /\ tickets[k].by = s)

\* Ticket keys never stray: a stored draft and an index row name only an issue
\* that exists and was created for that very conversation, through failed
\* turns, turns that overwrite each other and stale reviews (loop.py _file,
\* _index, _save; service.py set; review_draft).
TicketsTraced ==
  \A s \in Sessions :
    /\ drafts[s] # NoDraft => OwnTicket(s, drafts[s].ticket)
    /\ OwnTicket(s, rows[s].ticket)

\* The duplicate links the loop makes in the tracker always point from an issue
\* to an older issue that another conversation filed on the same topic: no
\* issue duplicates itself and there is no cycle (dedup.py, _file).
LinksPointBack ==
  \A k \in Tickets :
    LET link == tickets[k].link IN
      link # NoTicket =>
        /\ link < k
        /\ tickets[link].by # tickets[k].by
        /\ TopicOf[tickets[link].by] = TopicOf[tickets[k].by]

\* What is stored is settled: either it waits for an answer it may still ask
\* for, or the clarify gate let it through, and then it is never stored before
\* its row is in the index, so that later duplicates can find it.  The statuses
\* in between are never stored, and no draft is routed to ask_again after the
\* gate (loop.py:103-143, the comment at 138).
StoredIsSettled ==
  \A s \in Sessions : drafts[s] # NoDraft =>
    LET d == drafts[s] IN
      \/ /\ d.status = "gathering_info"
         /\ Missing(d) # {}
         /\ d.round < MaxRounds
      \/ /\ d.status \in {"escalated", "filed", "closed"}
         /\ Missing(d) = {} \/ d.round >= MaxRounds
         /\ rows[s].present
         /\ d.routing \in {"auto_file", "escalate"}

\* A draft that names its ticket is filed: nothing an administrator may still
\* approve, reject or re-investigate already has a ticket on it.
TicketMeansFiled ==
  \A s \in Sessions :
    drafts[s] # NoDraft /\ drafts[s].ticket # NoTicket
      => drafts[s].status = "filed"

\* A turn about to file has made one or two of its calls, so a cap "per inbound
\* request" (tools.py:4-6) never refuses it create_ticket or link_duplicate,
\* although concurrent turns of the instance spend the same counter.
CapIsPerRequest ==
  \A t \in Turns :
    \/ At(t, "score")
    \/ At(t, "create") /\ turn[t].draft.dup # NoDuplicate
    => HasBudget(t)

-----------------------------------------------------------------------------
(***************************************************************************)
(* Safety while a page waits for its answer before it posts again.         *)
(***************************************************************************)

\* Once a draft has been decided no later message makes the loop ask again: a
\* request handed to a person does not return to the reporter.
DecidedNeverAsks ==
  [][\A s \in Sessions :
       drafts[s] # NoDraft /\ drafts[s].status # "gathering_info"
         => drafts'[s].status # "gathering_info"]_drafts

\* The index leads duplicates to the live ticket: while a stored draft names
\* its ticket, the row of its session names the same one.
IndexNamesLiveTicket ==
  \A s \in Sessions :
    drafts[s] # NoDraft /\ drafts[s].ticket # NoTicket
      => rows[s].ticket = drafts[s].ticket

\* When turns do not overlap, the later of two filed requests on one topic is
\* recognised as a duplicate, even though turns die and are sent again.
LaterDuplicateRecognised ==
  \A s, u \in Sessions :
    /\ s # u /\ TopicOf[s] = TopicOf[u]
    /\ drafts[s] # NoDraft /\ drafts[u] # NoDraft
    /\ NoTicket < drafts[s].ticket /\ drafts[s].ticket < drafts[u].ticket
    => drafts[u].dup # NoDuplicate
-----------------------------------------------------------------------------
(***************************************************************************)
(* What holds when nothing fails.                                          *)
(***************************************************************************)

\* The conversation a reporter and a tracker see.
StageOf(d) ==
  IF d = NoDraft THEN "new"
  ELSE IF d.status = "gathering_info" THEN "asking" ELSE d.status

\* Rounds are counted by messages: a draft that waits has asked one more.
AskedOf(d) ==
  IF d = NoDraft THEN 0
  ELSE IF d.status = "gathering_info" THEN d.round + 1 ELSE d.round

Promise == INSTANCE Conversation WITH
  stage <- [s \in Sessions |-> StageOf(drafts[s])],
  asked <- [s \in Sessions |-> AskedOf(drafts[s])],
  opened <- [s \in Sessions |->
               Cardinality({k \in Tickets : tickets[k].by = s})]

\* Interleaved turns of several conversations keep the promise of each: at most
\* MaxRounds questions, one decision, and one issue exactly when it is filed.
KeepsPromise == Promise!Spec

-----------------------------------------------------------------------------
(***************************************************************************)
(* What the repository says of the stored drafts and the loop does not     *)
(* keep: see the findings in the README.                                   *)
(***************************************************************************)

\* A draft marked filed names the issue it became: the page offers a reviewer
\* "Approve & file" (draft.html:46), and Ticket is "the tracker ticket this
\* draft became" (draft.py:87).
FiledMeansTicket ==
  \A s \in Sessions : drafts[s] # NoDraft /\ drafts[s].status = "filed"
    => drafts[s].ticket # NoTicket

\* duplicate_of names "the existing ticket this request duplicates"
\* (draft.py:64).
DuplicateIsTicket ==
  \A s \in Sessions : drafts[s] # NoDraft /\ drafts[s].dup # NoDuplicate
    => drafts[s].dup \in Tickets
=============================================================================
