# TLA+ models of Firsthand

Firsthand takes product feedback in a web chat, asks at most three clarifying
questions, looks for duplicates, and then files an issue in Jira or hands the
request to a person. This directory holds TLA+ models of it, TLC configurations
that check them on small instances, and proofs checked by TLAPS.

Paths below are relative to `src/firsthand/`.

## 1. Inventory

| Component | State it keeps | Operations | Hard because |
|---|---|---|---|
| Draft contract, routing (`contracts/draft.py`, `orchestrator/routing.py`) | none | `may_ask_again`, `recompute_missing_fields`, `decide_routing` | boundaries of the round cap, order of early returns |
| Agent loop (`orchestrator/loop.py`, `dedup.py`, `classify.py`, `scoring.py`) | none of its own: the draft is read and written in Redis | `handle`, `_file`, `_index`, `_save` | seven awaited calls per message, each of which may fail; turns interleave at each of them |
| Tool registry (`orchestrator/tools.py`) | one call counter **per process** | `reset`, `_spend`, one wrapper per tool | the counter is shared by all turns of the process |
| Chat transport (`web/service.py`, `web/routes.py`, `web/log.py`, `static/chat.js`) | transcript, draft index, a page's input lock | `POST /chat`, page load | four writes after the loop's own, and a second save of the draft |
| Stub orchestrator (`web/orchestrator.py`) | none | `advance` | counts rounds at the question, the loop at the answer |
| Draft store (`storage/redis_state.py`) | a draft per session, with a TTL | `get`, `set` | drafts expire, and a deploy may make them unreadable |
| Vector store (`storage/postgres_vector.py`) | a row per request | `upsert`, `search`, `ensure_schema` | rows outlive drafts; instances start at once |
| Jira connector (`connectors/jira/`) | the tracker's issues and links | `search_jira`, `create_ticket`, `link_duplicate` | an answer may be lost after the issue exists |
| Escalation review (`admin/service.py`, `admin/dashboard.py`) | writes the drafts | `review_draft` | reads, decides, writes back without a lock |
| Admin accounts, sessions, connector configuration (`auth/`, `admin/routes.py`, `admin/connectors.py`) | users, sessions, encrypted credentials | bootstrap, login, logout, password, save, delete | several instances bootstrap; saves read, then write |
| Git history connector (`connectors/git/`) | a call budget per search | `search_git_history` | the budget ends a search anywhere |
| Docs connector (`connectors/docs/`) | none; within a call the pages, their passages and scores | `search_design_docs` | where passages are cut, ties in the ranking, silence that must not hide a failure |
| Startup and wiring (`app.py`, `resources.py`, `web/wiring.py`) | connections | `open`, `close`, readiness | partial start and shutdown |
| LLM client (`llm/`) | none; within a call the attempt | `structured`, `embed` | retries after outages, vectors in any order |
| Redaction, evaluation (`redaction.py`, `eval/`) | none | | text substitution, batch script |

How they interact: the page posts a message; `ChatService.handle` calls the
orchestrator; the loop reads the draft, calls the model, the vector store and
the tracker through the tool registry, writes the index row and the draft;
`ChatService` writes the draft again, appends two transcript lines and registers
the session for the dashboard. The administrator's review reads and writes the
same draft. Nothing locks a session: turns, reviews and expiry meet only in the
stores. The Git and the docs connector are not called by the tool registry yet;
they answer a `ToolCall` with evidence or a `ToolError`.

Everything runs on asyncio, so a stretch of code between two awaits is atomic in
its process. That is the grain of the models: **one action per stretch between
two awaits**, named for what happens in it; `turn[t].at` names the await at
which turn `t` waits.

What makes each component correct is stated as the properties in section 4; the
hazards they guard against are listed, line by line, in `PROJECT.json`.

## 2. Modules

| Module | Models | Notes |
|---|---|---|
| `Draft` | the draft, its statuses, the round cap, missing fields, routing | constants and operators only |
| `Chat` | the page, the transport, the draft store, the transcript, the draft index, the review | leaves open what an orchestrator does between `arrived` and `chatSave` |
| `AgentLoop` | the loop on top of `Chat`, the per-process call counter, the tracker, the vector store | `EXTENDS Chat` |
| `StubChat` | the stub orchestrator on top of `Chat` | `EXTENDS Chat` |
| `Conversation` | the abstract promise: at most `MaxRounds` questions, then one decision, one issue exactly when filed | implemented by `AgentLoop` and, with no issue, by `StubChat` |
| `GitSearch` | one `search_git_history`: budget, searches, walks through pages and details, the host that is pushed to meanwhile | stands alone |
| `DocsSearch` | one `search_design_docs`: refusals, the request to the host, cutting pages into passages, ranking and citing | stands alone |
| `ModelCall` | one call of the model: attempts, pauses, what becomes of the answer | stands alone; `AgentLoop` sees its outcome as a value or `Fail` |
| `OutboundCalls` | one call of one of the three | `EXTENDS GitSearch, DocsSearch, ModelCall`; they share nothing |
| `AdminArea` | the account, login sessions, password rotation, a connector's configuration | leaves open where the account comes from |
| `Startup` | instances on one Postgres and one Redis: pool, schema under the advisory lock, bootstrap, serving, stopping, dying | `EXTENDS AdminArea`; serving instances answer its requests |
| `AgentLoopSafety` | proofs of what holds under every fault: types, tickets and links, settled drafts, how a turn moves, issues and replies for each message, named duplicates, waiting pages | |
| `AgentLoopPromise` | proofs about the shared budget, and that the loop implements `Conversation` | `EXTENDS AgentLoopSafety` |
| `AgentLoopPatient` | proofs of what holds while turns of a conversation do not overlap, and of locked pages and the dashboard | `EXTENDS AgentLoopSafety` |
| `StubChatProofs`, `GitSearchProofs`, `DocsSearchProofs`, `StartupProofs` | proofs about the module they are named for | |
| `OutboundProofs` | proofs about `ModelCall`, and about the three outbound calls together | `EXTENDS GitSearchProofs, DocsSearchProofs` |
| `MCAgentLoop`, `MCStubChat` | constants, symmetry and views for TLC | |

How state corresponds to the code:

| Variable | Code |
|---|---|
| `drafts` | the keys of `RedisStateStore` |
| `log` | the lists of `ConversationLog`: per line, who spoke, and of the assistant what kind of reply |
| `registered` | the set of `DraftIndex` |
| `page` | the input of chat.js: ready, locked, or waiting for the turn it names |
| `turn` | the local variables of a `ChatService.handle` under way |
| `review` | the local variables of a `review_draft` between its read and its write |
| `calls` | `ToolRegistry._calls` of each process |
| `tickets` | the tracker's issues in the order they were created: the conversation each was created for and the issue it is linked to |
| `rows` | the vector store's row of each session: whether it exists and its `ticket_id` |
| `limit`, `spent` | `CallBudget._limit` and `_used` |
| `at`, `item` | where `_collect` and `commits_touching` are: the request made next, and the search or path it is for |
| `walk` | the local variables of `commits_touching` |
| `found`, `churn` | the evidence gathered so far |
| `misshapen` | the searches and walks the host answered with a body of another shape (history only) |
| `matches`, `commits`, `pushed` | what the Git host has |
| `call`, `answer` | the `ToolCall` of a lookup and what the docs host has for it |
| `stage` | where `DesignDocsConnector.search` is: `fetch`, mapping a result, cutting a page, ranking; or how it ended, `raised` for an exception it lets through |
| `pages`, `chunks` | the `DocPage`s fetched and the passages each was cut into |
| `cursor` | the loop variables of `chunk_page` and `_split_long_paragraph` |
| `score`, `evidence` | the scores of the index and the passages cited so far |
| `ask`, `phase`, `attempt` | the method called of the model, and the loop of `_post` |
| `pauses`, `heard` | how often `_post` slept and what became of each request (history only) |
| `data`, `vectors`, `reply` | the rows of an embeddings answer, the vectors in the order returned, and what the caller gets |
| `account`, `indexed` | the two keys `AdminUserStore.put` writes |
| `printed` | the temporary passwords in the logs |
| `sessions`, `config` | the keys of `AdminSessionStore` and of one connector in `ConnectorConfigStore` |
| `request` | the local variables of an admin handler under way |
| `inst` | the lifespan of each instance: the await it is at, its open pool and its transaction |
| `lock`, `table` | the advisory lock and the committed table, by its width |

Abstractions. Texts are gone: of the reporter's words only the set of required
fields they have answered remains. `raw_text` grows by one message exactly when
`round` does, so `round` stands for both. The model's answers are
nondeterministic: any category, any set of fields, any score. Requests are close
in the vector store exactly when they are on one topic (`TopicOf`), and any of
the close ones may be the best match. `search_jira` contributes evidence that no
decision reads; it is the call that `Investigate` spends. A session id used as a
ticket key (dedup.py:55) is no issue of the tracker, so the tracker refuses to
link to it.

In `GitSearch` a step is one request to the host with what the connector does
with the answer. Of a search only whether something matches remains, of a path
how many commits touch it. A 2xx answer may also be none of what was asked for:
a search result without items is no hit (hosts.py:140, 162), a page that is no
list ends its walk (hosts.py:199), and a body that cannot be read, or an item
without a sha, raises what `search_git_history` does not catch (`AnswerRaises`),
which ends the call in the stage `raised` where an httpx error ends it as a
`ToolError`. `PageSize` is the literal 100 of hosts.py:191 and 225; the setting
`commit_page_size` (settings.py:75) is read nowhere.

In `DocsSearch` a paragraph is where its sentences end and which of them share a
term with the query. That is enough to say where passages are cut and which can
be found: the BM25 value of a passage that shares a term is any positive number
(`Scores`), of one that shares none it is nothing. Titles, markup and the query
language of the host are left out, and so is the provider that answers from
files.

In `ModelCall` a completion is usable or not, a vector is the text it embeds,
and the length of a pause is left out. A request ends as an outage, a final
refusal or a body.

In `AdminArea` a password is a value and a hash fits exactly its password;
administrators type what they chose or what they read in a log. Saving the
configuration keeps what `save_connector` decides about the credential; the base
URL and the enabled flag are overwritten either way. In `Startup` the creation
of the extension is part of creating the table, and the index is part of
committing, since nothing but the lock and the width decides about either.

A definition marked *Variant* is not the code. It is the definition after it with
a plausible mistake and is used only to see that a property notices it.

### Faults

`Faults` selects what the environment may do besides answering:

- `error`: any awaited call raises (`Fail`), or a process restarts (`Crash`),
  which kills its turns and zeroes its counter;
- `lost`: the tracker creates an issue but its answer is lost
  (`FilingUnanswered`) or does not parse (`FilingUnreadable`);
- `abandon`: a page stops waiting while the server goes on with the turn: the
  connection drops, the page is reloaded, a second tab is used;
- `expire`: a draft's TTL ends, or a deploy makes it unreadable.

`Startup` has its own faults: `postgres` (a connection or statement fails),
`redis` (a command fails, or takes effect and its answer is lost) and `kill` (a
process dies; Postgres rolls its transaction back and frees its lock). An
instance learns of a Redis command a step after it took effect, so a kill or a
failure between the two is possible, at the last one as well, between the SADD
of the account and the log line (`UserIndexed`, `PasswordPrinted`). The outbound
calls have no switch: any request may fail or be answered with a body of another
shape, commits may be pushed at any time, a docs host may list anything, and the
model's provider may have any number of outages and answer with anything.

A tracker that refuses a call is not a fault: the code handles it, and
`FilingFails` and `LinkFails` are always possible.

### Fairness

Invariants are checked without fairness. `FairSpec` asks that each turn under
way goes on: every awaited call ends, because each client has a timeout and
asyncio runs what is ready. `PatientSpec` adds a reporter who answers whenever
the page is ready and a slot is free. No fairness is asked of reviewers,
expiry, faults or the tracker's consent.

In `GitSearch` the connector is weakly fair: its client has a timeout
(connector.py:227). Pushes are not fair and may come at any time. A lookup is
weakly fair for the same reason (providers.py:100-110). A call of the model
needs no fairness: that it ends is stated of its steps (`AskAdvances`). In
`Startup` each instance goes on while it can (`Progress`): pool and Redis have
timeouts, and a waiting `pg_advisory_xact_lock` is granted in turn. Weak
fairness is enough for that because starts are bounded, so each instance meets a
taken lock only finitely often. Starting, stopping, faults and administrators
are not fair.

## 3. Runs

| Run | Instance | Shows |
|---|---|---|
| `AgentLoop_faults` | 2 sessions, 1 topic, 2 turns, 1 reviewer, all faults, budget of 2, 2 messages | what is stored stays settled, tickets are traced, a ticket means filed |
| `AgentLoop_serial` | 2 sessions, 1 turn at a time, faults `error` and `lost`, 4 messages | questions are capped, replies follow messages, decided drafts stay decided, the later duplicate is recognised |
| `AgentLoop_reliable` | 2 sessions, 2 turns, no faults, 6 messages, fair | the loop implements `Conversation`, everyone is answered, patience is rewarded, every escalation reaches the dashboard, the budget suffices for two turns |
| `StubChat` | the stub's real fields, 1 session, 2 turns, 1 reviewer, faults, 4 messages | rounds match answers, only complete drafts are decided, the transport's cap reply is never used |
| `GitSearch` (module `OutboundCalls`) | Git: 1 repository, 2 paths, pages of 2, 2 pages, 2 details, 0 to 5 commits and 1 push a path, every budget from 1 to 11. Docs: passages of 6, 2 results asked for, 2 passages cited. Model: 2 retries, 2 texts | counts, samples and silences mean what the evidence says; no text is lost between passages; repeated requests are earned; vectors keep the order; searches and lookups end, attempts are counted |
| `Startup` | 2 instances, 3 starts, 2 widths, 1 administrator, all faults | the table is made once, serving means ready, nothing stays open, no start undoes a rotation it could have seen |
| `Startup_lockout`, `AgentLoop_budget`, `_review`, `_approve`, `_overlap`, `_ticketless` | the smallest instances that show it | one finding each, section 5 |

Bounds. `MaxPosts` bounds the messages of all conversations together; it is the
only bound on an execution, and every run stops there, which is why deadlock is
not checked. Two sessions are the fewest that can be duplicates of each other;
two turns the fewest that can overlap, in one conversation or in two. The rounds
are 1 or 2 in the loop's runs because the cap is then reached with fewer
messages; the code compares with the constant only. In `AgentLoop_faults` the
budget is 2 instead of 6 so that both refusals (`RefuseFiling`, `RefuseLink`) can
happen with two turns; in `AgentLoop_reliable` it is 4, which two turns of that
instance never exhaust, so nothing in it would change with the real 6. With six
messages every page of that run can be driven to its verdict: each of the two
conversations needs at most `MaxRounds + 1 = 3`. Sessions and turns are
symmetric in the runs without liveness. The view `WithoutLog` leaves the
transcript, which no action reads, out of the state's identity where no property
reads it.

In `GitSearch` five commits and a push are more than two pages of two, so every
page is met empty, partial, full and cut off, and a path may have more commits
than pages show. A path costs at most four requests and the searches two, so
every budget from 1 to 10 runs out somewhere or just suffices, and 11 always
leaves something. A second repository would only repeat the two searches.

The same run makes a lookup or a call of the model instead, which adds their
states to those of the searches and multiplies nothing. `MaxChars = 6` stands
for the 500 of the code: sentences of 1, 2, 3 and 8 characters, up to three in a
paragraph, make passages that fit exactly, miss by one, and sentences that never
fit. Up to three results, citable or not, of which two are asked for, with up to
two matching paragraphs each, make every cut of the ranking and every tie
(`MaxScore = 2` is enough for less, equal and more). `MaxRetries = 2` is the
default of config.py; two texts are the fewest that have an order, and answers
have up to three rows, one too many.

In `Startup` two instances are the fewest that can collide, and a third start
lets one of them come back while the other still has its temporary password. Two
widths are what a deployment that changes the model needs. One administrator is
a restriction: two who save at once do undo each other (service.py:62 reads,
service.py:77 writes), and in the run nothing can come between a read and its
write. The theorem is wider than the run here (section 6).

`StubChat` uses one session because the stub has no state that two sessions
share.

## 4. Properties

Under every fault (`AgentLoop_faults`, all proved, with `TypeOK`):

- `TicketsTraced`: a stored draft and an index row name only issues created for
  that very conversation.
- `TicketMeansFiled`: nothing a reviewer may still decide has a ticket.
- `StoredIsSettled`: a stored draft either waits for an answer it may still ask
  for, or has passed the clarify gate, is in the index and was routed to be filed
  or escalated.

While turns of a conversation do not overlap (`AgentLoop_serial`):
`QuestionsCapped`, `RepliesFollowMessages`, `DecidedNeverAsks`,
`IndexNamesLiveTicket`, `LaterDuplicateRecognised`. All are proved, with
reviewers, which the run leaves out: the first four whenever pages wait before
they post again and no draft expires, for any number of conversations at once;
the last when requests are served one at a time, whatever else goes wrong. These
really need the restriction: `AgentLoop_overlap` shows the first of them failing
without it.

When nothing fails (`AgentLoop_reliable`): `LockedMeansHandled` (proved with
reviews and lost answers of the tracker, as long as no call raises),
`LinksPointBack` (proved under all faults), `CapIsPerRequest` (two turns are few
enough; proved under all faults), `KeepsPromise` (the refinement of
`Conversation`; proved), `EveryMessageAnswered`, `PatientReporterGetsVerdict`,
`EscalatedIsListed` (the turn that stores an escalated draft three awaited
writes before it registers the session does go on to register it). The last one
needs turns that do not fail: an escalated draft whose turn dies in between is
listed only after the reporter's next message, and a page reloaded meanwhile is
locked.

The stub (`StubChat`, all proved): `RoundsMatchAnswers`, `DecidesOnlyComplete`,
`CapReplyUnused`. The last one settles a worry a reader may have about
service.py:58: the stub counts a round when it asks, so its question in round
three would be replaced by the transport's cap reply. No category requires three
fields, so that question is never asked. `QuestionsCapped`,
`RepliesFollowMessages` and the promise of `Conversation` are proved of the stub
too, while pages wait and no draft expires.

The Git search (`GitSearch`, all proved but the last): `TypeOK` (the budget is
never overspent), `UncappedCountsAll` (a count without "at least" is complete
and no count is too high for commits that were there), `ThinDetailOwnsUp`,
`SilenceMeansSpent` (when a completed search says nothing about something the
host knew, the budget is gone) and `EverySearchEnds`, by evidence, an error or
an exception. Counts and silences have one exception, which the repository tests
for (`test_commits_touching_breaks_on_a_non_list_body`): a body of another shape
is taken for the end of the list, or for no hit, without a word. `misshapen`
remembers where the host answered so, and both properties except exactly those
paths and searches: no other count or silence is touched by it.

The docs lookup (same run, all proved but the last): `LookupTypeOK`,
`SentencesKept` (the passages of a page hold each of its sentences once, in
order), `PassagesPacked` (a passage fits unless it is a single sentence, and was
cut only where the next sentence would not have fitted), `EvidenceIsBest`
(nothing left out beats what is cited, and ties are broken by what does not
depend on the order of the host), `SilenceMeansNoHit` (an answer without
evidence means that no citable page asked for shares a term with the query) and
`EveryLookupEnds`.

The call of the model (same run): `RetriesAreEarned` (a
request is repeated after an outage only, an outage surfaces only when all
attempts are spent, a value comes from the last answer), `VectorsInOrder` (one
vector per text, in order, from a provider that answers about the texts it was
given) and `AskAdvances` (no attempt goes uncounted: each step leaves a call fewer
steps). All three are proved.

Starting and administering (`Startup`): `TableMadeOnce`, `ServingMeansReady`,
`NothingIsLeftOpen`, `RotationSurvivesStarts` (once a password was rotated and
no instance is left that looked for an account before there was one, no start
puts a temporary password back, whatever fails or dies: it has to find the
rotated account in the index), `BlankKeepsCredential`, `StartsEnd`. All but
`StartsEnd` are proved. `AccountKnown` fails (section 5), and is proved where it
holds.

Some properties are stated beside the proofs, in the proof modules, because no
run needs to ask them: what a turn may do next (`TurnsAdvance`), what a page
waits for (`PageAwaitsItsTurn`), how many issues and replies there are for the
messages (`OneIssuePerMessage`, `RepliesAnswer`), what a duplicate names
(`DuplicateIsKnown`), where a stored draft is listed (`NeverStranded`), when a
page is locked (`LockedMeansDecided`), that a rotation and the table stand
(`RotationStands`, `TableStands`), who is in the transaction (`OneTransaction`),
and that every step of an outbound call counts (`CallsAdvance`). Section 6 says
under which conditions.

## 5. Where the code and its documentation disagree

| Run | What the documentation says | What happens |
|---|---|---|
| `AgentLoop_budget` | the cap is per inbound request (tools.py:4-6) | the counter is per process: three interleaved turns are enough for one to be refused |
| `AgentLoop_review` | review persists the new status (admin/service.py:30) | the transport's second save of the same turn overwrites it (web/service.py:61) |
| `AgentLoop_approve` | "Approve & file" (draft.html:46) | the draft is marked filed and no issue is created |
| `AgentLoop_overlap` | at most three questions across the conversation (loop.py:6-7) | overlapping turns of one session load the same round |
| `AgentLoop_ticketless` | `duplicate_of` is an existing ticket (draft.py:64) | it may be the session id of an escalated request |
| `Startup_lockout` | the first-boot password is printed in the logs (`src/README.md`, line 49) | an instance is killed between the SADD of the account (users.py:56) and its log line (users.py:81): no printed password fits, and no later start creates another |

Four of these claims are true within limits, and the limits are proved
(section 6):

- tools.py: the cap does count per request in effect, while an instance serves at
  most two turns (`CapIsEnough`).
- draft.html: without reviewers every filed draft names its issue, whatever
  fails (`FiledHasTicket`). The approval alone breaks the claim.
- loop.py: three questions at most while the page waits before it posts again and
  the draft is kept (`QuestionsAreCapped`).
- README: the password is known when no instance is killed and Redis answers,
  however many instances bootstrap at once (`AccountIsKnown`). One kill at the
  wrong moment is enough to break it. With two instances the moment is longer: the one
  whose record was written last may die before its own SADD, while the other one puts
  the account into the index and prints a password that does not fit.

Of the claim in draft.py something weaker always holds: a duplicate names an
issue of another conversation on the topic, or that conversation, whose row is in
the index (`DuplicateAlwaysKnown`).

## 6. Proofs

`AgentLoopSafety` proves `Spec => []TypeOK` for every value of the constants that
satisfies `DraftAssumption`, `ChatAssumption` and `LoopAssumption`. `TypeOK` is
not inductive: a turn may only write its draft to the store if it has one and
knows its session. `TypeInv` adds that (`TurnsTyped`, `ReviewsTyped`).

Its second part proves `TicketsTraced`, `TicketMeansFiled` and
`LinksPointBack`, all under every fault and with reviewers. A stored draft comes
from a turn or a review that read it some steps earlier, so `TicketInv` speaks of
every draft held anywhere, and of what the step of a turn implies: a turn that
has not created its issue has no ticket (`Unfiled`), and one about to link names
an issue younger than the one it links to. The argument has one global fact,
`Grows`: no step removes an issue or changes whose it is, so whatever was true of
a held draft stays true (`GrowsKeeps`); `KeptSuffices` reduces each action to the
few drafts it puts somewhere new.

Its third part proves `StoredIsSettled`. A draft is settled when it waits for
an answer it may still ask for, or is decided and has a row in the index. The
second half is not in any one step: the row is written at `Index`, the draft at
`LoopSave`, again at `ChatSave`, and by a reviewer who read it earlier. So
`SettledInv` follows a draft from `nearest`, which comes after the clarify gate,
to the store (`StepSettled`), and says the same of every draft a turn or a review
holds. The one global fact is `RowsGrow`: a row, once present, stays. Where a
turn may leave the loop with a draft that is not decided, it can only wait for
an answer.

Its last part starts from a description of what a step may do to the turns, for
every action at once: one turn goes on to an await that may follow the one it is
at (`Flow`, `MovesOn`), or turns are given up. From it follow

- `TurnsAlwaysAdvance`: a turn comes nearer its answer with each of its steps,
  through at most twelve awaits (`Left` counts those before it), and nothing
  another turn, a reviewer or a failure does sends it back;
- `PagesAwaitTheirTurn`: a page waits only for a turn of its own session that is
  under way;
- `OneIssueAMessage`: the issues created and the turns that may still create one
  are together no more than the messages sent (`IssueInv`), which a turn that
  dies, or whose answer is lost, only makes truer;
- `RepliesAlwaysAnswer`: the replies of a transcript, with the turns between their
  two lines, are no more than its messages (`LogInv`), so that overlapping turns may
  interleave their lines but never put a reply before the message it needs;
- `DuplicateAlwaysKnown` and `FiledHasTicket`, from `KnownInv`, which like
  `TicketInv` follows a draft from the turn that makes it, through every copy held
  by a turn or a review, to the store.

`AgentLoopPromise` proves what holds under conditions on the constants. For the
budget (`CapIsPerRequest`) it is that more than two calls are there for each
turn an instance may serve (`BudgetSuffices`): a turn resets the counter when it
investigates, which takes one call, and has at most two to come. `BudgetInv`
adds up the calls made and those the turns past that point may still make. After
a reset the sum is at most one and two for each turn, and a turn that fails or
dies drops out of it, so no fault need be excluded. The code's six calls suffice
for two turns at once and just not for three, which is the instance of
`AgentLoop_budget`. The condition is sufficient, not necessary: the reliable run
has four calls for two turns, and they suffice because of its two conversations
only one can be a duplicate.

For the refinement `KeepsPromise` it assumes besides that `Faults` and
`Reviewers` are empty (`Calm`). `PromiseInv` says that a conversation has at most
one turn, for which its page waits, and relates at each await the turn's draft to
the stored round and to the issues opened so far. In the refinement `LoopSave` is
`Ask` or `Decide`, `FileNew` and `FileDuplicate` are `Open`, and every other step
leaves the abstract state as it is.

`AgentLoopPatient` proves the properties of turns that do not overlap. Its
first part assumes that no page stops waiting and no draft expires (`Patient`);
errors, crashes, lost answers and reviews stay. A conversation then has at most
one turn, but each turn may meet what a dead one left behind, and a review may
put back what it read before the turn began. `PatientInv` therefore says at each
await what the draft owes to the stored one and to the transcript: the round is
stored before the question is logged, a message is last in the transcript when
its reply is appended, and a draft that passed the clarify gate passes it again.
The second part needs only that no two turns are of one session (`Exclusive`) for
`IndexNamesLiveTicket`, and a single turn at a time (`Serial`) for
`LaterDuplicateRecognised`. Both rest on the row being written before the draft
(`FiledInv`): an issue nobody stored may be forgotten, one that is stored is
found.

Its third part is about what a locked page tells its reporter. `LockInv` says
that a turn which is going to lock its page has stored a decided draft, and
`PatientInv` that nothing takes the decision back before the page is answered: a
page is locked only once its draft is decided (`LockedIsDecided`). That the
administrator finds it (`LockedIsHandled`, the run's `LockedMeansHandled`) needs
that no call raises, because the session is registered three awaits after the
draft is stored. `WayInv` says of every stored draft that its session is listed
or a turn is still on its way to list it, and the same of every draft a review
holds. The run checks `LockedMeansHandled` without any fault or reviewer; the
theorem allows reviews, refusals and lost answers.

`StubChatProofs` proves the three invariants of the stub from the assumption
`FewFields`: every category requires fewer fields than there are rounds, which
`_REQUIRED_FIELDS` does. `StubInv` says of every draft held anywhere that its
rounds are its answers, and one more while it waits; a draft that still misses a
field has then fewer rounds than the cap.

While pages wait and no draft expires (`Patient`), `FollowInv` adds what the
transcript, the page and a review know: the stored draft counts every question in
the transcript, a conversation has one turn for which its page waits, and a
reviewer holds a decided draft. From it follow `StubQuestionsCapped`,
`StubRepliesFollow`, `StubDecisionsStand` and the refinement of `Conversation`
(`StubKeepsPromise`). Errors, restarts and reviews between read and write are
allowed there, other than in `LoopKeepsPromise`: the stub opens no issue that a
dying turn could leave behind.

`GitSearchProofs` proves `TypeOK`, `UncappedCountsAll`, `ThinDetailOwnsUp` and
`SilenceMeansSpent` for every value of the constants that satisfies
`GitAssumption`. None of the last three is inductive: a passage is written when
its walk ends, so the invariant `GitInv` speaks of the walk under way. About to
list page *n* it has counted *n* - 1 full pages; while it reads page *n* its
count and what is left of the page add up to everything the host had when it
listed, unless the page was full (`WalkCounts`). A page that is no list ends the
walk with less, and is remembered in `misshapen`, which only grows. A push only
raises what the host has, and `commits` stays what it was when the search began,
so both bounds survive it. What was passed over was passed over with the budget
spent (`SearchesAccounted`, `PathsAccounted`), and a spent budget stays spent.
`EndWalkKeeps` carries the walk's facts over to its passage once for the four
actions that end a walk. `SearchesAdvance` says that each step spends a call or
goes `Further` in the plan of searches and walks: a refused request ends its
walk, a full page is followed by the next only up to `MaxPages`.

`DocsSearchProofs` proves the five invariants of a lookup for every value of the
constants that satisfies `DocsAssumption`. `DocsInv` follows the cutting of a
page: the passages made so far end where the cursor begins, and the piece the
cursor is building fits or is one sentence. Of the ranking it says that what has
been cited comes before what is left. For `LookupsAdvance` it says that the cursor
stays in the text (`InReach`), where each step moves it on: the two loops of
`chunk_page` and `_split_long_paragraph` have an end for every text and every
passage length.

`OutboundProofs` proves `RetriesAreEarned` and `VectorsInOrder` for every number
of retries and texts. In `AskInv` the requests heard and the attempt keep step,
and all but the last were outages. For the order: an honest answer has as many
rows as texts and a row for each, so no index occurs twice, and the rows sorted
by index are a strictly increasing map of `1..n` into itself, which is the
identity. `AskLeft` counts the steps left to a call and falls with each
(`AsksAdvance`, for the run's `AskAdvances`).

The invariants above are of the components. `OutboundProofs` carries them over
to `OutboundCalls`, the specification of the run: a component without a call
satisfies its invariant, and a step of one leaves the others alone, so that
`CallInv` is inductive. `EveryCallIsSound` states the run's eleven invariants of
`CallSpec`, `EveryCallAdvances` that each of its steps brings a call nearer its
end. Both assume that some call has no limit (`NoLimit \in Limits`), as of a
call without the argument (connector.py:106-110).

`StartupProofs` proves the four invariants and two action properties of
`Startup` under `StartupAssumption`. `BlankFieldKeeps` holds for any number of
administrators, under a condition on the behaviour that the code does not
enforce: while a save is between its read and its write, no other request is
about to write the configuration (`OneSaveAtATime`). Then what a save has read
is still stored (`ReadIsStored`), through logins, rotations, starts and
failures. `StartupInv` says at each await of an instance what it holds and what
it may rely on: who holds the lock is in the transaction, only who holds it can
have made the table, a table of the right width stays one, and who is past the
bootstrap has seen an account in the index, which nothing removes. Two more
facts of the schema follow: `TransactionsExclude` and `TableIsNeverReplaced`.

The account needs more. When Redis answers and nothing is killed, the account
that stands last was written by an instance that goes on to print its password
(`AccountHeld`), however many bootstrap at once. For `RotationSurvives` the fact
is `UsedIsIndexed`: who has logged in, and so who may rotate, did it at a
serving instance, and none serves before the account is in the index. So a
rotated account is there for every start that looks from then on. Only an
instance that looked earlier and has not yet written may put a temporary
password over it, which the property's hypothesis excludes (`Secured`) and TLC
shows to happen with two instances. With one instance it cannot, under every
fault: `OneInstanceKeepsRotation`.

So every invariant and action property that a passing run checks is proved, and
the refinement too. Only model-checked are the liveness properties, since
liveness under fairness is out of TLAPS's reach: `EveryMessageAnswered`,
`PatientReporterGetsVerdict`, `EscalatedIsListed`, `EverySearchEnds`,
`EveryLookupEnds` and `StartsEnd`. For four of them the part that
is a safety property is proved, which leaves to fairness only that a step that can
be taken is taken:

| Liveness, model-checked | Safety, proved |
|---|---|
| `EveryMessageAnswered` | `PageAwaitsItsTurn` and `TurnsAdvance`: the page waits for a turn under way, and a turn can only go on |
| `EscalatedIsListed` | `NeverStranded`: an escalated draft is listed or has a turn that is about to list it |
| `EverySearchEnds`, `EveryLookupEnds` | `CallsAdvance`: each step lowers a bounded measure |

## 7. Plan

1. done: `Draft`, `Chat`, `AgentLoop`, `StubChat`, `Conversation`, their runs, and
   the proofs of all their safety properties, the refinement included.
2. done: `GitSearch`, `DocsSearch`, `ModelCall` with their run and the proofs of
   their invariants.
3. done: `AdminArea` and `Startup` with their runs and proofs.
4. done: what the findings leave standing, the safety half of liveness, the stub's
   promise, and the outbound calls put together.
5. Left to prove: the measure of a start, which is bounded by the starts left and
   the awaits of one; that `Startup` implements `AdminArea` with an account that
   appears from outside; the loop's promise with reviewers.
6. Left to model: two administrators whose saves race, in a run, with a weaker promise
   that still
   holds for them; the configuration a running instance uses next to the one that
   is stored (wiring.py:71 reads it once); the argument checks of the Git
   connector; `search_jira` and the HTTP client of the tracker.

## 8. Not modelled

- Redaction (`redaction.py`): it substitutes text before anything is stored or
  sent, keeps no state, and no step of the loop depends on what it returned.
- Evaluation (`eval/`): an offline script over a fixed dataset.
- `RecordedLLM` and the docs connector's fixture provider: test doubles that
  answer from files.
- Prompts, HTML, cookies, the encoding of vectors and credentials, password
  hashing, settings and metrics: pure functions or I/O with no state that a
  property could relate.
- `search_jira`'s results, evidence and summaries: no decision reads them.
- The TTL of the transcript: only its own expiry depends on it.
- The Slack surface, which exists as a name only.
