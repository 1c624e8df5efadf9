------------------------------ MODULE GitSearch ------------------------------
(***************************************************************************)
(* One search_git_history: for each repository a commit search and a pull  *)
(* request search, then for each repository and hinted path a walk through *)
(* the pages of its commits.  All of them spend one CallBudget.  A step is *)
(* one request to the Git host and what the connector does with the answer.*)
(*                                                                         *)
(* Searches and paths are numbered in the order the connector asks.  Of a  *)
(* search only whether something matches matters, of a path how many       *)
(* commits touch it.                                                       *)
(***************************************************************************)
EXTENDS Naturals

CONSTANTS
  Repos,        \* number of repositories
  Hints,        \* number of path hints
  MaxApiCalls,  \* bound: the largest budget a deployment sets
  DetailLimit,  \* commits per path whose detail is fetched
  PageSize,     \* commits per page
  MaxPages,     \* pages per path
  MaxCommits,   \* bound: commits touching a path when the search begins
  MaxPushes     \* bound: commits pushed to a path while the search runs

ASSUME GitAssumption ==
  /\ Repos \in Nat \ {0}
  /\ Hints \in Nat
  /\ MaxApiCalls \in Nat \ {0}
  /\ DetailLimit \in Nat
  /\ PageSize \in Nat \ {0}
  /\ MaxPages \in Nat \ {0}
  /\ MaxCommits \in Nat
  /\ MaxPushes \in Nat

\* Each repository of the setting and each hint counts once, in order.
Searches == 1..(2 * Repos)
Paths == 1..(Repos * Hints)

VARIABLES
  limit,     \* CallBudget._limit
  spent,     \* CallBudget._used
  matches,   \* the host: searches that match something
  commits,   \* the host: commits touching each path when the search begins
  pushed,    \* the host: commits pushed to each path since
  at,        \* the request the connector makes next
  item,      \* the search or path it is at
  walk,      \* the walk through that path's commits
  found,     \* searches whose hits are evidence
  churn,     \* the churn passage of each path
  misshapen  \* history: the searches and walks the host answered, with 2xx, by
             \* a body of another shape; no action reads it

settings == <<limit, matches, commits>>
vars == <<settings, spent, pushed, at, item, walk, found, churn, misshapen>>

\* A walk: the page to list next or being read, the commits of that page not
\* yet read, whether the page was full, and what the walk has gathered.
Walk == [page : Nat, left : Nat, full : BOOLEAN, records : Nat,
         detailed : Nat, capped : BOOLEAN]

NewWalk == [page |-> 1, left |-> 0, full |-> FALSE, records |-> 0,
            detailed |-> 0, capped |-> FALSE]

Passage == [count : Nat, sampled : Nat, capped : BOOLEAN]
NoPassage == [count |-> 0, sampled |-> 0, capped |-> FALSE]

\* "failed": the call is a ToolError; "raised": an exception leaves it.
Stages == {"search", "list", "detail", "done", "failed", "raised"}

\* A request: its stage, and the search or path it is made for.
Requests == ({"search"} \X Searches) \cup ({"list"} \X Paths)

FirstPath == IF Paths = {} THEN "done" ELSE "list"

Init ==
  /\ limit \in 1..MaxApiCalls
  /\ spent = 0
  /\ matches \in SUBSET Searches
  /\ commits \in [Paths -> 0..MaxCommits]
  /\ pushed = [p \in Paths |-> 0]
  /\ at = "search"
  /\ item = 1
  /\ walk = NewWalk
  /\ found = {}
  /\ churn = [p \in Paths |-> NoPassage]
  /\ misshapen = {}

-----------------------------------------------------------------------------
\* The budget.

\* Variant: one call too many is granted.
AffordableInclusive == spent <= limit

\* Variant: the last call is never granted.
AffordableExclusive == spent + 1 < limit

Affordable == spent < limit

\* The calls spent once a request has been made.
Spent == spent + 1

Misshapen == misshapen' = misshapen \cup {<<at, item>>}

-----------------------------------------------------------------------------
\* Searches.

NextSearch ==
  /\ IF item < 2 * Repos
     THEN item' = item + 1 /\ UNCHANGED at
     ELSE item' = 1 /\ at' = FirstPath
  /\ UNCHANGED <<settings, pushed, walk, churn>>

SearchAnswered ==
  /\ at = "search"
  /\ Affordable
  /\ spent' = Spent
  /\ found' = IF item \in matches THEN found \cup {item} ELSE found
  /\ NextSearch
  /\ UNCHANGED misshapen

\* An object without items, or with items without a text: no hit.
SearchMisshapen ==
  /\ at = "search"
  /\ Affordable
  /\ spent' = Spent
  /\ Misshapen
  /\ NextSearch
  /\ UNCHANGED found

\* The budget is spent: no hits, and no error either.
SearchRefused ==
  /\ at = "search"
  /\ ~Affordable
  /\ NextSearch
  /\ UNCHANGED <<spent, found, misshapen>>

-----------------------------------------------------------------------------
\* Walks.

\* summarize: no passage about a path without commits.
Summary(w) ==
  IF w.records = 0 THEN NoPassage
  ELSE [count |-> w.records, sampled |-> w.detailed, capped |-> w.capped]

\* The walk w of this path is over.
EndWalk(w) ==
  /\ churn' = [churn EXCEPT ![item] = Summary(w)]
  /\ walk' = NewWalk
  /\ IF item < Repos * Hints
     THEN item' = item + 1 /\ at' = "list"
     ELSE item' = item /\ at' = "done"

\* The commits the host lists on a page of this path.
Offset(page) == (page - 1) * PageSize
Remaining(page) ==
  LET all == commits[item] + pushed[item]
  IN  IF all <= Offset(page) THEN 0 ELSE all - Offset(page)
Listed(page) == IF Remaining(page) < PageSize THEN Remaining(page) ELSE PageSize

ListAnswered ==
  /\ at = "list"
  /\ Affordable
  /\ spent' = Spent
  /\ IF Listed(walk.page) = 0
     THEN EndWalk(walk)
     ELSE /\ walk' = [walk EXCEPT !.left = Listed(walk.page),
                                  !.full = Listed(walk.page) = PageSize]
          /\ at' = "detail"
          /\ UNCHANGED <<item, churn>>
  /\ UNCHANGED <<settings, pushed, found, misshapen>>

\* A body that is no list ends the walk like an empty page, and as quietly.
ListMisshapen ==
  /\ at = "list"
  /\ Affordable
  /\ spent' = Spent
  /\ Misshapen
  /\ EndWalk(walk)
  /\ UNCHANGED <<settings, pushed, found>>

\* Variant: a refused page does not end the walk.
ListRefusedRetries ==
  /\ at = "list"
  /\ ~Affordable
  /\ walk' = [walk EXCEPT !.capped = TRUE]
  /\ UNCHANGED <<settings, spent, pushed, at, item, found, churn, misshapen>>

ListRefused ==
  /\ at = "list"
  /\ ~Affordable
  /\ EndWalk([walk EXCEPT !.capped = TRUE])
  /\ UNCHANGED <<settings, spent, pushed, found, misshapen>>

\* The next commit of the page wants detail.
WantsDetail == walk.left > 0 /\ walk.detailed < DetailLimit

DetailAnswered ==
  /\ at = "detail"
  /\ WantsDetail
  /\ Affordable
  /\ spent' = Spent
  /\ walk' = [walk EXCEPT !.left = @ - 1, !.records = @ + 1,
                          !.detailed = @ + 1]
  /\ UNCHANGED <<settings, pushed, at, item, found, churn, misshapen>>

\* Variant: a full last page is taken for the end.
CutShortUnlessLast(w) == w.full /\ ~Affordable

\* A full page after which no other can be asked for.
CutShort(w) == w.full /\ (w.page = MaxPages \/ ~Affordable)

\* Variant: a refused detail goes unmentioned.
PageReadQuietly ==
  [walk EXCEPT !.left = 0, !.records = @ + walk.left,
               !.capped = @ \/ CutShort(walk)]

\* The page with the commits read without detail: over the sample limit, or
\* refused, which makes the walk a capped one.
PageRead ==
  LET refused == WantsDetail /\ ~Affordable
  IN  [walk EXCEPT !.left = 0, !.records = @ + walk.left,
                   !.capped = @ \/ refused \/ CutShort(walk)]

EndPage ==
  /\ at = "detail"
  /\ ~(WantsDetail /\ Affordable)
  /\ IF walk.full /\ walk.page < MaxPages
     THEN /\ walk' = [PageRead EXCEPT !.page = @ + 1]
          /\ at' = "list"
          /\ UNCHANGED <<item, churn>>
     ELSE EndWalk(PageRead)
  /\ UNCHANGED <<settings, spent, pushed, found, misshapen>>

-----------------------------------------------------------------------------
\* The host.

\* A request is sent.
Asked ==
  /\ \/ at \in {"search", "list"}
     \/ at = "detail" /\ WantsDetail
  /\ Affordable
  /\ spent' = Spent

\* The call is over and its evidence dropped.
Aborted(outcome) ==
  /\ at' = outcome
  /\ UNCHANGED <<settings, pushed, item, walk, found, churn, misshapen>>

\* An httpx error, an error status among them, makes the call a ToolError.
RequestFails == Asked /\ Aborted("failed")

\* An answer that is not JSON, or an item the code cannot read, raises what
\* search_git_history does not catch: at once, or when the walk comes to a
\* listed commit without a sha.
AnswerRaises ==
  /\ \/ Asked
     \/ at = "detail" /\ walk.left > 0 /\ UNCHANGED spent
  /\ Aborted("raised")

\* Somebody commits to a path while the search runs.
Push(p) ==
  /\ at \in {"search", "list", "detail"}
  /\ pushed[p] < MaxPushes
  /\ pushed' = [pushed EXCEPT ![p] = @ + 1]
  /\ UNCHANGED <<settings, spent, at, item, walk, found, churn, misshapen>>

Connector ==
  \/ SearchAnswered
  \/ SearchMisshapen
  \/ SearchRefused
  \/ ListAnswered
  \/ ListMisshapen
  \/ ListRefused
  \/ DetailAnswered
  \/ EndPage
  \/ RequestFails
  \/ AnswerRaises

Next == Connector \/ \E p \in Paths : Push(p)

Spec == Init /\ [][Next]_vars

\* Every request ends: the client is opened with a timeout.
FairSpec == Spec /\ WF_vars(Connector)

-----------------------------------------------------------------------------
\* Properties.

\* Types; the budget is never overspent.
TypeOK ==
  /\ limit \in 1..MaxApiCalls
  /\ spent \in 0..limit
  /\ matches \subseteq Searches
  /\ commits \in [Paths -> 0..MaxCommits]
  /\ pushed \in [Paths -> 0..MaxPushes]
  /\ at \in Stages
  /\ item \in Searches \cup Paths
  /\ walk \in Walk
  /\ found \subseteq Searches
  /\ churn \in [Paths -> Passage]
  /\ misshapen \subseteq Requests

\* A passage that does not say "at least" (churn.py, capped) has counted every
\* commit there was when the search began, unless the host answered a page of
\* that path with something else than a list.  None claims more commits than
\* there are, although commits pushed meanwhile shift the pages.
UncappedCountsAll ==
  \A p \in Paths :
    churn[p].count > 0 =>
      /\ churn[p].count <= commits[p] + pushed[p]
      /\ \/ churn[p].capped
         \/ churn[p].count >= commits[p]
         \/ <<"list", p>> \in misshapen

\* Line counts leave commits out only where the sample limit says so, or the
\* passage owns up to being cut short.
ThinDetailOwnsUp ==
  \A p \in Paths :
    \/ churn[p].capped
    \/ churn[p].sampled = churn[p].count
    \/ churn[p].sampled = DetailLimit

\* A completed search is silent about something the host knew only when the
\* budget is spent, or where the host answered that very request with a body of
\* another shape, which is read as nothing found (hosts.py:140, 162, 199;
\* test_commits_touching_breaks_on_a_non_list_body): any other empty answer
\* means no evidence.
SilenceMeansSpent ==
  at = "done" /\ spent < limit =>
    /\ found \subseteq matches
    /\ \A s \in matches : s \in found \/ <<"search", s>> \in misshapen
    /\ \A p \in Paths :
         commits[p] > 0 => churn[p].count > 0 \/ <<"list", p>> \in misshapen

\* Every search ends in evidence, an error or an exception, whatever is pushed
\* meanwhile.
EverySearchEnds == <>(at \in {"done", "failed", "raised"})
=============================================================================
