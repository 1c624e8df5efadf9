------------------------------ MODULE DocsSearch ------------------------------
(***************************************************************************)
(* One search_design_docs: a request to the docs host, then the pages it   *)
(* answered with are cut into passages and the best passages are cited.    *)
(* Only the request is awaited; a later step is one round of a loop.       *)
(*                                                                         *)
(* A paragraph is given by where its sentences end in the collapsed text,  *)
(* and by which of them share a term with the query.                       *)
(***************************************************************************)
EXTENDS Integers, Sequences

CONSTANTS
  MaxChars,    \* DEFAULT_MAX_CHARS
  MaxResults,  \* the connector's max_results
  PageLimit,   \* the provider's page_limit
  NoLimit,     \* the limit of a call that names none
  Limits,      \* bound: the limits a call names
  Answers,     \* bound: what the host has for a query, in its order
  MaxScore     \* bound: scores told apart

Paragraph ==
  {p \in [ends : Seq(Nat), hits : SUBSET Nat] :
     p.ends # <<>> /\ p.hits \subseteq DOMAIN p.ends}

\* A result is citable when it has a title and a link.
Result == [url : Nat, citable : BOOLEAN, text : Seq(Paragraph)]

ASSUME DocsAssumption ==
  /\ MaxChars \in Nat \ {0}
  /\ MaxResults \in Nat \ {0}
  /\ PageLimit \in Nat \ {0}
  /\ NoLimit \notin Int
  /\ Limits \subseteq Int \cup {NoLimit}
  /\ Answers \subseteq Seq(Result)
  /\ MaxScore \in Nat \ {0}

VARIABLES
  call,      \* the ToolCall
  stage,     \* what the connector does next
  answer,    \* the host: what it has for the query, in its order
  pages,     \* the DocPages fetched
  cursor,    \* where the loop over results, and then chunk_page, is
  chunks,    \* the passages of each page; ordinal is the place, from 0
  score,     \* BM25, once the passages are indexed
  evidence   \* the passages cited, best first

lookupVars == <<call, stage, answer, pages, cursor, chunks, score, evidence>>

\* No string, a blank one, one without [a-z0-9], one with terms.
Queries == {"none", "blank", "wordless", "words"}

Call == [mine : BOOLEAN, query : Queries, limit : Limits]

LookupStages == {"called", "fetch", "chunk", "rank", "done", "error", "raised"}

\* The sentence next of a paragraph comes next; from..next-1 is the piece
\* being packed (current).
Cursor == [page : Nat, par : Nat, from : Nat, next : Nat]
AtPage(i) == [page |-> i, par |-> 1, from |-> 1, next |-> 1]
AtPar(i, j) == [AtPage(i) EXCEPT !.par = j]

\* Sentences from..to of a paragraph.
Piece == [par : Nat, from : Nat, to : Nat]

LookupInit ==
  /\ call \in Call
  /\ stage = "called"
  /\ answer \in Answers
  /\ pages = <<>>
  /\ cursor = AtPage(1)
  /\ chunks = <<>>
  /\ score = <<>>
  /\ evidence = <<>>

-----------------------------------------------------------------------------
\* run, search and fetch.

FirstOf(s, n) == SubSeq(s, 1, IF n < Len(s) THEN n ELSE Len(s))

\* The passages to return.
Wanted == IF call.limit = NoLimit THEN MaxResults ELSE call.limit

Acceptable == call.mine /\ call.query \notin {"none", "blank"} /\ Wanted > 0

\* A ToolError before anything is asked.
RefuseCall ==
  /\ stage = "called"
  /\ ~ Acceptable
  /\ stage' = "error"
  /\ UNCHANGED <<call, answer, pages, cursor, chunks, score, evidence>>

\* The limit asked of the host.
HostLimit ==
  LET n == IF Wanted < PageLimit THEN Wanted ELSE PageLimit
  IN  IF n < 1 THEN 1 ELSE n

FetchAnswered ==
  /\ stage = "called"
  /\ Acceptable
  /\ stage' = "fetch"
  /\ UNCHANGED <<call, answer, pages, cursor, chunks, score, evidence>>

Received == FirstOf(answer, HostLimit)

\* _page_from_confluence: a result that cannot be cited is no page.
MapResult ==
  /\ stage = "fetch"
  /\ cursor.page <= Len(Received)
  /\ LET result == Received[cursor.page]
     IN  pages' = IF result.citable THEN Append(pages, result) ELSE pages
  /\ cursor' = AtPage(cursor.page + 1)
  /\ UNCHANGED <<call, stage, answer, chunks, score, evidence>>

\* pages[:limit]
Fetched ==
  /\ stage = "fetch"
  /\ cursor.page > Len(Received)
  /\ pages' = FirstOf(pages, Wanted)
  /\ chunks' = [i \in DOMAIN pages' |-> <<>>]
  /\ cursor' = AtPage(1)
  /\ stage' = "chunk"
  /\ UNCHANGED <<call, answer, score, evidence>>

\* Variant: an unreachable host has nothing on the query.
FetchFailsSilently(outcome) ==
  /\ stage = "called"
  /\ Acceptable
  /\ stage' = "done"
  /\ UNCHANGED <<call, answer, pages, cursor, chunks, score, evidence>>

\* Timeout, HTTP status, transport error or no JSON: a ToolError.  JSON of
\* another shape (payload is no object): the call raises.
FetchFails(outcome) ==
  /\ stage = "called"
  /\ Acceptable
  /\ stage' = outcome
  /\ UNCHANGED <<call, answer, pages, cursor, chunks, score, evidence>>

-----------------------------------------------------------------------------
\* chunk_page.

Here == pages[cursor.page].text[cursor.par]
InPage == cursor.page \in DOMAIN pages
InText == InPage /\ cursor.par \in DOMAIN pages[cursor.page].text

Sentences(p) == Len(p.ends)

\* Where a sentence starts, and the length of sentences from..to.
Start(p, k) == IF k = 1 THEN 0 ELSE p.ends[k-1] + 1
Size(p, from, to) == p.ends[to] - Start(p, from)

\* len(collapsed) <= max_chars
IsShort(p) == Size(p, 1, Sentences(p)) <= MaxChars

\* Sentences from..to become the page's next passage.
AddPassage(from, to) ==
  chunks' = [chunks EXCEPT ![cursor.page] =
               Append(@, [par |-> cursor.par, from |-> from, to |-> to])]

TakeWhole ==
  /\ stage = "chunk"
  /\ InText /\ IsShort(Here)
  /\ AddPassage(1, Sentences(Here))
  /\ cursor' = AtPar(cursor.page, cursor.par + 1)
  /\ UNCHANGED <<call, stage, answer, pages, score, evidence>>

\* Variant: the space between two sentences is not counted.
JoinsTightly ==
  cursor.from < cursor.next =>
    Size(Here, cursor.from, cursor.next - 1)
      + Size(Here, cursor.next, cursor.next) <= MaxChars

\* The sentence joins the piece: the piece is empty or has room.
Joins ==
  cursor.from < cursor.next =>
    Size(Here, cursor.from, cursor.next - 1) + 1
      + Size(Here, cursor.next, cursor.next) <= MaxChars

InSentences ==
  stage = "chunk" /\ InText /\ ~ IsShort(Here) /\ cursor.next <= Sentences(Here)

JoinSentence ==
  /\ InSentences
  /\ Joins
  /\ cursor' = [cursor EXCEPT !.next = @ + 1]
  /\ UNCHANGED <<call, stage, answer, pages, chunks, score, evidence>>

\* Variant: the sentence that did not fit is lost.
CutAndSkip ==
  /\ InSentences
  /\ ~ Joins
  /\ AddPassage(cursor.from, cursor.next - 1)
  /\ cursor' = [cursor EXCEPT !.from = cursor.next + 1, !.next = @ + 1]
  /\ UNCHANGED <<call, stage, answer, pages, score, evidence>>

\* The piece is full: the sentence starts another.
CutPiece ==
  /\ InSentences
  /\ ~ Joins
  /\ AddPassage(cursor.from, cursor.next - 1)
  /\ cursor' = [cursor EXCEPT !.from = cursor.next, !.next = @ + 1]
  /\ UNCHANGED <<call, stage, answer, pages, score, evidence>>

\* chunks.append(current) after the loop.
LastPiece ==
  /\ stage = "chunk"
  /\ InText /\ ~ IsShort(Here) /\ cursor.next > Sentences(Here)
  /\ AddPassage(cursor.from, Sentences(Here))
  /\ cursor' = AtPar(cursor.page, cursor.par + 1)
  /\ UNCHANGED <<call, stage, answer, pages, score, evidence>>

\* Variant: a page without text is not passed over.
EndPageWithText ==
  /\ stage = "chunk"
  /\ InPage /\ ~ InText
  /\ cursor' = IF chunks[cursor.page] = <<>> THEN cursor
               ELSE AtPage(cursor.page + 1)
  /\ UNCHANGED <<call, stage, answer, pages, chunks, score, evidence>>

EndText ==
  /\ stage = "chunk"
  /\ InPage /\ ~ InText
  /\ cursor' = AtPage(cursor.page + 1)
  /\ UNCHANGED <<call, stage, answer, pages, chunks, score, evidence>>

-----------------------------------------------------------------------------
\* Bm25Index and rank.

\* A passage: a page and a place on it.
Passages == UNION {{<<i, k>> : k \in DOMAIN chunks[i]} : i \in DOMAIN chunks}

Url(p) == pages[p[1]].url

\* The passage shares a term with the query.
Scores(p) ==
  LET c == chunks[p[1]][p[2]]
  IN  /\ call.query = "words"
      /\ pages[p[1]].text[c.par].hits \cap c.from..c.to # {}

Matching == {p \in Passages : Scores(p)}

\* Only a passage that scores is a hit.  What BM25 makes of it is left open.
Index ==
  /\ stage = "chunk"
  /\ ~ InPage
  /\ \E s \in [Matching -> 1..MaxScore] : score' = s
  /\ stage' = "rank"
  /\ UNCHANGED <<call, answer, pages, cursor, chunks, evidence>>

Cited == {evidence[n] : n \in DOMAIN evidence}
Left == DOMAIN score \ Cited

\* Variant: equal scores stay in the order of the host.
BeforeInHostOrder(p, q) ==
  \/ score[p] > score[q]
  \/ score[p] = score[q] /\ (p[1] < q[1] \/ (p[1] = q[1] /\ p[2] <= q[2]))

\* The sort key: score, url, ordinal; equal keys stay in their order.
Before(p, q) ==
  \/ score[p] > score[q]
  \/ /\ score[p] = score[q]
     /\ \/ Url(p) < Url(q)
        \/ /\ Url(p) = Url(q)
           /\ p[2] < q[2] \/ (p[2] = q[2] /\ p[1] <= q[1])

\* Variant: one passage more than wanted.
CiteOneMore ==
  /\ stage = "rank"
  /\ Len(evidence) <= Wanted
  /\ \E p \in Left :
       /\ \A q \in Left : Before(p, q)
       /\ evidence' = Append(evidence, p)
  /\ UNCHANGED <<call, stage, answer, pages, cursor, chunks, score>>

\* The next passage of the sorted hits.
Cite ==
  /\ stage = "rank"
  /\ Len(evidence) < Wanted
  /\ \E p \in Left :
       /\ \A q \in Left : Before(p, q)
       /\ evidence' = Append(evidence, p)
  /\ UNCHANGED <<call, stage, answer, pages, cursor, chunks, score>>

\* hits[:limit] is complete.
Answered ==
  /\ stage = "rank"
  /\ Left = {} \/ Len(evidence) >= Wanted
  /\ stage' = "done"
  /\ UNCHANGED <<call, answer, pages, cursor, chunks, score, evidence>>

-----------------------------------------------------------------------------
LookupNext ==
  \/ RefuseCall
  \/ FetchAnswered
  \/ MapResult
  \/ Fetched
  \/ \E outcome \in {"error", "raised"} : FetchFails(outcome)
  \/ TakeWhole
  \/ JoinSentence
  \/ CutPiece
  \/ LastPiece
  \/ EndText
  \/ Index
  \/ Cite
  \/ Answered

LookupSpec == LookupInit /\ [][LookupNext]_lookupVars

\* The request ends: the client has a timeout.
FairLookup == LookupSpec /\ WF_lookupVars(LookupNext)

-----------------------------------------------------------------------------
\* Properties.

\* Types; no more pages are read and no more passages cited than were wanted.
LookupTypeOK ==
  /\ call \in Call
  /\ stage \in LookupStages
  /\ answer \in Seq(Result)
  /\ pages \in Seq(Result)
  /\ cursor \in Cursor
  /\ chunks \in [DOMAIN chunks -> Seq(Piece)]
  /\ DOMAIN chunks = IF stage \in {"chunk", "rank", "done"} THEN DOMAIN pages ELSE {}
  /\ score \in [DOMAIN score -> 1..MaxScore]
  /\ DOMAIN score \subseteq Passages
  /\ evidence \in Seq(Passages)
  /\ pages # <<>> => Len(pages) <= Wanted
  /\ evidence # <<>> => Len(evidence) <= Wanted

\* Once a page has been cut up, its passages hold every sentence of its text
\* exactly once and in order: no decision is lost between two passages
\* (retrieval.py, "ordered, non-empty passages").
SentencesKept ==
  stage \in {"rank", "done"} =>
    \A i \in DOMAIN pages :
      /\ \A j \in DOMAIN pages[i].text :
           \A s \in 1..Sentences(pages[i].text[j]) :
             \E k \in DOMAIN chunks[i] :
               LET c == chunks[i][k] IN c.par = j /\ s \in c.from..c.to
      /\ \A k, l \in DOMAIN chunks[i] :
           k < l => LET c == chunks[i][k]
                        d == chunks[i][l]
                    IN  c.par < d.par \/ (c.par = d.par /\ c.to < d.from)

\* A passage is at most MaxChars long unless it is a single sentence, and it is
\* not cut too early: the next sentence of its paragraph did not fit.
PassagesPacked ==
  \A i \in DOMAIN chunks : \A k \in DOMAIN chunks[i] :
    LET c == chunks[i][k]
        p == pages[i].text[c.par]
    IN  /\ c.from <= c.to
        /\ c.from = c.to \/ Size(p, c.from, c.to) <= MaxChars
        /\ c.to < Sentences(p) => Size(p, c.from, c.to + 1) > MaxChars

\* The evidence is the best there is, as much as was wanted, and does not depend
\* on the order the host answered in (models.py: "ties in the ranker break
\* deterministically (by page URL, then ordinal)").
EvidenceIsBest ==
  stage = "done" =>
    /\ Left # {} => Len(evidence) = Wanted
    /\ \A n \in DOMAIN evidence :
         \A q \in Left \cup {evidence[m] : m \in n+1..Len(evidence)} :
           LET p == evidence[n] IN
             /\ p # q
             /\ score[p] >= score[q]
             /\ score[p] = score[q] =>
                  /\ Url(p) <= Url(q)
                  /\ p[1] = q[1] => p[2] < q[2]

\* An answer without evidence means nothing was found: no page the host was
\* asked for, and that can be cited, shares a term with the query.  A failure is
\* never taken for that (connector.py: "surfaced rather than silently read as
\* 'nothing was decided about this'").
SilenceMeansNoHit ==
  stage = "done" /\ evidence = <<>> /\ call.query = "words" =>
    \A n \in 1..HostLimit :
      n \in DOMAIN answer /\ answer[n].citable =>
        \A j \in DOMAIN answer[n].text : answer[n].text[j].hits = {}

\* Every call comes to an end, whatever the pages look like.
EveryLookupEnds == <>(stage \in {"done", "error", "raised"})
=============================================================================
