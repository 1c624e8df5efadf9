--------------------------- MODULE DocsSearchProofs ---------------------------
(***************************************************************************)
(* Proofs about DocsSearch, for every text, every limit and every score.   *)
(*                                                                         *)
(* The passages are right because everything before the cursor is in one   *)
(* of them, everything in one of them is before the cursor, and the piece  *)
(* being packed fits. The evidence is right because what is left to cite   *)
(* always ranks behind what has been cited. A lookup ends because each     *)
(* step moves the cursor on or cites one passage more.                     *)
(***************************************************************************)
EXTENDS DocsSearch, SequenceTheorems, TLAPS

Chunked == stage \in {"chunk", "rank", "done"}

\* Results that were looked at and can be cited are pages.
ResultsKept ==
  /\ stage = "called" => cursor = AtPage(1) /\ pages = <<>>
  /\ stage = "fetch" => /\ cursor.page \in 1..Len(Received) + 1
                        /\ Len(pages) < cursor.page
  /\ stage = "fetch" \/ Chunked =>
       /\ Acceptable
       /\ \A n \in DOMAIN Received :
            (stage = "fetch" => n < cursor.page) /\ Received[n].citable =>
              \E i \in DOMAIN pages : pages[i] = Received[n]

\* The cursor is inside a text, and the piece being packed fits.
CursorOK ==
  stage = "chunk" =>
    /\ cursor.page \in 1..Len(pages) + 1
    /\ cursor.par >= 1 /\ cursor.from >= 1
    /\ InPage => cursor.par <= Len(pages[cursor.page].text) + 1
    /\ cursor.from = cursor.next => cursor = AtPar(cursor.page, cursor.par)
    /\ cursor.from # cursor.next =>
         /\ InText /\ ~ IsShort(Here)
         /\ cursor.from < cursor.next /\ cursor.next <= Sentences(Here) + 1
         /\ \/ cursor.from = cursor.next - 1
            \/ Size(Here, cursor.from, cursor.next - 1) <= MaxChars

\* Sentence s of paragraph j of page i comes before the cursor.
Passed(i, j, s) ==
  stage = "chunk" =>
    \/ i < cursor.page
    \/ /\ i = cursor.page
       /\ j < cursor.par \/ (j = cursor.par /\ s < cursor.from)

\* Passage c is made of sentences of page i that were passed.
PieceOK(i, c) ==
  LET p == pages[i].text[c.par]
  IN  /\ c.par \in DOMAIN pages[i].text
      /\ c.from \in 1..c.to
      /\ c.to <= Sentences(p)
      /\ Passed(i, c.par, c.to)
      /\ c.from = c.to \/ Size(p, c.from, c.to) <= MaxChars
      /\ c.to < Sentences(p) => Size(p, c.from, c.to + 1) > MaxChars

PiecesOK == \A i \in DOMAIN chunks : \A k \in DOMAIN chunks[i] : PieceOK(i, chunks[i][k])

InOrder(c, d) == c.par < d.par \/ (c.par = d.par /\ c.to < d.from)

PiecesOrdered ==
  \A i \in DOMAIN chunks : \A k, l \in DOMAIN chunks[i] :
    k < l => InOrder(chunks[i][k], chunks[i][l])

Holds(i, j, s) ==
  \E k \in DOMAIN chunks[i] : chunks[i][k].par = j /\ s \in chunks[i][k].from..chunks[i][k].to

\* Nothing that was passed is lost.
PassedKept ==
  Chunked =>
    \A i \in DOMAIN pages : \A j \in DOMAIN pages[i].text :
      \A s \in 1..Sentences(pages[i].text[j]) :
        Passed(i, j, s) => Holds(i, j, s)

\* p ranks ahead of q.
Ahead(p, q) ==
  /\ p # q
  /\ score[p] >= score[q]
  /\ score[p] = score[q] =>
       /\ Url(p) <= Url(q)
       /\ p[1] = q[1] => p[2] < q[2]

RankOK ==
  /\ stage \in {"rank", "done"} => /\ cursor.page \notin DOMAIN pages
                                   /\ DOMAIN score = Matching
  /\ stage \notin {"rank", "done"} => evidence = <<>> /\ DOMAIN score = {}
  /\ \A n \in DOMAIN evidence :
       /\ evidence[n] \in DOMAIN score
       /\ \A q \in Left : Ahead(evidence[n], q)
       /\ \A m \in n+1..Len(evidence) : Ahead(evidence[n], evidence[m])
  /\ stage = "done" => Left = {} \/ Len(evidence) = Wanted

DocsInv ==
  /\ LookupTypeOK
  /\ ResultsKept
  /\ CursorOK
  /\ PiecesOK
  /\ PiecesOrdered
  /\ PassedKept
  /\ RankOK

-----------------------------------------------------------------------------
\* The limits.

LEMMA FirstOfSeq ==
  ASSUME NEW S, NEW s \in Seq(S), NEW n \in Nat
  PROVE  /\ FirstOf(s, n) \in Seq(S)
         /\ Len(FirstOf(s, n)) <= n
         /\ Len(s) <= n => FirstOf(s, n) = s
         /\ DOMAIN FirstOf(s, n) \subseteq DOMAIN s
         /\ \A k \in DOMAIN FirstOf(s, n) : FirstOf(s, n)[k] = s[k]
         /\ \A k \in DOMAIN s : k <= n => k \in DOMAIN FirstOf(s, n)
BY DEF FirstOf

LEMMA Limited ==
  ASSUME call \in Call
  PROVE  /\ Acceptable => Wanted \in Nat \ {0}
         /\ Acceptable => HostLimit \in Nat \ {0} /\ HostLimit <= Wanted
<1>1. Wanted \in Int
  <2>1. CASE call.limit = NoLimit
    BY <2>1, DocsAssumption DEF Wanted
  <2>2. CASE call.limit # NoLimit
    BY <2>2, DocsAssumption DEF Wanted, Call
  <2>3. QED
    BY <2>1, <2>2
<1>2. PageLimit \in Nat \ {0}
  BY DocsAssumption
<1>3. QED
  BY <1>1, <1>2 DEF Acceptable, HostLimit

LEMMA ReceivedOK ==
  ASSUME LookupTypeOK, Acceptable
  PROVE  /\ Received \in Seq(Result)
         /\ Len(Received) \in Nat
         /\ Len(Received) <= Wanted
         /\ \A n \in DOMAIN Received : Received[n] \in Result
         /\ \A n \in DOMAIN answer : n <= HostLimit =>
              n \in DOMAIN Received /\ Received[n] = answer[n]
<1>1. HostLimit \in Nat /\ HostLimit <= Wanted /\ Wanted \in Nat
  BY Limited DEF LookupTypeOK
<1>2. answer \in Seq(Result)
  BY DEF LookupTypeOK
<1>3. QED
  BY <1>1, <1>2, FirstOfSeq DEF Received

\* A call keeps its arguments, and the host its documents.
LEMMA CallFixed ==
  ASSUME LookupNext
  PROVE  /\ UNCHANGED <<call, answer>>
         /\ Wanted' = Wanted
         /\ Acceptable' = Acceptable
         /\ Received' = Received
<1>1. UNCHANGED <<call, answer>>
  BY DEF LookupNext, RefuseCall, FetchAnswered, MapResult, Fetched, FetchFails,
         TakeWhole, JoinSentence, CutPiece, LastPiece, EndText, Index, Cite,
         Answered
<1>2. QED
  BY <1>1 DEF Wanted, Acceptable, Received, HostLimit

LEMMA TextTyped ==
  ASSUME LookupTypeOK, NEW i \in DOMAIN pages
  PROVE  /\ i \in Nat \ {0}
         /\ pages[i].text \in Seq(Paragraph)
         /\ Len(pages[i].text) \in Nat
         /\ DOMAIN pages[i].text = 1..Len(pages[i].text)
         /\ \A j \in DOMAIN pages[i].text :
              LET p == pages[i].text[j]
              IN  /\ j \in Nat \ {0}
                  /\ p.ends \in Seq(Nat)
                  /\ Sentences(p) \in Nat \ {0}
                  /\ p.hits \subseteq 1..Sentences(p)
<1>1. pages[i].text \in Seq(Paragraph) /\ i \in Nat \ {0}
  <2>1. pages \in Seq(Result)
    BY DEF LookupTypeOK
  <2>2. pages[i] \in Result /\ i \in Nat \ {0}
    BY <2>1
  <2>3. QED
    BY <2>2 DEF Result
<1>2. ASSUME NEW p \in Paragraph
      PROVE  /\ p.ends \in Seq(Nat)
             /\ Sentences(p) \in Nat \ {0}
             /\ p.hits \subseteq 1..Sentences(p)
  <2>1. p.ends \in Seq(Nat) /\ p.ends # <<>> /\ p.hits \subseteq DOMAIN p.ends
    BY DEF Paragraph
  <2>2. QED
    BY <2>1 DEF Sentences
<1>3. QED
  BY <1>1, <1>2

LEMMA InitDocs == LookupInit => DocsInv
<1> SUFFICES ASSUME LookupInit PROVE DocsInv
  OBVIOUS
<1>1. answer \in Seq(Result)
  BY DocsAssumption DEF LookupInit
<1>2. LookupTypeOK
  BY <1>1 DEF LookupInit, LookupTypeOK, LookupStages, AtPage, Cursor, Passages
<1>3. ResultsKept /\ CursorOK /\ PiecesOK /\ PiecesOrdered /\ PassedKept
  BY DEF LookupInit, ResultsKept, CursorOK, PiecesOK, PiecesOrdered,
         PassedKept, Chunked
<1>4. RankOK
  BY DEF LookupInit, RankOK
<1>5. QED
  BY <1>2, <1>3, <1>4 DEF DocsInv

-----------------------------------------------------------------------------
\* The request.

\* A step that keeps the pages, the passages and the cursor.
LEMMA StillThere ==
  ASSUME DocsInv, LookupNext, UNCHANGED <<pages, cursor, chunks, stage>>
  PROVE  ResultsKept' /\ CursorOK' /\ PiecesOK' /\ PiecesOrdered' /\ PassedKept'
<1> USE CallFixed DEF DocsInv
<1>1. ResultsKept'
  BY DEF ResultsKept, Chunked
<1>2. CursorOK'
  BY DEF CursorOK, InPage, InText, Here
<1>3. PiecesOK' /\ PiecesOrdered'
  BY DEF PiecesOK, PieceOK, Passed, PiecesOrdered
<1>4. PassedKept'
  BY DEF PassedKept, Chunked, Passed, Holds
<1>5. QED
  BY <1>1, <1>2, <1>3, <1>4

LEMMA CalledKeeps ==
  ASSUME DocsInv, LookupNext,
         RefuseCall \/ FetchAnswered \/ \E o \in {"error", "raised"} : FetchFails(o)
  PROVE  DocsInv'
<1>1. /\ stage = "called" /\ stage' \in {"error", "raised", "fetch"}
      /\ stage' = "fetch" => Acceptable
      /\ UNCHANGED <<call, answer, pages, cursor, chunks, score, evidence>>
  BY DEF RefuseCall, FetchAnswered, FetchFails
<1> USE <1>1, CallFixed
<1>2. LookupTypeOK'
  BY DEF DocsInv, LookupTypeOK, LookupStages, Passages
<1>3. ResultsKept'
  <2>1. stage' = "fetch" => Len(Received) \in Nat
    BY ReceivedOK DEF DocsInv
  <2>2. pages = <<>> /\ cursor.page = 1
    BY DEF DocsInv, ResultsKept, AtPage
  <2>3. QED
    BY <2>1, <2>2 DEF ResultsKept, Chunked
<1>4. CursorOK' /\ PassedKept'
  BY DEF CursorOK, PassedKept, Chunked
<1>5. PiecesOK' /\ PiecesOrdered'
  <2>1. DOMAIN chunks = {}
    BY DEF DocsInv, LookupTypeOK
  <2>2. QED
    BY <2>1 DEF PiecesOK, PiecesOrdered
<1>6. RankOK'
  BY DEF DocsInv, RankOK, Left, Cited
<1>7. QED
  BY <1>2, <1>3, <1>4, <1>5, <1>6 DEF DocsInv

LEMMA MapKeeps ==
  ASSUME DocsInv, LookupNext, MapResult
  PROVE  DocsInv'
<1> DEFINE n == cursor.page
<1>1. /\ stage = "fetch" /\ n <= Len(Received)
      /\ pages' = IF Received[n].citable THEN Append(pages, Received[n]) ELSE pages
      /\ cursor' = AtPage(n + 1)
      /\ UNCHANGED <<call, stage, answer, chunks, score, evidence>>
  BY DEF MapResult
<1>2. /\ n \in 1..Len(Received) /\ Len(pages) < n /\ pages \in Seq(Result)
      /\ Len(pages) \in Nat
      /\ Acceptable /\ LookupTypeOK
  BY <1>1, ReceivedOK DEF DocsInv, ResultsKept, LookupTypeOK
<1>3. /\ Received \in Seq(Result) /\ Len(Received) \in Nat /\ n \in DOMAIN Received
      /\ Len(Received) <= Wanted /\ Wanted \in Nat
      /\ Received[n] \in Result
  BY <1>2, ReceivedOK, Limited DEF LookupTypeOK
<1>4. /\ pages' \in Seq(Result) /\ Len(pages') <= n
      /\ \A i \in DOMAIN pages : i \in DOMAIN pages' /\ pages'[i] = pages[i]
      /\ Received[n].citable => \E i \in DOMAIN pages' : pages'[i] = Received[n]
  <2>1. CASE Received[n].citable
    <3>1. Len(pages) + 1 \in DOMAIN pages' /\ pages'[Len(pages) + 1] = Received[n]
      BY <1>1, <1>2, <1>3, <2>1
    <3>2. QED
      BY <1>1, <1>2, <1>3, <2>1, <3>1
  <2>2. CASE ~ Received[n].citable
    BY <1>1, <1>2, <2>2
  <2>3. QED
    BY <2>1, <2>2
<1>5. LookupTypeOK'
  <2>1. cursor' \in Cursor
    BY <1>1, <1>2 DEF AtPage, Cursor
  <2>2. Passages' = Passages
    BY <1>1 DEF Passages
  <2>3. Len(pages') <= Wanted' /\ Wanted' = Wanted
    BY <1>2, <1>3, <1>4, CallFixed
  <2>4. QED
    BY <1>1, <1>2, <1>4, <2>1, <2>2, <2>3 DEF LookupTypeOK
<1>6. ResultsKept'
  <2>1. cursor'.page = n + 1
    BY <1>1 DEF AtPage
  <2>2. \A k \in DOMAIN Received : k < n + 1 /\ Received[k].citable =>
          \E i \in DOMAIN pages' : pages'[i] = Received[k]
    <3> SUFFICES ASSUME NEW k \in DOMAIN Received, k < n + 1, Received[k].citable
                 PROVE  \E i \in DOMAIN pages' : pages'[i] = Received[k]
      OBVIOUS
    <3>1. k \in Nat /\ n \in Nat
      BY <1>2, <1>3
    <3>2. CASE k = n
      BY <1>4, <3>2
    <3>3. CASE k < n
      <4>1. PICK i \in DOMAIN pages : pages[i] = Received[k]
        BY <1>1, <3>3 DEF DocsInv, ResultsKept
      <4>2. QED
        BY <1>4, <4>1
    <3>4. QED
      BY <3>1, <3>2, <3>3
  <2>3. Len(pages') < n + 1 /\ n + 1 \in 1..Len(Received) + 1
    BY <1>2, <1>3, <1>4
  <2>4. QED
    BY <1>1, <1>2, <2>1, <2>2, <2>3, CallFixed DEF ResultsKept, Chunked
<1>7. CursorOK' /\ PassedKept'
  BY <1>1 DEF CursorOK, PassedKept, Chunked
<1>8. PiecesOK' /\ PiecesOrdered'
  <2>1. DOMAIN chunks' = {}
    BY <1>1 DEF DocsInv, LookupTypeOK
  <2>2. QED
    BY <2>1 DEF PiecesOK, PiecesOrdered
<1>9. RankOK'
  BY <1>1 DEF DocsInv, RankOK, Left, Cited
<1>10. QED
  BY <1>5, <1>6, <1>7, <1>8, <1>9 DEF DocsInv

LEMMA FetchedKeeps ==
  ASSUME DocsInv, LookupNext, Fetched
  PROVE  DocsInv'
<1>1. /\ stage = "fetch" /\ stage' = "chunk" /\ cursor.page > Len(Received)
      /\ pages' = FirstOf(pages, Wanted)
      /\ chunks' = [i \in DOMAIN pages' |-> <<>>]
      /\ cursor' = AtPage(1)
      /\ UNCHANGED <<call, answer, score, evidence>>
  BY DEF Fetched
<1>2. /\ cursor.page = Len(Received) + 1 /\ Len(pages) < cursor.page
      /\ pages \in Seq(Result) /\ Acceptable /\ LookupTypeOK
      /\ Len(Received) \in Nat /\ Len(Received) <= Wanted /\ Wanted \in Nat
  BY <1>1, ReceivedOK, Limited DEF DocsInv, ResultsKept, LookupTypeOK
<1>3. pages' = pages
  BY <1>1, <1>2, FirstOfSeq
<1>4. Passages' = {} /\ DOMAIN score = {} /\ evidence = <<>>
  <2>1. Passages' = {}
    BY <1>1 DEF Passages
  <2>2. DOMAIN chunks = {}
    BY <1>1 DEF DocsInv, LookupTypeOK
  <2>3. Passages = {}
    BY <2>2 DEF Passages
  <2>4. QED
    BY <1>1, <2>1, <2>3 DEF DocsInv, LookupTypeOK, RankOK
<1>5. LookupTypeOK'
  <2>1. cursor' \in Cursor
    BY <1>1 DEF AtPage, Cursor
  <2>2. chunks' \in [DOMAIN chunks' -> Seq(Piece)] /\ DOMAIN chunks' = DOMAIN pages'
    BY <1>1
  <2>3. call' \in Call /\ answer' \in Seq(Result) /\ pages' \in Seq(Result)
        /\ stage' \in LookupStages
    BY <1>1, <1>2, <1>3 DEF LookupTypeOK, LookupStages
  <2>4. pages' # <<>> => Len(pages') <= Wanted'
    BY <1>2, <1>3, CallFixed
  <2>5. /\ score' \in [DOMAIN score' -> 1..MaxScore]
        /\ DOMAIN score' \subseteq Passages'
        /\ evidence' \in Seq(Passages')
        /\ evidence' = <<>>
    BY <1>1, <1>4 DEF DocsInv, LookupTypeOK
  <2>6. QED
    BY <1>1, <2>1, <2>2, <2>3, <2>4, <2>5 DEF LookupTypeOK
<1>6. ResultsKept'
  <2>1. \A k \in DOMAIN Received : k < cursor.page
    BY <1>2, ReceivedOK
  <2>2. QED
    BY <1>1, <1>2, <1>3, <2>1, CallFixed DEF DocsInv, ResultsKept, Chunked
<1>7. CursorOK'
  <2>1. /\ cursor' = AtPar(1, 1) /\ cursor'.page = 1 /\ cursor'.par = 1
        /\ cursor'.from = 1 /\ cursor'.next = 1
    BY <1>1 DEF AtPage, AtPar
  <2>2. \A i \in DOMAIN pages : Len(pages[i].text) \in Nat
    BY <1>2 DEF Result
  <2>3. InPage' => 1 <= Len(pages'[1].text) + 1
    BY <1>3, <2>1, <2>2 DEF InPage
  <2>4. 1 \in 1..Len(pages') + 1
    BY <1>2, <1>3
  <2>5. QED
    BY <2>1, <2>3, <2>4 DEF CursorOK, AtPar, AtPage
<1>8. PiecesOK' /\ PiecesOrdered'
  BY <1>1 DEF PiecesOK, PiecesOrdered
<1>9. PassedKept'
  <2> SUFFICES ASSUME NEW i \in DOMAIN pages, NEW j \in DOMAIN pages[i].text,
                      NEW s \in 1..Sentences(pages[i].text[j])
               PROVE  ~ Passed(i, j, s)'
    BY <1>3 DEF PassedKept
  <2>1. i \in Nat /\ i >= 1 /\ j \in Nat /\ j >= 1 /\ s >= 1 /\ s \in Int
    BY <1>2, TextTyped
  <2>2. QED
    BY <1>1, <2>1 DEF Passed, AtPage
<1>10. RankOK'
  BY <1>1, <1>4 DEF RankOK, Left
<1>11. QED
  BY <1>5, <1>6, <1>7, <1>8, <1>9, <1>10 DEF DocsInv

-----------------------------------------------------------------------------
\* Cutting up a text.

\* What the cursor is in.
LEMMA CursorTyped ==
  ASSUME LookupTypeOK
  PROVE  /\ cursor.page \in Nat /\ cursor.par \in Nat
         /\ cursor.from \in Nat /\ cursor.next \in Nat
         /\ InText => /\ Here.ends \in Seq(Nat)
                      /\ Sentences(Here) \in Nat \ {0}
<1>1. cursor \in Cursor
  BY DEF LookupTypeOK
<1>2. QED
  BY <1>1, TextTyped DEF Cursor, InText, InPage, Here

LEMMA InTextRange ==
  ASSUME LookupTypeOK, InText
  PROVE  /\ cursor.page \in Nat \ {0} /\ cursor.page <= Len(pages) + 1
         /\ cursor.par + 1 \in Nat \ {0}
         /\ cursor.par + 1 <= Len(pages[cursor.page].text) + 1
<1>1. cursor.page \in DOMAIN pages /\ cursor.par \in DOMAIN pages[cursor.page].text
  BY DEF InText, InPage
<1>2. pages \in Seq(Result)
  BY DEF LookupTypeOK
<1>3. pages[cursor.page].text \in Seq(Paragraph)
  BY <1>1, TextTyped
<1>4. QED
  BY SMTT(30), <1>1, <1>2, <1>3

LEMMA SizeTyped ==
  ASSUME NEW p, p.ends \in Seq(Nat), NEW f \in 1..Sentences(p), NEW t \in 1..Sentences(p)
  PROVE  Size(p, f, t) \in Int /\ Start(p, f) \in Nat
<1>1. p.ends[t] \in Nat /\ (f # 1 => p.ends[f-1] \in Nat)
  BY DEF Sentences
<1>2. QED
  BY <1>1 DEF Size, Start

\* A piece that joins a sentence is as long as the stretch of text they cover.
LEMMA SizesAdd ==
  ASSUME NEW p, p.ends \in Seq(Nat), NEW f \in Nat \ {0}, NEW n \in Nat,
         f < n, n <= Sentences(p)
  PROVE  Size(p, f, n - 1) + 1 + Size(p, n, n) = Size(p, f, n)
<1>1. Sentences(p) \in Nat /\ DOMAIN p.ends = 1..Sentences(p)
  BY DEF Sentences
<1>2. f \in 1..Sentences(p) /\ n \in 1..Sentences(p) /\ n - 1 \in 1..Sentences(p)
  BY <1>1
<1>3. p.ends[n] \in Nat /\ p.ends[n-1] \in Nat /\ Start(p, f) \in Nat
  <2>1. p.ends[n] \in Nat /\ p.ends[n-1] \in Nat
    BY <1>1, <1>2
  <2>2. Start(p, f) \in Nat
    BY <1>2, SizeTyped
  <2>3. QED
    BY <2>1, <2>2
<1>4. Start(p, n) = p.ends[n-1] + 1
  BY DEF Start
<1>5. /\ Size(p, f, n - 1) = p.ends[n-1] - Start(p, f)
      /\ Size(p, n, n) = p.ends[n] - Start(p, n)
      /\ Size(p, f, n) = p.ends[n] - Start(p, f)
  BY DEF Size
<1>6. PICK a \in Nat, b \in Nat, c \in Nat :
        a = p.ends[n-1] /\ b = p.ends[n] /\ c = Start(p, f)
  BY <1>3
<1>7. /\ Size(p, f, n - 1) = a - c /\ Size(p, n, n) = b - (a + 1)
      /\ Size(p, f, n) = b - c
  BY <1>4, <1>5, <1>6
<1>8. QED
  BY <1>7

\* The passage of sentences from..to, which the cursor then leaves behind.
LEMMA PassageAdded ==
  ASSUME DocsInv, LookupNext, stage = "chunk", InText,
         NEW i, i = cursor.page, NEW par, par = cursor.par,
         NEW from \in Nat \ {0}, NEW to \in from..Sentences(Here),
         from = cursor.from,
         AddPassage(from, to),
         UNCHANGED <<stage, pages>>,
         from = to \/ Size(Here, from, to) <= MaxChars,
         to < Sentences(Here) => Size(Here, from, to + 1) > MaxChars,
         cursor' \in Cursor,
         cursor'.page = cursor.page,
         \/ /\ cursor'.par = cursor.par + 1
            /\ cursor'.from = 1
            /\ to = Sentences(Here)
         \/ /\ cursor'.par = cursor.par
            /\ cursor'.from = to + 1
  PROVE  /\ chunks' \in [DOMAIN chunks -> Seq(Piece)]
         /\ PiecesOK' /\ PiecesOrdered' /\ PassedKept'
<1> DEFINE new == [par |-> par, from |-> from, to |-> to]
<1>1. /\ LookupTypeOK /\ DOMAIN chunks = DOMAIN pages /\ i \in DOMAIN chunks
      /\ chunks[i] \in Seq(Piece) /\ Len(chunks[i]) \in Nat
      /\ i \in Nat /\ par \in Nat /\ cursor.from \in Nat
      /\ Sentences(Here) \in Nat \ {0}
      /\ par \in DOMAIN pages[i].text
  <2>1. LookupTypeOK /\ i \in DOMAIN pages /\ par \in DOMAIN pages[i].text
    BY DEF DocsInv, InText, InPage
  <2>2. DOMAIN chunks = DOMAIN pages /\ chunks \in [DOMAIN chunks -> Seq(Piece)]
    BY <2>1 DEF LookupTypeOK
  <2>3. chunks[i] \in Seq(Piece)
    BY <2>1, <2>2
  <2>4. QED
    BY <2>1, <2>2, <2>3, CursorTyped
<1>2. /\ DOMAIN chunks' = DOMAIN chunks
      /\ chunks'[i] = Append(chunks[i], new)
      /\ \A m \in DOMAIN chunks : m # i => chunks'[m] = chunks[m]
  BY <1>1 DEF AddPassage
<1>3. new \in Piece
  BY <1>1 DEF Piece
<1>4. chunks' \in [DOMAIN chunks -> Seq(Piece)]
  BY <1>1, <1>3 DEF AddPassage, LookupTypeOK
<1>5. /\ DOMAIN chunks[i] = 1..Len(chunks[i])
      /\ DOMAIN chunks'[i] = 1..Len(chunks[i]) + 1
      /\ \A k \in DOMAIN chunks[i] : chunks'[i][k] = chunks[i][k] /\ k < Len(chunks[i]) + 1
      /\ chunks'[i][Len(chunks[i]) + 1] = new
      /\ \A m \in DOMAIN chunks : \A k \in DOMAIN chunks[m] :
           k \in DOMAIN chunks'[m] /\ chunks'[m][k] = chunks[m][k]
  <2>1. Append(chunks[i], new) \in Seq(Piece)
        /\ Len(Append(chunks[i], new)) = Len(chunks[i]) + 1
        /\ Append(chunks[i], new)[Len(chunks[i]) + 1] = new
        /\ \A k \in 1..Len(chunks[i]) : Append(chunks[i], new)[k] = chunks[i][k]
    BY <1>1, <1>3
  <2>2. DOMAIN chunks[i] = 1..Len(chunks[i])
        /\ DOMAIN chunks'[i] = 1..Len(chunks[i]) + 1
    BY <1>1, <1>2, <2>1
  <2>3. \A k \in DOMAIN chunks[i] : chunks'[i][k] = chunks[i][k] /\ k < Len(chunks[i]) + 1
    BY <1>1, <1>2, <2>1, <2>2
  <2>4. \A k \in DOMAIN chunks[i] : k \in DOMAIN chunks'[i]
    BY <1>1, <2>2
  <2>5. QED
    BY <1>2, <2>1, <2>2, <2>3, <2>4
<1>6. ASSUME NEW m \in Nat, NEW j \in Nat, NEW s \in Int
      PROVE  /\ Passed(m, j, s) => Passed(m, j, s)'
             /\ m = i /\ j = par /\ s <= to => Passed(m, j, s)'
             /\ Passed(m, j, s)' /\ s >= 1 /\ s <= Sentences(pages[m].text[j]) =>
                  \/ Passed(m, j, s)
                  \/ m = i /\ j = par /\ s \in from..to
  <2>1. /\ Passed(m, j, s) <=>
             m < i \/ (m = i /\ (j < par \/ (j = par /\ s < from)))
        /\ Passed(m, j, s)' <=>
             \/ m < i
             \/ m = i /\ (j < cursor'.par \/ (j = cursor'.par /\ s < cursor'.from))
    BY DEF Passed
  <2>2. m = i /\ j = par => Sentences(pages[m].text[j]) = Sentences(Here)
    BY DEF Here
  <2>3. cursor'.par \in Nat /\ cursor'.from \in Nat
    BY DEF Cursor
  <2>4. QED
    BY <1>1, <2>1, <2>2, <2>3
<1>7. PiecesOK'
  <2> SUFFICES ASSUME NEW m \in DOMAIN chunks', NEW k \in DOMAIN chunks'[m]
               PROVE  PieceOK(m, chunks[m][k])'
    BY DEF PiecesOK
  <2>1. CASE m = i /\ k = Len(chunks[i]) + 1
    <3>1. chunks'[m][k] = new /\ Passed(i, par, to)'
      BY <1>1, <1>5, <1>6, <2>1
    <3>2. QED
      BY <1>1, <3>1, <2>1 DEF PieceOK, Here
  <2>2. CASE ~(m = i /\ k = Len(chunks[i]) + 1)
    <3>1. k \in DOMAIN chunks[m] /\ chunks'[m][k] = chunks[m][k]
      BY <1>2, <1>5, <2>2
    <3>2. chunks[m][k] \in Piece /\ m \in Nat
      BY <1>1, <1>2, <3>1, TextTyped DEF LookupTypeOK
    <3>3. PieceOK(m, chunks[m][k])
      BY <1>2, <3>1 DEF DocsInv, PiecesOK
    <3>4. PICK c \in Piece : c = chunks[m][k]
      BY <3>2
    <3>5. Passed(m, c.par, c.to)'
      BY <1>6, <3>2, <3>3, <3>4 DEF PieceOK, Piece
    <3>6. QED
      BY <3>1, <3>3, <3>4, <3>5 DEF PieceOK
  <2>3. QED
    BY <2>1, <2>2
<1>8. PiecesOrdered'
  <2> SUFFICES ASSUME NEW m \in DOMAIN chunks', NEW k \in DOMAIN chunks'[m],
                      NEW l \in DOMAIN chunks'[m], k < l
               PROVE  InOrder(chunks'[m][k], chunks'[m][l])
    BY DEF PiecesOrdered, InOrder
  <2>1. CASE m = i /\ l = Len(chunks[i]) + 1
    <3>1. k \in DOMAIN chunks[i] /\ chunks'[m][k] = chunks[i][k] /\ chunks'[m][l] = new
      BY <1>1, <1>5, <2>1
    <3>2. chunks[i][k] \in Piece /\ PieceOK(i, chunks[i][k])
      BY <1>1, <3>1 DEF DocsInv, PiecesOK
    <3>3. QED
      BY <1>1, <3>1, <3>2 DEF PieceOK, Passed, InOrder, Piece
  <2>2. CASE ~(m = i /\ l = Len(chunks[i]) + 1)
    <3>1. k \in DOMAIN chunks[m] /\ l \in DOMAIN chunks[m]
      <4>1. CASE m = i
        BY <1>1, <1>5, <2>2, <4>1
      <4>2. CASE m # i
        BY <1>2, <4>2
      <4>3. QED
        BY <4>1, <4>2
    <3>2. chunks'[m][k] = chunks[m][k] /\ chunks'[m][l] = chunks[m][l]
      BY <1>2, <1>5, <3>1
    <3>3. InOrder(chunks[m][k], chunks[m][l])
      BY <1>2, <3>1 DEF DocsInv, PiecesOrdered
    <3>4. QED
      BY <3>2, <3>3
  <2>3. QED
    BY <2>1, <2>2
<1>9. PassedKept'
  <2> SUFFICES ASSUME NEW m \in DOMAIN pages, NEW j \in DOMAIN pages[m].text,
                      NEW s \in 1..Sentences(pages[m].text[j]), Passed(m, j, s)'
               PROVE  Holds(m, j, s)'
    BY DEF PassedKept
  <2>1. m \in Nat /\ j \in Nat /\ s \in Int
    BY <1>1, TextTyped
  <2>2. CASE Passed(m, j, s)
    <3>1. Holds(m, j, s)
      BY <2>2 DEF DocsInv, PassedKept, Chunked
    <3>2. PICK k \in DOMAIN chunks[m] :
            chunks[m][k].par = j /\ s \in chunks[m][k].from..chunks[m][k].to
      BY <3>1 DEF Holds
    <3>3. k \in DOMAIN chunks'[m] /\ chunks'[m][k] = chunks[m][k]
      BY <1>1, <1>5
    <3>4. QED
      BY <3>2, <3>3 DEF Holds
  <2>3. CASE m = i /\ j = par /\ s \in from..to
    BY SMTT(30), <1>5, <2>3 DEF Holds
  <2>4. QED
    BY <1>6, <2>1, <2>2, <2>3
<1>10. QED
  BY <1>4, <1>7, <1>8, <1>9

\* A step of chunk_page leaves the rest alone.
LEMMA ChunkFrame ==
  ASSUME DocsInv, LookupNext, stage = "chunk",
         UNCHANGED <<call, stage, answer, pages, score, evidence>>,
         cursor' \in Cursor,
         chunks' \in [DOMAIN chunks -> Seq(Piece)]
  PROVE  LookupTypeOK' /\ ResultsKept' /\ RankOK'
<1> USE CallFixed
<1>1. evidence = <<>> /\ DOMAIN score = {}
  BY DEF DocsInv, RankOK
<1>2. LookupTypeOK'
  <2>1. /\ call' \in Call /\ stage' \in LookupStages /\ answer' \in Seq(Result)
        /\ pages' \in Seq(Result)
        /\ pages' # <<>> => Len(pages') <= Wanted'
        /\ score' \in [DOMAIN score' -> 1..MaxScore]
        /\ DOMAIN score' \subseteq Passages'
        /\ DOMAIN chunks' = DOMAIN pages'
    BY <1>1 DEF DocsInv, LookupTypeOK
  <2>2. evidence' \in Seq(Passages') /\ evidence' = <<>>
    BY <1>1
  <2>3. QED
    BY <2>1, <2>2 DEF LookupTypeOK
<1>3. ResultsKept'
  BY DEF DocsInv, ResultsKept, Chunked
<1>4. RankOK'
  BY <1>1 DEF RankOK
<1>5. QED
  BY <1>2, <1>3, <1>4

\* The cursor at the start of a paragraph is inside its page.
LEMMA FreshCursor ==
  ASSUME LookupTypeOK, NEW i \in Nat \ {0}, i <= Len(pages) + 1, NEW j \in Nat \ {0},
         i \in DOMAIN pages => j <= Len(pages[i].text) + 1,
         cursor' = AtPar(i, j), UNCHANGED pages
  PROVE  CursorOK' /\ cursor' \in Cursor
<1>1. /\ cursor' = [page |-> i, par |-> j, from |-> 1, next |-> 1]
      /\ cursor'.page = i /\ cursor'.par = j /\ cursor'.from = 1 /\ cursor'.next = 1
  BY DEF AtPar, AtPage
<1>2. pages \in Seq(Result) /\ Len(pages) \in Nat
  BY DEF LookupTypeOK
<1>3. cursor' \in Cursor
  BY <1>1 DEF Cursor
<1>4. InPage' => cursor'.par <= Len(pages'[cursor'.page].text) + 1
  BY <1>1 DEF InPage
<1>5. QED
  BY <1>1, <1>2, <1>3, <1>4 DEF CursorOK, AtPar, AtPage

LEMMA TakeWholeKeeps ==
  ASSUME DocsInv, LookupNext, TakeWhole
  PROVE  DocsInv'
<1>1. /\ stage = "chunk" /\ InText /\ IsShort(Here)
      /\ AddPassage(1, Sentences(Here))
      /\ cursor' = AtPar(cursor.page, cursor.par + 1)
      /\ UNCHANGED <<call, stage, answer, pages, score, evidence>>
  BY DEF TakeWhole
<1>2. /\ LookupTypeOK /\ cursor.page \in Nat /\ cursor.par \in Nat
      /\ Sentences(Here) \in Nat \ {0}
      /\ cursor.page \in DOMAIN pages /\ cursor.par \in DOMAIN pages[cursor.page].text
  BY <1>1, CursorTyped DEF DocsInv, InText, InPage
<1>3. /\ cursor.page \in Nat \ {0} /\ cursor.page <= Len(pages) + 1
      /\ cursor.par + 1 \in Nat \ {0}
      /\ cursor.par + 1 <= Len(pages[cursor.page].text) + 1
  BY <1>1, <1>2, InTextRange
<1>4. cursor.from = 1
  BY <1>1 DEF DocsInv, CursorOK, AtPar, AtPage
<1>5. CursorOK' /\ cursor' \in Cursor
  BY <1>1, <1>2, <1>3, FreshCursor
<1>6. cursor'.page = cursor.page /\ cursor'.par = cursor.par + 1 /\ cursor'.from = 1
  BY <1>1 DEF AtPar, AtPage
<1>7. Size(Here, 1, Sentences(Here)) <= MaxChars
  BY <1>1 DEF IsShort
<1>8. /\ chunks' \in [DOMAIN chunks -> Seq(Piece)]
      /\ PiecesOK' /\ PiecesOrdered' /\ PassedKept'
  BY <1>1, <1>2, <1>4, <1>5, <1>6, <1>7, PassageAdded
<1>9. QED
  BY <1>1, <1>5, <1>8, ChunkFrame DEF DocsInv

LEMMA LastPieceKeeps ==
  ASSUME DocsInv, LookupNext, LastPiece
  PROVE  DocsInv'
<1>1. /\ stage = "chunk" /\ InText /\ ~ IsShort(Here)
      /\ cursor.next > Sentences(Here)
      /\ AddPassage(cursor.from, Sentences(Here))
      /\ cursor' = AtPar(cursor.page, cursor.par + 1)
      /\ UNCHANGED <<call, stage, answer, pages, score, evidence>>
  BY DEF LastPiece
<1>2. /\ LookupTypeOK /\ cursor.page \in Nat /\ cursor.par \in Nat
      /\ cursor.from \in Nat /\ cursor.next \in Nat
      /\ Sentences(Here) \in Nat \ {0}
      /\ cursor.page \in DOMAIN pages /\ cursor.par \in DOMAIN pages[cursor.page].text
  BY <1>1, CursorTyped DEF DocsInv, InText, InPage
<1>3. /\ cursor.page \in Nat \ {0} /\ cursor.page <= Len(pages) + 1
      /\ cursor.par + 1 \in Nat \ {0}
      /\ cursor.par + 1 <= Len(pages[cursor.page].text) + 1
  BY <1>1, <1>2, InTextRange
<1>4. /\ cursor.from < cursor.next /\ cursor.next = Sentences(Here) + 1
      /\ cursor.from >= 1
      /\ \/ cursor.from = Sentences(Here)
         \/ Size(Here, cursor.from, Sentences(Here)) <= MaxChars
  <2>1. cursor.from = cursor.next => cursor.next = 1
    BY <1>1 DEF DocsInv, CursorOK, AtPar, AtPage
  <2>2. cursor.from # cursor.next
    BY <1>1, <1>2, <2>1
  <2>3. /\ cursor.from < cursor.next /\ cursor.next <= Sentences(Here) + 1
        /\ cursor.from >= 1
        /\ \/ cursor.from = cursor.next - 1
           \/ Size(Here, cursor.from, cursor.next - 1) <= MaxChars
    BY <1>1, <2>2 DEF DocsInv, CursorOK
  <2>4. cursor.next = Sentences(Here) + 1 /\ cursor.next - 1 = Sentences(Here)
    BY <1>1, <1>2, <2>3
  <2>5. QED
    BY <2>3, <2>4
<1>5. CursorOK' /\ cursor' \in Cursor
  BY <1>1, <1>2, <1>3, FreshCursor
<1>6. cursor'.page = cursor.page /\ cursor'.par = cursor.par + 1 /\ cursor'.from = 1
  BY <1>1 DEF AtPar, AtPage
<1>7. /\ cursor.from \in Nat \ {0}
      /\ Sentences(Here) \in cursor.from..Sentences(Here)
  BY <1>2, <1>4
<1>8. /\ chunks' \in [DOMAIN chunks -> Seq(Piece)]
      /\ PiecesOK' /\ PiecesOrdered' /\ PassedKept'
  BY <1>1, <1>2, <1>4, <1>5, <1>6, <1>7, PassageAdded
<1>9. QED
  BY <1>1, <1>5, <1>8, ChunkFrame DEF DocsInv

\* The cursor takes one more sentence of a long paragraph.
LEMMA NextSentence ==
  ASSUME DocsInv, InSentences,
         NEW from \in Nat \ {0}, from <= cursor.next,
         cursor' = [cursor EXCEPT !.from = from, !.next = @ + 1],
         UNCHANGED <<stage, pages>>,
         from = cursor.next \/ Size(Here, from, cursor.next) <= MaxChars
  PROVE  /\ CursorOK' /\ cursor' \in Cursor
         /\ cursor'.page = cursor.page /\ cursor'.par = cursor.par
         /\ cursor'.from = from
<1>1. /\ LookupTypeOK /\ cursor \in Cursor /\ stage = "chunk" /\ InText
      /\ ~ IsShort(Here) /\ cursor.next <= Sentences(Here)
      /\ cursor.next \in Nat /\ Sentences(Here) \in Nat
  BY CursorTyped DEF DocsInv, LookupTypeOK, InSentences
<1>2. /\ cursor' \in Cursor
      /\ cursor'.page = cursor.page /\ cursor'.par = cursor.par
      /\ cursor'.from = from /\ cursor'.next = cursor.next + 1
  <2>1. PICK n \in Nat : n = cursor.next + 1
    BY <1>1
  <2>2. cursor' = [cursor EXCEPT !.from = from, !.next = n]
    BY <2>1
  <2>3. from \in Nat
    OBVIOUS
  <2>4. /\ [cursor EXCEPT !.from = from, !.next = n] \in Cursor
        /\ [cursor EXCEPT !.from = from, !.next = n].page = cursor.page
        /\ [cursor EXCEPT !.from = from, !.next = n].par = cursor.par
        /\ [cursor EXCEPT !.from = from, !.next = n].from = from
        /\ [cursor EXCEPT !.from = from, !.next = n].next = n
    <3>1. cursor \in Cursor
      BY <1>1
    <3>2. QED
      BY <2>3, <3>1 DEF Cursor
  <2>5. QED
    BY <2>1, <2>2, <2>4
<1>3. /\ InPage' = InPage /\ InText' = InText /\ Here' = Here
      /\ IsShort(Here)' = IsShort(Here) /\ Sentences(Here)' = Sentences(Here)
  BY <1>2 DEF InPage, InText, Here, IsShort, Size, Start, Sentences
<1>4. cursor'.next - 1 = cursor.next
  BY <1>1, <1>2
<1>5. \/ cursor'.from = cursor'.next - 1
      \/ Size(Here, cursor'.from, cursor'.next - 1) <= MaxChars
  BY <1>2, <1>4
<1>6. Size(Here, cursor.from, cursor.next - 1)'
        = Size(Here, cursor'.from, cursor'.next - 1)
  BY <1>3 DEF Size, Start
<1>7. InPage => cursor.par <= Len(pages[cursor.page].text) + 1
  BY <1>1 DEF DocsInv, CursorOK
<1>8. cursor.page \in 1..Len(pages) + 1 /\ cursor.par >= 1
  BY <1>1 DEF DocsInv, CursorOK
<1>9. CursorOK'
  BY <1>1, <1>2, <1>3, <1>5, <1>6, <1>7, <1>8 DEF CursorOK
<1>10. QED
  BY <1>2, <1>9

LEMMA JoinKeeps ==
  ASSUME DocsInv, LookupNext, JoinSentence
  PROVE  DocsInv'
<1>1. /\ InSentences /\ Joins /\ stage = "chunk" /\ InText
      /\ cursor.next <= Sentences(Here) /\ ~ IsShort(Here)
      /\ cursor' = [cursor EXCEPT !.next = @ + 1]
      /\ UNCHANGED <<call, stage, answer, pages, chunks, score, evidence>>
  BY DEF JoinSentence, InSentences
<1>2. /\ LookupTypeOK /\ cursor \in Cursor
      /\ cursor.from \in Nat /\ cursor.next \in Nat
      /\ Here.ends \in Seq(Nat) /\ Sentences(Here) \in Nat \ {0}
      /\ cursor.page \in Nat /\ cursor.par \in Nat
  BY <1>1, CursorTyped DEF DocsInv, LookupTypeOK
<1>3. cursor.from >= 1 /\ cursor.from <= cursor.next /\ cursor.from \in Nat \ {0}
  BY <1>1, <1>2 DEF DocsInv, CursorOK
<1>4. cursor.from = cursor.next \/ Size(Here, cursor.from, cursor.next) <= MaxChars
  BY <1>1, <1>2, <1>3, SizesAdd DEF Joins
<1>5. cursor' = [cursor EXCEPT !.from = cursor.from, !.next = @ + 1]
  BY <1>1, <1>2 DEF Cursor
<1>6. CursorOK' /\ cursor' \in Cursor
      /\ cursor'.page = cursor.page /\ cursor'.par = cursor.par
      /\ cursor'.from = cursor.from
  BY <1>1, <1>3, <1>4, <1>5, NextSentence
<1>7. \A m, j, s : Passed(m, j, s)' <=> Passed(m, j, s)
  BY <1>1, <1>6 DEF Passed
<1>8. PiecesOK' /\ PiecesOrdered'
  <2>1. ASSUME NEW m \in DOMAIN chunks, NEW k \in DOMAIN chunks[m]
        PROVE  PieceOK(m, chunks[m][k])'
    <3>1. PieceOK(m, chunks[m][k])
      BY DEF DocsInv, PiecesOK
    <3>2. PICK c : c = chunks[m][k]
      OBVIOUS
    <3>3. Passed(m, c.par, c.to)'
      BY <1>7, <3>1, <3>2 DEF PieceOK
    <3>4. QED
      BY <1>1, <3>1, <3>2, <3>3 DEF PieceOK
  <2>2. QED
    BY <1>1, <2>1 DEF DocsInv, PiecesOK, PiecesOrdered
<1>9. PassedKept'
  BY <1>1, <1>7 DEF DocsInv, PassedKept, Chunked, Holds
<1>10. chunks' \in [DOMAIN chunks -> Seq(Piece)]
  BY <1>1 DEF DocsInv, LookupTypeOK
<1>11. QED
  BY <1>1, <1>6, <1>8, <1>9, <1>10, ChunkFrame DEF DocsInv

LEMMA CutKeeps ==
  ASSUME DocsInv, LookupNext, CutPiece
  PROVE  DocsInv'
<1>1. /\ InSentences /\ ~ Joins /\ stage = "chunk" /\ InText
      /\ cursor.next <= Sentences(Here)
      /\ AddPassage(cursor.from, cursor.next - 1)
      /\ cursor' = [cursor EXCEPT !.from = cursor.next, !.next = @ + 1]
      /\ UNCHANGED <<call, stage, answer, pages, score, evidence>>
  BY DEF CutPiece, InSentences
<1>2. /\ LookupTypeOK /\ cursor \in Cursor
      /\ cursor.from \in Nat /\ cursor.next \in Nat
      /\ Here.ends \in Seq(Nat) /\ Sentences(Here) \in Nat \ {0}
      /\ cursor.page \in Nat /\ cursor.par \in Nat
  BY <1>1, CursorTyped DEF DocsInv, LookupTypeOK
<1>3. /\ cursor.from < cursor.next
      /\ Size(Here, cursor.from, cursor.next - 1) + 1
           + Size(Here, cursor.next, cursor.next) > MaxChars
  <2>1. cursor.from < cursor.next
    BY <1>1 DEF Joins
  <2>2. ~ (Size(Here, cursor.from, cursor.next - 1) + 1
             + Size(Here, cursor.next, cursor.next) <= MaxChars)
    BY <1>1 DEF Joins
  <2>3. Size(Here, cursor.from, cursor.next) \in Int /\ MaxChars \in Int
    <3>1. cursor.from \in 1..Sentences(Here) /\ cursor.next \in 1..Sentences(Here)
      BY <1>1, <1>2, <2>1 DEF DocsInv, CursorOK
    <3>2. QED
      BY <1>2, <3>1, SizeTyped, DocsAssumption
  <2>4. cursor.from >= 1
    BY <1>1 DEF DocsInv, CursorOK
  <2>5. Size(Here, cursor.from, cursor.next - 1) + 1
          + Size(Here, cursor.next, cursor.next) = Size(Here, cursor.from, cursor.next)
    BY <1>1, <1>2, <2>1, <2>4, SizesAdd
  <2>6. QED
    BY <2>1, <2>2, <2>3, <2>5
<1>4. /\ cursor.from >= 1
      /\ \/ cursor.from = cursor.next - 1
         \/ Size(Here, cursor.from, cursor.next - 1) <= MaxChars
  BY <1>1, <1>2, <1>3 DEF DocsInv, CursorOK
<1>5. Size(Here, cursor.from, cursor.next) > MaxChars
  BY SMTT(30), <1>1, <1>2, <1>3, <1>4, SizesAdd
<1>6. /\ CursorOK' /\ cursor' \in Cursor
      /\ cursor'.page = cursor.page /\ cursor'.par = cursor.par
      /\ cursor'.from = cursor.next
  <2>1. cursor.next \in Nat \ {0} /\ cursor.next <= cursor.next
    BY <1>2, <1>3
  <2>2. QED
    BY <1>1, <2>1, NextSentence
<1>7. /\ cursor.from \in Nat \ {0}
      /\ cursor.next - 1 \in cursor.from..Sentences(Here)
      /\ (cursor.next - 1) + 1 = cursor.next
  BY SMTT(30), <1>1, <1>2, <1>3, <1>4
<1>8. /\ chunks' \in [DOMAIN chunks -> Seq(Piece)]
      /\ PiecesOK' /\ PiecesOrdered' /\ PassedKept'
  BY <1>1, <1>2, <1>4, <1>5, <1>6, <1>7, PassageAdded
<1>9. QED
  BY <1>1, <1>6, <1>8, ChunkFrame DEF DocsInv

LEMMA EndTextKeeps ==
  ASSUME DocsInv, LookupNext, EndText
  PROVE  DocsInv'
<1>1. /\ stage = "chunk" /\ InPage /\ ~ InText
      /\ cursor' = AtPage(cursor.page + 1)
      /\ UNCHANGED <<call, stage, answer, pages, chunks, score, evidence>>
  BY DEF EndText
<1>2. /\ LookupTypeOK /\ cursor.page \in DOMAIN pages /\ pages \in Seq(Result)
      /\ cursor.par \in Nat /\ cursor.par >= 1
  BY <1>1, CursorTyped DEF DocsInv, InPage, LookupTypeOK, CursorOK
<1>3. /\ cursor.page + 1 \in Nat \ {0} /\ cursor.page + 1 <= Len(pages) + 1
      /\ \A i \in DOMAIN pages : 1 <= Len(pages[i].text) + 1
  BY <1>2, TextTyped
<1>4. cursor' = AtPar(cursor.page + 1, 1)
  BY <1>1 DEF AtPar, AtPage
<1>5. CursorOK' /\ cursor' \in Cursor
  BY <1>1, <1>2, <1>3, <1>4, FreshCursor
<1>6. cursor'.page = cursor.page + 1 /\ cursor'.par = 1 /\ cursor'.from = 1
  BY <1>1 DEF AtPage
<1>7. \A j \in DOMAIN pages[cursor.page].text : j < cursor.par /\ j \in Nat \ {0}
  <2>1. DOMAIN pages[cursor.page].text = 1..Len(pages[cursor.page].text)
        /\ Len(pages[cursor.page].text) \in Nat
    BY <1>2, TextTyped
  <2>2. cursor.par \notin DOMAIN pages[cursor.page].text
    BY <1>1 DEF InText
  <2>3. QED
    BY <1>2, <2>1, <2>2
<1>8. ASSUME NEW m \in DOMAIN pages, NEW j \in DOMAIN pages[m].text, NEW s \in Int, s >= 1
      PROVE  Passed(m, j, s)' <=> Passed(m, j, s)
  <2>1. m \in Nat /\ j \in Nat \ {0} /\ cursor.page \in Nat
    BY <1>2, TextTyped
  <2>2. Passed(m, j, s) <=>
          \/ m < cursor.page
          \/ /\ m = cursor.page
             /\ j < cursor.par \/ (j = cursor.par /\ s < cursor.from)
    BY <1>1 DEF Passed
  <2>3. Passed(m, j, s)' <=>
          \/ m < cursor.page + 1
          \/ /\ m = cursor.page + 1
             /\ j < 1 \/ (j = 1 /\ s < 1)
    BY <1>1, <1>6 DEF Passed
  <2>4. m = cursor.page => j < cursor.par
    BY <1>7
  <2>5. Passed(m, j, s) <=> m <= cursor.page
    BY <2>1, <2>2, <2>4
  <2>6. Passed(m, j, s)' <=> m <= cursor.page
    BY <1>8, <2>1, <2>3
  <2>7. QED
    BY <2>5, <2>6
<1>9. PiecesOK' /\ PiecesOrdered'
  <2>1. ASSUME NEW m \in DOMAIN chunks, NEW k \in DOMAIN chunks[m]
        PROVE  PieceOK(m, chunks[m][k])'
    <3>1. PieceOK(m, chunks[m][k])
      BY DEF DocsInv, PiecesOK
    <3>2. m \in DOMAIN pages /\ chunks[m][k] \in Piece
      BY <1>1, <1>2 DEF LookupTypeOK
    <3>3. PICK c \in Piece : c = chunks[m][k]
      BY <3>2
    <3>4. c.par \in DOMAIN pages[m].text /\ c.to >= 1 /\ c.to \in Int
      BY <3>1, <3>3 DEF PieceOK, Piece
    <3>5. Passed(m, c.par, c.to)'
      BY <1>8, <3>1, <3>2, <3>3, <3>4 DEF PieceOK
    <3>6. QED
      BY <1>1, <3>1, <3>3, <3>5 DEF PieceOK
  <2>2. QED
    BY <1>1, <2>1 DEF DocsInv, PiecesOK, PiecesOrdered
<1>10. PassedKept'
  <2> SUFFICES ASSUME NEW m \in DOMAIN pages, NEW j \in DOMAIN pages[m].text,
                      NEW s \in 1..Sentences(pages[m].text[j]), Passed(m, j, s)'
               PROVE  Holds(m, j, s)
    BY <1>1 DEF PassedKept, Holds
  <2>1. QED
    BY <1>1, <1>8 DEF DocsInv, PassedKept, Chunked
<1>11. chunks' \in [DOMAIN chunks -> Seq(Piece)]
  BY <1>1 DEF DocsInv, LookupTypeOK
<1>12. QED
  BY <1>1, <1>5, <1>9, <1>10, <1>11, ChunkFrame DEF DocsInv

-----------------------------------------------------------------------------
\* Ranking.

\* Only what comes after the chunking changes.
LEMMA RankFrame ==
  ASSUME DocsInv, LookupNext, stage \in {"chunk", "rank"}, stage' \in {"rank", "done"},
         stage = "chunk" => ~ InPage,
         UNCHANGED <<call, answer, pages, cursor, chunks>>
  PROVE  ResultsKept' /\ CursorOK' /\ PiecesOK' /\ PiecesOrdered' /\ PassedKept'
<1> USE CallFixed
<1>1. ResultsKept' /\ CursorOK' /\ PiecesOrdered'
  BY DEF DocsInv, ResultsKept, Chunked, CursorOK, PiecesOrdered
<1>2. PiecesOK'
  BY DEF DocsInv, PiecesOK, PieceOK, Passed
<1>3. PassedKept'
  <2> SUFFICES ASSUME NEW m \in DOMAIN pages, NEW j \in DOMAIN pages[m].text,
                      NEW s \in 1..Sentences(pages[m].text[j])
               PROVE  Holds(m, j, s)
    BY DEF PassedKept, Holds
  <2>1. stage = "chunk" => m < cursor.page
    <3>1. pages \in Seq(Result)
      BY DEF DocsInv, LookupTypeOK
    <3>2. stage = "chunk" => cursor.page = Len(pages) + 1
      BY <3>1 DEF DocsInv, CursorOK, InPage
    <3>3. QED
      BY <3>1, <3>2
  <2>2. QED
    BY <2>1 DEF DocsInv, PassedKept, Chunked, Passed
<1>4. QED
  BY <1>1, <1>2, <1>3

LEMMA IndexKeeps ==
  ASSUME DocsInv, LookupNext, Index
  PROVE  DocsInv'
<1>1. /\ stage = "chunk" /\ stage' = "rank" /\ ~ InPage
      /\ score' \in [Matching -> 1..MaxScore]
      /\ UNCHANGED <<call, answer, pages, cursor, chunks, evidence>>
  BY DEF Index
<1>2. evidence = <<>> /\ DOMAIN score' = Matching /\ Matching \subseteq Passages
  BY <1>1 DEF DocsInv, RankOK, Matching
<1>3. Passages' = Passages /\ Matching' = Matching /\ InPage' = InPage
  <2>1. Passages' = Passages /\ InPage' = InPage
    BY <1>1 DEF Passages, InPage
  <2>2. \A p : Scores(p)' <=> Scores(p)
    BY <1>1 DEF Scores
  <2>3. QED
    BY <2>1, <2>2 DEF Matching
<1>4. LookupTypeOK'
  <2>1. stage' \in LookupStages
    BY <1>1 DEF LookupStages
  <2>2. score' \in [DOMAIN score' -> 1..MaxScore] /\ DOMAIN score' \subseteq Passages'
    BY <1>1, <1>2, <1>3
  <2>3. QED
    BY <1>1, <1>2, <1>3, <2>1, <2>2, CallFixed DEF DocsInv, LookupTypeOK
<1>5. RankOK'
  BY <1>1, <1>2, <1>3 DEF RankOK, InPage
<1>6. QED
  BY <1>1, <1>4, <1>5, RankFrame DEF DocsInv

\* What the sort puts first is ahead of the rest.
LEMMA FirstIsAhead ==
  ASSUME LookupTypeOK, stage = "rank",
         NEW p \in DOMAIN score, NEW q \in DOMAIN score, p # q, Before(p, q)
  PROVE  Ahead(p, q)
<1>1. score[p] \in Int /\ score[q] \in Int
  BY DocsAssumption DEF LookupTypeOK
<1>2. ASSUME NEW r \in DOMAIN score
      PROVE  /\ r = <<r[1], r[2]>> /\ Url(r) \in Nat
             /\ r[1] \in Nat /\ r[2] \in Nat
  <2>1. r \in Passages
    BY DEF LookupTypeOK
  <2>2. PICK i \in DOMAIN chunks : \E k \in DOMAIN chunks[i] : r = <<i, k>>
    BY <2>1 DEF Passages
  <2>3. PICK k \in DOMAIN chunks[i] : r = <<i, k>>
    BY <2>2
  <2>4. i \in DOMAIN pages /\ chunks[i] \in Seq(Piece) /\ pages \in Seq(Result)
    BY <2>2 DEF LookupTypeOK
  <2>5. pages[i] \in Result /\ i \in Nat /\ k \in Nat
    BY <2>3, <2>4
  <2>6. pages[i].url \in Nat
    BY <2>5 DEF Result
  <2>7. QED
    BY <2>3, <2>5, <2>6 DEF Url
<1>3. p[1] = q[1] => Url(p) = Url(q)
  BY DEF Url
<1>4. p[1] = q[1] => p[2] # q[2]
  BY <1>2
<1>5. /\ Url(p) \in Nat /\ Url(q) \in Nat /\ p[1] \in Nat /\ q[1] \in Nat
      /\ p[2] \in Nat /\ q[2] \in Nat
  BY <1>2
<1>6. QED
  BY <1>1, <1>3, <1>4, <1>5 DEF Before, Ahead

LEMMA CiteKeeps ==
  ASSUME DocsInv, LookupNext, Cite
  PROVE  DocsInv'
<1>1. PICK p \in Left :
        /\ \A q \in Left : Before(p, q)
        /\ evidence' = Append(evidence, p)
  BY DEF Cite
<1>2. /\ stage = "rank" /\ Len(evidence) < Wanted
      /\ UNCHANGED <<call, stage, answer, pages, cursor, chunks, score>>
  BY DEF Cite
<1>3. /\ LookupTypeOK /\ p \in DOMAIN score /\ p \notin Cited /\ p \in Passages
      /\ evidence \in Seq(Passages) /\ Len(evidence) \in Nat
  BY DEF DocsInv, LookupTypeOK, Left
<1>4. /\ evidence' \in Seq(Passages)
      /\ Len(evidence') = Len(evidence) + 1
      /\ DOMAIN evidence = 1..Len(evidence)
      /\ DOMAIN evidence' = 1..Len(evidence) + 1
      /\ evidence'[Len(evidence) + 1] = p
      /\ \A n \in DOMAIN evidence : evidence'[n] = evidence[n]
  BY <1>1, <1>3
<1>5. Passages' = Passages /\ Matching' = Matching
  <2>1. Passages' = Passages
    BY <1>2 DEF Passages
  <2>2. \A q : Scores(q)' <=> Scores(q)
    BY <1>2 DEF Scores
  <2>3. QED
    BY <2>1, <2>2 DEF Matching
<1>6. LookupTypeOK'
  <2>1. Wanted \in Nat
    BY <1>2, <1>3, Limited DEF DocsInv, ResultsKept, Chunked, LookupTypeOK
  <2>2. evidence' \in Seq(Passages') /\ Len(evidence') <= Wanted'
    BY <1>2, <1>3, <1>4, <1>5, <2>1, CallFixed
  <2>3. QED
    BY <1>2, <1>3, <1>5, <2>2, CallFixed DEF LookupTypeOK
<1>7. Left' = Left \ {p}
  <2>1. Cited' = Cited \cup {p}
    <3>1. \A n \in DOMAIN evidence' : n \in DOMAIN evidence \/ n = Len(evidence) + 1
      BY <1>3, <1>4
    <3>2. DOMAIN evidence \subseteq DOMAIN evidence' /\ Len(evidence) + 1 \in DOMAIN evidence'
      BY <1>3, <1>4
    <3>3. QED
      BY <1>4, <3>1, <3>2 DEF Cited
  <2>2. QED
    BY <1>2, <2>1 DEF Left
<1>8. \A n \in DOMAIN evidence' :
        /\ evidence'[n] \in DOMAIN score
        /\ \A q \in Left' : Ahead(evidence'[n], q)
        /\ \A m \in n+1..Len(evidence') : Ahead(evidence'[n], evidence'[m])
  <2> SUFFICES ASSUME NEW n \in DOMAIN evidence'
               PROVE  /\ evidence'[n] \in DOMAIN score
                      /\ \A q \in Left' : Ahead(evidence'[n], q)
                      /\ \A m \in n+1..Len(evidence') : Ahead(evidence'[n], evidence'[m])
    OBVIOUS
  <2>1. CASE n = Len(evidence) + 1
    <3>1. evidence'[n] = p
      BY <1>4, <2>1
    <3>2. ASSUME NEW q \in Left'
          PROVE  Ahead(p, q)
      <4>1. q \in DOMAIN score /\ q # p /\ q \in Left
        BY <1>7 DEF Left
      <4>2. QED
        BY <1>1, <1>2, <1>3, <4>1, FirstIsAhead
    <3>3. n+1..Len(evidence') = {}
      BY <1>3, <1>4, <2>1
    <3>4. QED
      BY <1>3, <3>1, <3>2, <3>3
  <2>2. CASE n \in DOMAIN evidence
    <3>1. evidence'[n] = evidence[n]
      BY <1>4, <2>2
    <3>2. /\ evidence[n] \in DOMAIN score
          /\ \A q \in Left : Ahead(evidence[n], q)
          /\ \A m \in n+1..Len(evidence) : Ahead(evidence[n], evidence[m])
      BY <2>2 DEF DocsInv, RankOK
    <3>3. ASSUME NEW m \in n+1..Len(evidence')
          PROVE  Ahead(evidence'[n], evidence'[m])
      <4>1. CASE m = Len(evidence) + 1
        BY <1>1, <1>4, <3>1, <3>2, <4>1
      <4>2. CASE m # Len(evidence) + 1
        <5>1. m \in n+1..Len(evidence) /\ m \in DOMAIN evidence
          BY <1>3, <1>4, <2>2, <4>2
        <5>2. QED
          BY <1>4, <3>1, <3>2, <5>1
      <4>3. QED
        BY <4>1, <4>2
    <3>4. QED
      BY <1>7, <3>1, <3>2, <3>3
  <2>3. QED
    BY <1>3, <1>4, <2>1, <2>2
<1>9. RankOK'
  <2>1. \A a, b : Ahead(a, b)' <=> Ahead(a, b)
    BY <1>2 DEF Ahead, Url
  <2>2. /\ cursor'.page \notin DOMAIN pages'
        /\ DOMAIN score' = Matching'
        /\ stage' = "rank"
    BY <1>2, <1>5 DEF DocsInv, RankOK
  <2>3. \A n \in DOMAIN evidence' :
          /\ evidence'[n] \in DOMAIN score'
          /\ \A q \in Left' : Ahead(evidence'[n], q)
          /\ \A m \in n+1..Len(evidence') : Ahead(evidence'[n], evidence'[m])
    BY <1>2, <1>8
  <2> HIDE DEF Ahead
  <2>4. QED
    BY <2>1, <2>2, <2>3 DEF RankOK
<1>10. QED
  BY <1>2, <1>6, <1>9, RankFrame DEF DocsInv

LEMMA AnsweredKeeps ==
  ASSUME DocsInv, LookupNext, Answered
  PROVE  DocsInv'
<1>1. /\ stage = "rank" /\ stage' = "done"
      /\ Left = {} \/ Len(evidence) >= Wanted
      /\ UNCHANGED <<call, answer, pages, cursor, chunks, score, evidence>>
  BY DEF Answered
<1>2. LookupTypeOK'
  BY <1>1, CallFixed DEF DocsInv, LookupTypeOK, LookupStages, Passages
<1>3. Left = {} \/ Len(evidence) = Wanted
  <2>1. LookupTypeOK /\ Wanted \in Nat \ {0} /\ Len(evidence) \in Nat
    BY <1>1, Limited DEF DocsInv, ResultsKept, Chunked, LookupTypeOK
  <2>2. CASE evidence = <<>>
    BY <1>1, <2>1, <2>2
  <2>3. CASE evidence # <<>>
    BY <1>1, <2>1, <2>3 DEF LookupTypeOK
  <2>4. QED
    BY <2>2, <2>3
<1>4. RankOK'
  <2>1. Left' = Left /\ Wanted' = Wanted
    BY <1>1, CallFixed DEF Left, Cited
  <2>2. Matching' = Matching
    <3>1. Passages' = Passages
      BY <1>1 DEF Passages
    <3>2. \A q : Scores(q)' <=> Scores(q)
      BY <1>1 DEF Scores
    <3>3. QED
      BY <3>1, <3>2 DEF Matching
  <2>3. QED
    BY <1>1, <1>3, <2>1, <2>2 DEF DocsInv, RankOK, Ahead, Url
<1>5. QED
  BY <1>1, <1>2, <1>4, RankFrame DEF DocsInv

-----------------------------------------------------------------------------
LEMMA DocsStep == DocsInv /\ [LookupNext]_lookupVars => DocsInv'
<1> SUFFICES ASSUME DocsInv, [LookupNext]_lookupVars PROVE DocsInv'
  OBVIOUS
<1>1. CASE LookupNext
  BY <1>1, CalledKeeps, MapKeeps, FetchedKeeps, TakeWholeKeeps, JoinKeeps,
     CutKeeps, LastPieceKeeps, EndTextKeeps, IndexKeeps, CiteKeeps,
     AnsweredKeeps
  DEF LookupNext
<1>2. CASE UNCHANGED lookupVars
  <2> USE <1>2 DEF lookupVars
  <2>1. LookupTypeOK'
    BY DEF DocsInv, LookupTypeOK, Passages, Wanted
  <2>2. ResultsKept'
    BY DEF DocsInv, ResultsKept, Chunked, Received, HostLimit, Wanted, Acceptable
  <2>3. CursorOK'
    BY DEF DocsInv, CursorOK, InPage, InText, Here
  <2>4. PiecesOK' /\ PiecesOrdered'
    BY DEF DocsInv, PiecesOK, PieceOK, Passed, PiecesOrdered
  <2>5. PassedKept'
    BY DEF DocsInv, PassedKept, Chunked, Passed, Holds
  <2>6. RankOK'
    <3>1. Left' = Left /\ Wanted' = Wanted
      BY DEF Left, Cited, Wanted
    <3>2. Passages' = Passages
      BY DEF Passages
    <3>3. \A q : Scores(q)' <=> Scores(q)
      BY DEF Scores
    <3>4. Matching' = Matching
      BY <3>2, <3>3 DEF Matching
    <3>5. QED
      BY <3>1, <3>4 DEF DocsInv, RankOK, Ahead, Url
  <2>7. QED
    BY <2>1, <2>2, <2>3, <2>4, <2>5, <2>6 DEF DocsInv
<1>3. QED
  BY <1>1, <1>2

\* The invariant holds of every lookup.
THEOREM DocsInvariant == LookupSpec => []DocsInv
<1>1. QED
  BY InitDocs, DocsStep, PTL DEF LookupSpec

\* Types; never more pages or passages than were wanted.
THEOREM LookupTyped == LookupSpec => []LookupTypeOK
<1>1. DocsInv => LookupTypeOK
  BY DEF DocsInv
<1>2. QED
  BY DocsInvariant, <1>1, PTL

LEMMA SentencesAreKept == DocsInv => SentencesKept
<1> SUFFICES ASSUME DocsInv PROVE SentencesKept
  OBVIOUS
<1>1. \A i \in DOMAIN pages : \A j \in DOMAIN pages[i].text :
        \A s \in 1..Sentences(pages[i].text[j]) :
          stage \in {"rank", "done"} => Holds(i, j, s)
  BY DEF DocsInv, PassedKept, Chunked, Passed
<1>2. stage \in {"rank", "done"} => DOMAIN chunks = DOMAIN pages
  BY DEF DocsInv, LookupTypeOK
<1>3. QED
  BY <1>1, <1>2 DEF DocsInv, SentencesKept, PiecesOrdered, InOrder, Holds

\* The passages of the pages hold every sentence once and in order.
THEOREM NoSentenceLost == LookupSpec => []SentencesKept
<1>1. QED
  BY DocsInvariant, SentencesAreKept, PTL

LEMMA PackedPassages == DocsInv => PassagesPacked
<1> SUFFICES ASSUME DocsInv, NEW i \in DOMAIN chunks, NEW k \in DOMAIN chunks[i]
             PROVE  LET c == chunks[i][k]
                        p == pages[i].text[c.par]
                    IN  /\ c.from <= c.to
                        /\ c.from = c.to \/ Size(p, c.from, c.to) <= MaxChars
                        /\ c.to < Sentences(p) => Size(p, c.from, c.to + 1) > MaxChars
  BY DEF PassagesPacked
<1>1. PieceOK(i, chunks[i][k])
  BY DEF DocsInv, PiecesOK
<1>2. QED
  BY <1>1 DEF PieceOK

\* Passages are packed to the limit and not beyond it.
THEOREM PassagesArePacked == LookupSpec => []PassagesPacked
<1>1. QED
  BY DocsInvariant, PackedPassages, PTL

\* The evidence is the best there is and as much as was wanted.
THEOREM EvidenceIsTheBest == LookupSpec => []EvidenceIsBest
<1>1. DocsInv => EvidenceIsBest
  BY DEF DocsInv, RankOK, EvidenceIsBest, Ahead
<1>2. QED
  BY DocsInvariant, <1>1, PTL

LEMMA NoHitWhenSilent == DocsInv => SilenceMeansNoHit
<1>1. ASSUME DocsInv, stage = "done", evidence = <<>>, call.query = "words",
             NEW n \in 1..HostLimit, n \in DOMAIN answer, answer[n].citable,
             NEW j \in DOMAIN answer[n].text, NEW h \in answer[n].text[j].hits
      PROVE  FALSE
  <2>1. LookupTypeOK /\ Acceptable
    BY <1>1 DEF DocsInv, ResultsKept, Chunked
  <2>2. n \in DOMAIN Received /\ Received[n] = answer[n]
    BY <1>1, <2>1, ReceivedOK, Limited DEF LookupTypeOK
  <2>3. PICK i \in DOMAIN pages : pages[i] = answer[n]
    BY <1>1, <2>2 DEF DocsInv, ResultsKept, Chunked
  <2>4. h \in 1..Sentences(pages[i].text[j])
    BY <1>1, <2>1, <2>3, TextTyped
  <2>5. Holds(i, j, h)
    BY <1>1, <2>3, <2>4 DEF DocsInv, PassedKept, Chunked, Passed
  <2>6. PICK k \in DOMAIN chunks[i] :
          chunks[i][k].par = j /\ h \in chunks[i][k].from..chunks[i][k].to
    BY <2>5 DEF Holds
  <2>7. i \in DOMAIN chunks
    BY <1>1, <2>1 DEF LookupTypeOK
  <2>8. <<i, k>> \in Passages
    BY <2>6, <2>7 DEF Passages
  <2>9. Scores(<<i, k>>)
    BY <1>1, <2>3, <2>6 DEF Scores
  <2>10. <<i, k>> \in DOMAIN score
    BY <1>1, <2>8, <2>9 DEF DocsInv, RankOK, Matching
  <2>11. <<i, k>> \in Left
    BY <1>1, <2>10 DEF Left, Cited
  <2>12. Len(evidence) = Wanted
    BY <1>1, <2>11 DEF DocsInv, RankOK
  <2>13. QED
    BY <1>1, <2>1, <2>12, Limited DEF LookupTypeOK
<1>2. QED
  BY <1>1 DEF SilenceMeansNoHit

\* An answer without evidence means that no page asked for has a match.
THEOREM SilenceIsTrue == LookupSpec => []SilenceMeansNoHit
<1>1. QED
  BY DocsInvariant, NoHitWhenSilent, PTL

-----------------------------------------------------------------------------
(***************************************************************************)
(* Why a lookup ends: each of its loops moves on and has an end.           *)
(***************************************************************************)

\* The cursor of chunk_page moves on: by a sentence, a paragraph or a page.
Onward ==
  \/ cursor'.page > cursor.page
  \/ /\ cursor'.page = cursor.page
     /\ \/ cursor'.par > cursor.par
        \/ cursor'.par = cursor.par /\ cursor'.next > cursor.next

\* The cursor is at a sentence or just behind the last one.
InReach ==
  /\ cursor.page <= Len(pages) + 1
  /\ InPage => cursor.par <= Len(pages[cursor.page].text) + 1
  /\ InText => cursor.next <= Sentences(Here) + 1

\* What a step does for the end of the call.
Advances ==
  /\ stage = "called" => stage' \in {"fetch", "error", "raised"}
  /\ stage = "fetch" =>
       \/ stage' = "chunk"
       \/ /\ stage' = "fetch"
          /\ cursor'.page = cursor.page + 1 /\ cursor'.page <= Len(Received) + 1
  /\ stage = "chunk" => stage' = "rank" \/ (stage' = "chunk" /\ Onward /\ InReach')
  /\ stage = "rank" =>
       \/ stage' = "done"
       \/ /\ stage' = "rank"
          /\ Len(evidence') = Len(evidence) + 1 /\ Len(evidence') <= Wanted
  /\ stage \notin {"done", "error", "raised"}

\* Every step of a lookup goes on to the next stage, takes the next result, moves
\* the cursor of chunk_page on inside the text, or cites one passage more of the
\* number wanted: none of the loops of retrieval.py turns on the spot, whatever
\* the pages look like, and an ended call does nothing more.
LookupAdvances == [][Advances]_lookupVars

LEMMA CursorInReach ==
  ASSUME DocsInv, stage = "chunk"
  PROVE  InReach
<1>1. LookupTypeOK /\ CursorOK /\ cursor \in Cursor
  BY DEF DocsInv, LookupTypeOK
<1>2. cursor.page <= Len(pages) + 1
  BY <1>1 DEF CursorOK, LookupTypeOK
<1>3. InPage => cursor.par <= Len(pages[cursor.page].text) + 1
  BY <1>1 DEF CursorOK
<1>4. ASSUME InText PROVE cursor.next <= Sentences(Here) + 1
  <2>1. CASE cursor.from = cursor.next
    <3>1. PICK i, j : i = cursor.page /\ j = cursor.par
      OBVIOUS
    <3>2. cursor = AtPar(i, j)
      BY <1>1, <2>1, <3>1 DEF CursorOK
    <3>3. cursor.next = 1
      BY <3>2 DEF AtPar, AtPage
    <3>4. QED
      BY <1>1, <1>4, <3>3, CursorTyped
  <2>2. CASE cursor.from # cursor.next
    BY <1>1, <2>2 DEF CursorOK
  <2>3. QED
    BY <2>1, <2>2
<1>5. QED
  BY <1>2, <1>3, <1>4 DEF InReach

LEMMA EveryStepAdvances ==
  ASSUME DocsInv, LookupNext, stage' = "chunk" => InReach'
  PROVE  Advances
<1>1. /\ LookupTypeOK
      /\ cursor.page \in Nat /\ cursor.par \in Nat /\ cursor.next \in Nat
  BY CursorTyped DEF DocsInv
<1>2. stage' = "chunk" => InReach'
  OBVIOUS
<1>3. CASE RefuseCall \/ FetchAnswered \/ \E o \in {"error", "raised"} : FetchFails(o)
  BY <1>3 DEF RefuseCall, FetchAnswered, FetchFails, Advances
<1>4. CASE MapResult
  <2>1. PICK n \in Nat : n = cursor.page + 1
    BY <1>1
  <2>2. stage = "fetch" /\ stage' = "fetch" /\ cursor' = AtPage(n)
    BY <1>4, <2>1 DEF MapResult
  <2>3. cursor'.page = n
    BY <2>2 DEF AtPage
  <2>4. Received \in Seq(Result) /\ cursor.page <= Len(Received)
    BY <1>1, <1>4, <2>2, ReceivedOK DEF MapResult, DocsInv, ResultsKept
  <2>5. n <= Len(Received) + 1
    BY <1>1, <2>1, <2>4
  <2>6. QED
    BY <2>1, <2>2, <2>3, <2>5 DEF Advances
<1>5. CASE Fetched
  BY <1>5 DEF Fetched, Advances
<1>6. CASE TakeWhole \/ LastPiece
  <2>1. PICK i, j : i = cursor.page /\ j = cursor.par + 1
    OBVIOUS
  <2>2. stage = "chunk" /\ stage' = "chunk" /\ cursor' = AtPar(i, j)
    BY <1>6, <2>1 DEF TakeWhole, LastPiece
  <2>3. cursor'.page = i /\ cursor'.par = j
    BY <2>2 DEF AtPar, AtPage
  <2>4. j > cursor.par
    BY <1>1, <2>1
  <2>5. QED
    BY <1>2, <2>1, <2>2, <2>3, <2>4 DEF Advances, Onward
<1>7. CASE JoinSentence \/ CutPiece
  <2>1. PICK n \in Nat : n = cursor.next + 1
    BY <1>1
  <2>2. PICK f : cursor' = [cursor EXCEPT !.from = f, !.next = n]
    <3>1. CASE JoinSentence
      <4>1. cursor' = [cursor EXCEPT !.next = n]
        BY <2>1, <3>1 DEF JoinSentence
      <4>2. cursor \in Cursor
        BY <1>1 DEF LookupTypeOK
      <4>3. cursor' = [cursor EXCEPT !.from = cursor.from, !.next = n]
        BY <4>1, <4>2 DEF Cursor
      <4>4. QED
        BY <4>3
    <3>2. CASE CutPiece
      BY <2>1, <3>2 DEF CutPiece
    <3>3. QED
      BY <1>7, <3>1, <3>2
  <2>3. cursor'.page = cursor.page /\ cursor'.par = cursor.par /\ cursor'.next = n
    BY <1>1, <2>2 DEF LookupTypeOK, Cursor
  <2>4. stage = "chunk" /\ stage' = "chunk"
    BY <1>7 DEF JoinSentence, CutPiece, InSentences
  <2>5. n > cursor.next
    BY <1>1, <2>1
  <2>6. QED
    BY <1>2, <2>3, <2>4, <2>5 DEF Advances, Onward
<1>8. CASE EndText
  <2>1. PICK n \in Nat : n = cursor.page + 1
    BY <1>1
  <2>2. stage = "chunk" /\ stage' = "chunk" /\ cursor' = AtPage(n)
    BY <1>8, <2>1 DEF EndText
  <2>3. cursor'.page = n
    BY <2>2 DEF AtPage
  <2>4. n > cursor.page
    BY <1>1, <2>1
  <2>5. QED
    BY <1>2, <2>2, <2>3, <2>4 DEF Advances, Onward
<1>9. CASE Index \/ Answered
  BY <1>9 DEF Index, Answered, Advances
<1>10. CASE Cite
  <2>1. /\ stage = "rank" /\ stage' = "rank" /\ Len(evidence) < Wanted
        /\ evidence \in Seq(Passages)
        /\ \E p \in Left : evidence' = Append(evidence, p)
    BY <1>1, <1>10 DEF Cite, LookupTypeOK
  <2>2. Wanted \in Nat
    BY <1>1, <2>1, Limited DEF DocsInv, ResultsKept, Chunked, LookupTypeOK
  <2>3. PICK n \in Nat : n = Len(evidence)
    BY <2>1
  <2>4. Len(evidence') = n + 1
    BY <2>1, <2>3
  <2>5. QED
    BY <2>1, <2>2, <2>3, <2>4 DEF Advances
<1>11. QED
  BY <1>3, <1>4, <1>5, <1>6, <1>7, <1>8, <1>9, <1>10 DEF LookupNext

\* No loop of a lookup turns on the spot, and each has an end.
THEOREM LookupsAdvance == LookupSpec => LookupAdvances
<1>1. DocsInv => (stage = "chunk" => InReach)
  BY CursorInReach
<1>2. DocsInv /\ (stage = "chunk" => InReach)' /\ [LookupNext]_lookupVars
        => [Advances]_lookupVars
  BY EveryStepAdvances
<1>3. QED
  BY DocsInvariant, <1>1, <1>2, PTL DEF LookupSpec, LookupAdvances
=============================================================================
