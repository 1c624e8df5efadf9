--------------------------- MODULE GitSearchProofs ---------------------------
(***************************************************************************)
(* Proofs about GitSearch, for every number of repositories, hints, pages  *)
(* and commits and every budget.                                           *)
(*                                                                         *)
(* A passage is right because the walk it sums up is: a walk about to      *)
(* list page n has counted n - 1 full pages, and one that reads page n     *)
(* holds what the host listed, which was everything unless the page was    *)
(* full. A search ends because each step pays or goes further in the       *)
(* plan.                                                                   *)
(***************************************************************************)
EXTENDS GitSearch, TLAPS

\* What the host has on the path of the walk by now.
Total == commits[item] + pushed[item]

\* The walk is about to list a page, or reads one.
Walking == at \in {"list", "detail"}

\* The request made next is one of the plan.
ItemInPlan ==
  /\ at = "search" => item \in Searches
  /\ Walking => item \in Paths
  /\ at = "search" => walk = NewWalk

\* A walk has counted full pages only, and no more commits than there are.
WalkCounts ==
  Walking =>
    /\ walk.page \in 1..MaxPages
    /\ walk.records + walk.left <= Total
    /\ at = "list" => /\ walk.left = 0
                      /\ walk.records = Offset(walk.page)
    /\ at = "detail" =>
         /\ walk.records + walk.left > 0
         /\ walk.full => walk.records + walk.left = Offset(walk.page) + PageSize
         /\ ~walk.full => walk.records + walk.left >= commits[item]

\* Its line counts stop at the sample limit or at the end of the budget.
WalkSamples ==
  Walking => /\ walk.detailed <= DetailLimit
             /\ \/ walk.capped
                \/ walk.detailed = walk.records
                \/ walk.detailed = DetailLimit

\* The call ends without evidence.
Gone == at \in {"failed", "raised"}

\* What has been passed over was passed over because the budget was spent, or
\* the answer had another shape.
SearchesAccounted ==
  /\ found \subseteq matches
  /\ ~Gone =>
       \A k \in matches : (at = "search" => k < item) =>
          k \in found \/ spent = limit \/ <<"search", k>> \in misshapen

PathsAccounted ==
  ~Gone /\ at # "search" =>
    \A p \in Paths : commits[p] > 0 /\ (Walking => p < item) =>
       churn[p].count > 0 \/ spent = limit \/ <<"list", p>> \in misshapen

GitInv ==
  /\ TypeOK
  /\ ItemInPlan
  /\ WalkCounts
  /\ WalkSamples
  /\ UncappedCountsAll
  /\ ThinDetailOwnsUp
  /\ SearchesAccounted
  /\ PathsAccounted

-----------------------------------------------------------------------------
\* The plan and the pages are counted in naturals.

LEMMA Sizes == Repos * Hints \in Nat /\ 2 * Repos \in Nat \ {0}
BY GitAssumption

LEMMA Offsets ==
  /\ \A n \in Nat \ {0} : Offset(n) \in Nat /\ Offset(n + 1) = Offset(n) + PageSize
  /\ Offset(1) = 0
<1>1. ASSUME NEW n \in Nat \ {0}
      PROVE  Offset(n) \in Nat /\ Offset(n + 1) = Offset(n) + PageSize
  <2>1. PICK k \in Nat : n = k + 1
    <3>1. n - 1 \in Nat
      OBVIOUS
    <3>2. QED
      BY <3>1
  <2>2. k * PageSize \in Nat /\ (k + 1) * PageSize = k * PageSize + PageSize
    BY GitAssumption
  <2>3. n - 1 = k /\ (n + 1) - 1 = k + 1
    BY <2>1
  <2>4. QED
    BY <2>2, <2>3 DEF Offset
<1>2. Offset(1) = 0
  BY GitAssumption DEF Offset
<1>3. QED
  BY <1>1, <1>2

LEMMA InitGit == Init => GitInv
<1> SUFFICES ASSUME Init PROVE GitInv
  OBVIOUS
<1> USE Sizes, Offsets, GitAssumption DEF Init
<1>1. TypeOK
  BY DEF TypeOK, Stages, Walk, NewWalk, Passage, NoPassage, settings, Searches
<1>2. ItemInPlan /\ WalkCounts /\ WalkSamples /\ PathsAccounted
  BY DEF ItemInPlan, WalkCounts, WalkSamples, PathsAccounted, Walking, Searches
<1>3. UncappedCountsAll /\ ThinDetailOwnsUp
  BY DEF UncappedCountsAll, ThinDetailOwnsUp, NoPassage
<1>4. SearchesAccounted
  BY DEF SearchesAccounted, Searches
<1>5. QED
  BY <1>1, <1>2, <1>3, <1>4 DEF GitInv

-----------------------------------------------------------------------------
\* A search that was answered or refused leaves nothing unaccounted for.

LEMMA SearchKeeps ==
  ASSUME GitInv, SearchAnswered \/ SearchMisshapen \/ SearchRefused
  PROVE  GitInv'
<1> USE Sizes, Offsets
<1>1. /\ at = "search" /\ item \in Searches
      /\ spent \in 0..limit /\ spent' \in spent..limit /\ limit \in Nat
      /\ found \subseteq found' /\ found' \subseteq matches
      /\ item \in matches =>
           item \in found' \/ spent' = limit \/ <<"search", item>> \in misshapen'
      /\ spent = limit => spent' = limit
      /\ misshapen \subseteq misshapen' /\ misshapen' \subseteq Requests
      /\ NextSearch
  BY GitAssumption
  DEF GitInv, TypeOK, ItemInPlan, SearchesAccounted, SearchAnswered,
      SearchMisshapen, SearchRefused, Affordable, Spent, Misshapen, Requests
<1>2. /\ UNCHANGED <<limit, matches, commits, pushed, walk, churn>>
      /\ walk \in Walk
  BY <1>1 DEF NextSearch, settings, GitInv, TypeOK
<1>3. CASE item < 2 * Repos
  <2>1. at' = "search" /\ item' = item + 1 /\ item' \in Searches
    BY <1>1, <1>3 DEF NextSearch, Searches
  <2>2. TypeOK' /\ ItemInPlan'
    BY <1>1, <1>2, <2>1 DEF GitInv, TypeOK, ItemInPlan, Walking
  <2>3. SearchesAccounted'
    <3>1. SearchesAccounted /\ matches \in SUBSET Searches
      BY DEF GitInv, TypeOK
    <3>2. \A k \in Searches : k < item + 1 => k < item \/ k = item
      BY <1>1 DEF Searches
    <3>3. QED
      BY <1>1, <1>2, <2>1, <3>1, <3>2 DEF SearchesAccounted, Gone
  <2>4. WalkCounts' /\ WalkSamples' /\ PathsAccounted'
    BY <2>1 DEF WalkCounts, WalkSamples, PathsAccounted, Walking
  <2>5. UncappedCountsAll' /\ ThinDetailOwnsUp'
    BY <1>1, <1>2 DEF GitInv, UncappedCountsAll, ThinDetailOwnsUp
  <2>6. QED
    BY <2>2, <2>3, <2>4, <2>5 DEF GitInv
<1>4. CASE ~(item < 2 * Repos)
  <2>1. /\ at' = FirstPath /\ item' = 1 /\ item = 2 * Repos
        /\ at' = "list" => 1 \in Paths
        /\ at' \in {"list", "done"}
        /\ at' = "done" => Paths = {}
    BY <1>1, <1>4 DEF NextSearch, FirstPath, Paths, Searches
  <2>2. TypeOK' /\ ItemInPlan'
    <3>1. 1 \in Searches
      BY DEF Searches
    <3>2. QED
      BY <1>1, <1>2, <2>1, <3>1
      DEF GitInv, TypeOK, ItemInPlan, Walking, Stages
  <2>3. SearchesAccounted'
    <3>1. SearchesAccounted /\ matches \in SUBSET Searches
      BY DEF GitInv, TypeOK
    <3>2. \A k \in Searches : k < item \/ k = item
      BY <1>1, <2>1 DEF Searches
    <3>3. QED
      BY <1>1, <1>2, <2>1, <3>1, <3>2 DEF SearchesAccounted, Gone
  <2>4. PathsAccounted'
    BY <2>1 DEF PathsAccounted, Walking, Paths
  <2>5. UncappedCountsAll' /\ ThinDetailOwnsUp'
    BY <1>1, <1>2 DEF GitInv, UncappedCountsAll, ThinDetailOwnsUp
  <2>6. WalkCounts' /\ WalkSamples'
    <3>1. walk' = NewWalk
      BY <1>1, <1>2 DEF GitInv, ItemInPlan
    <3>2. Walking' => commits'[1] \in Nat /\ pushed'[1] \in Nat
      BY <1>2, <2>1, GitAssumption DEF GitInv, TypeOK, Walking
    <3>3. QED
      BY <2>1, <3>1, <3>2, GitAssumption
      DEF WalkCounts, WalkSamples, Walking, NewWalk, Total
  <2>7. QED
    BY <2>2, <2>3, <2>4, <2>5, <2>6 DEF GitInv
<1>5. QED
  BY <1>3, <1>4

\* What a walk knows of itself, as numbers.
LEMMA WalkNumbers ==
  ASSUME GitInv, Walking
  PROVE  /\ item \in Paths
         /\ commits[item] \in Nat /\ pushed[item] \in Nat
         /\ walk.page \in 1..MaxPages /\ walk.page \in Nat \ {0}
         /\ MaxPages \in Nat /\ PageSize \in Nat \ {0} /\ DetailLimit \in Nat
         /\ walk.left \in Nat
         /\ walk.records \in Nat /\ walk.detailed \in Nat
         /\ walk.full \in BOOLEAN /\ walk.capped \in BOOLEAN
         /\ walk \in Walk
         /\ limit \in Nat /\ spent \in 0..limit
BY GitAssumption DEF GitInv, TypeOK, ItemInPlan, WalkCounts, Walk, Walking

\* What a step makes of a walk is a walk.
LEMMA WalkEdits ==
  ASSUME NEW w \in Walk, NEW n \in Nat, NEW r \in Nat, NEW d \in Nat,
         NEW b \in BOOLEAN
  PROVE  /\ [w EXCEPT !.left = n, !.full = b] \in Walk
         /\ [w EXCEPT !.capped = b] \in Walk
         /\ [w EXCEPT !.left = n, !.records = r, !.detailed = d] \in Walk
         /\ [w EXCEPT !.left = n, !.records = r, !.capped = b] \in Walk
         /\ [w EXCEPT !.page = n] \in Walk
BY DEF Walk

-----------------------------------------------------------------------------
\* A walk may end when its count is sound and its silence is explained.

LEMMA EndWalkKeeps ==
  ASSUME GitInv, Walking, NEW w \in Walk, EndWalk(w),
         UNCHANGED <<settings, pushed, found>>,
         spent' \in spent..limit,
         misshapen \subseteq misshapen', misshapen' \subseteq Requests,
         w.records <= Total,
         \/ w.capped
         \/ w.records >= commits[item]
         \/ <<"list", item>> \in misshapen',
         w.capped \/ w.detailed = w.records \/ w.detailed = DetailLimit,
         \/ commits[item] = 0 \/ w.records > 0 \/ spent' = limit
         \/ <<"list", item>> \in misshapen'
  PROVE  GitInv'
<1> USE Sizes
<1>1. /\ TypeOK /\ item \in Paths
      /\ UNCHANGED <<limit, matches, commits, pushed, found>>
      /\ spent \in 0..limit /\ limit \in Nat
  BY WalkNumbers DEF GitInv, settings
<1>2. Summary(w) \in Passage
  BY DEF Summary, Passage, NoPassage, Walk
<1>3. /\ churn' \in [Paths -> Passage]
      /\ churn'[item] = Summary(w)
      /\ \A p \in Paths : p # item => churn'[p] = churn[p]
  BY <1>1, <1>2 DEF EndWalk, TypeOK
<1>4. /\ walk' = NewWalk /\ NewWalk \in Walk
      /\ \/ item < Repos * Hints /\ item' = item + 1 /\ at' = "list"
         \/ item = Repos * Hints /\ item' = item /\ at' = "done"
  BY <1>1 DEF EndWalk, NewWalk, Walk, Paths
<1>5. item' \in Paths /\ at' \in {"list", "done"}
  BY <1>1, <1>4 DEF Paths
<1>6. TypeOK' /\ ItemInPlan'
  <2>1. limit \in 1..MaxApiCalls /\ spent' \in 0..limit
    BY <1>1 DEF TypeOK
  <2>2. QED
    BY <1>1, <1>3, <1>4, <1>5, <2>1 DEF TypeOK, ItemInPlan, Walking, Stages
<1>7. WalkCounts' /\ WalkSamples'
  <2>1. commits[item'] \in Nat /\ pushed[item'] \in Nat
    BY <1>1, <1>5, GitAssumption DEF TypeOK
  <2>2. QED
    BY <1>1, <1>4, <2>1, Offsets, GitAssumption
    DEF WalkCounts, WalkSamples, Walking, NewWalk, Total
<1>8. UncappedCountsAll'
  <2> SUFFICES ASSUME NEW p \in Paths, churn'[p].count > 0
               PROVE  /\ churn'[p].count <= commits[p] + pushed[p]
                      /\ \/ churn'[p].capped
                         \/ churn'[p].count >= commits[p]
                         \/ <<"list", p>> \in misshapen'
    BY <1>1 DEF UncappedCountsAll
  <2>1. CASE p = item
    BY <1>3, <2>1 DEF Summary, NoPassage, Total
  <2>2. CASE p # item
    BY <1>3, <2>2 DEF GitInv, UncappedCountsAll
  <2>3. QED
    BY <2>1, <2>2
<1>9. ThinDetailOwnsUp'
  <2> SUFFICES ASSUME NEW p \in Paths
               PROVE  \/ churn'[p].capped
                      \/ churn'[p].sampled = churn'[p].count
                      \/ churn'[p].sampled = DetailLimit
    BY DEF ThinDetailOwnsUp
  <2>1. CASE p = item
    BY <1>3, <2>1 DEF Summary, NoPassage
  <2>2. CASE p # item
    BY <1>3, <2>2 DEF GitInv, ThinDetailOwnsUp
  <2>3. QED
    BY <2>1, <2>2
<1>10. SearchesAccounted'
  BY <1>1, <1>5 DEF GitInv, SearchesAccounted, Walking, Gone
<1>11. PathsAccounted'
  <2> SUFFICES ASSUME NEW p \in Paths, commits[p] > 0, Walking' => p < item'
               PROVE  \/ churn'[p].count > 0 \/ spent' = limit
                      \/ <<"list", p>> \in misshapen'
    BY <1>1 DEF PathsAccounted
  <2>1. CASE p = item
    BY <1>3, <2>1 DEF Summary
  <2>2. CASE p # item
    <3>1. p < item
      BY <1>1, <1>4, <2>2 DEF Walking, Paths
    <3>2. churn[p].count > 0 \/ spent = limit \/ <<"list", p>> \in misshapen
      BY <3>1 DEF GitInv, PathsAccounted, Walking, Gone
    <3>3. QED
      BY <1>1, <1>3, <2>2, <3>2
  <2>3. QED
    BY <2>1, <2>2
<1>12. QED
  BY <1>6, <1>7, <1>8, <1>9, <1>10, <1>11 DEF GitInv

-----------------------------------------------------------------------------
\* While a walk goes on nothing it has to account for changes.

LEMMA WalkGoesOn ==
  ASSUME GitInv, Walking, Walking',
         UNCHANGED <<settings, pushed, item, found, churn, misshapen>>,
         spent' \in spent..limit,
         walk' \in Walk, WalkCounts', WalkSamples'
  PROVE  GitInv'
<1>1. /\ TypeOK
      /\ UNCHANGED <<limit, matches, commits, pushed, item, found, churn,
                     misshapen>>
      /\ limit \in Nat /\ spent \in 0..limit /\ spent' \in 0..limit
      /\ spent = limit => spent' = limit
  BY GitAssumption DEF GitInv, TypeOK, settings
<1>2. TypeOK' /\ ItemInPlan'
  BY <1>1 DEF GitInv, TypeOK, ItemInPlan, Walking, Stages
<1>3. UncappedCountsAll' /\ ThinDetailOwnsUp'
  BY <1>1 DEF GitInv, UncappedCountsAll, ThinDetailOwnsUp
<1>4. SearchesAccounted'
  BY <1>1 DEF GitInv, SearchesAccounted, Walking, Gone
<1>5. PathsAccounted'
  BY <1>1 DEF GitInv, PathsAccounted, Walking, Gone
<1>6. QED
  BY <1>2, <1>3, <1>4, <1>5 DEF GitInv

LEMMA ListAnsweredKeeps ==
  ASSUME GitInv, ListAnswered
  PROVE  GitInv'
<1>1. /\ at = "list" /\ Walking
      /\ UNCHANGED <<settings, pushed, found, misshapen>>
      /\ misshapen' \subseteq Requests
  BY DEF ListAnswered, Walking, GitInv, TypeOK
<1>2. spent' \in spent..limit
  BY <1>1, WalkNumbers DEF ListAnswered, Affordable, Spent
<1>3. /\ walk.left = 0 /\ walk.records = Offset(walk.page)
      /\ Offset(walk.page) <= Total
  BY <1>1, WalkNumbers DEF GitInv, WalkCounts
<1>4. /\ Total \in Nat /\ Total >= commits[item]
      /\ Listed(walk.page) \in 0..PageSize
      /\ Listed(walk.page) = 0 => Total = Offset(walk.page)
      /\ Offset(walk.page) + Listed(walk.page) <= Total
      /\ Listed(walk.page) # PageSize => Offset(walk.page) + Listed(walk.page) = Total
  <2>1. /\ Offset(walk.page) \in Nat
        /\ commits[item] \in Nat /\ pushed[item] \in Nat
        /\ PageSize \in Nat \ {0}
    BY <1>1, WalkNumbers, Offsets
  <2> DEFINE o == Offset(walk.page)  l == Listed(walk.page)
  <2>2. /\ Total \in Nat /\ Total >= commits[item] /\ o <= Total
        /\ Remaining(walk.page) = Total - o
    BY <1>3, <2>1 DEF Total, Remaining
  <2>3. l = IF Total - o < PageSize THEN Total - o ELSE PageSize
    BY <2>2 DEF Listed
  <2> HIDE DEF o, l
  <2>4. /\ l \in 0..PageSize
        /\ l = 0 => Total = o
        /\ o + l <= Total
        /\ l # PageSize => o + l = Total
    BY <2>1, <2>2, <2>3 DEF o
  <2>5. QED
    BY <2>2, <2>4 DEF o, l
<1>5. CASE Listed(walk.page) = 0
  <2>1. /\ walk.records <= Total /\ walk.records >= commits[item]
        /\ commits[item] = 0 \/ walk.records > 0
    BY <1>1, <1>3, <1>4, <1>5, WalkNumbers
  <2>2. walk.capped \/ walk.detailed = walk.records \/ walk.detailed = DetailLimit
    BY <1>1 DEF GitInv, WalkSamples
  <2>3. EndWalk(walk)
    BY <1>5 DEF ListAnswered
  <2>4. QED
    BY <1>1, <1>2, <2>1, <2>2, <2>3, WalkNumbers, EndWalkKeeps
<1>6. CASE Listed(walk.page) # 0
  <2>1. /\ walk' = [walk EXCEPT !.left = Listed(walk.page),
                                !.full = Listed(walk.page) = PageSize]
        /\ at' = "detail"
        /\ UNCHANGED <<limit, matches, commits, pushed, item, churn>>
    BY <1>6 DEF ListAnswered, settings
  <2>2. /\ walk' \in Walk
        /\ walk'.page = walk.page /\ walk'.records = walk.records
        /\ walk'.detailed = walk.detailed /\ walk'.capped = walk.capped
        /\ walk'.left = Listed(walk.page)
        /\ walk'.full <=> Listed(walk.page) = PageSize
    <3>1. walk \in Walk /\ Listed(walk.page) \in Nat
      BY <1>1, <1>4, WalkNumbers
    <3>2. (Listed(walk.page) = PageSize) \in BOOLEAN
      OBVIOUS
    <3>3. walk' \in Walk
      BY <2>1, <3>1, <3>2, WalkEdits
    <3>4. QED
      BY <2>1, <3>1, <3>3 DEF Walk
  <2>3. WalkCounts'
    <3>1. Total' = Total
      BY <2>1 DEF Total
    <3>2. QED
      BY <1>1, <1>3, <1>4, <1>6, <2>1, <2>2, <3>1, WalkNumbers
      DEF WalkCounts, Walking
  <2>4. WalkSamples'
    BY <1>1, <2>1, <2>2 DEF GitInv, WalkSamples, Walking
  <2>5. QED
    BY <1>1, <1>2, <2>1, <2>2, <2>3, <2>4, WalkGoesOn DEF Walking
<1>7. QED
  BY <1>5, <1>6

\* A page of another shape ends the walk as it stands.
LEMMA ListMisshapenKeeps ==
  ASSUME GitInv, ListMisshapen
  PROVE  GitInv'
<1>1. /\ at = "list" /\ Walking /\ EndWalk(walk)
      /\ UNCHANGED <<settings, pushed, found>>
      /\ misshapen' = misshapen \cup {<<"list", item>>}
  BY DEF ListMisshapen, Walking, Misshapen
<1>2. spent' \in spent..limit
  BY <1>1, WalkNumbers DEF ListMisshapen, Affordable, Spent
<1>3. misshapen' \subseteq Requests
  BY <1>1, WalkNumbers DEF GitInv, TypeOK, Requests
<1>4. walk \in Walk /\ walk.records <= Total
  BY <1>1, WalkNumbers DEF GitInv, WalkCounts, Total
<1>5. walk.capped \/ walk.detailed = walk.records \/ walk.detailed = DetailLimit
  BY <1>1 DEF GitInv, WalkSamples
<1>6. QED
  BY <1>1, <1>2, <1>3, <1>4, <1>5, EndWalkKeeps

LEMMA ListRefusedKeeps ==
  ASSUME GitInv, ListRefused
  PROVE  GitInv'
<1> DEFINE w == [walk EXCEPT !.capped = TRUE]
<1>1. /\ at = "list" /\ Walking /\ EndWalk(w)
      /\ UNCHANGED <<settings, pushed, found, misshapen>>
      /\ misshapen' \subseteq Requests
      /\ spent' = spent /\ ~Affordable
  BY DEF ListRefused, Walking, GitInv, TypeOK
<1>2. spent = limit /\ spent' \in spent..limit /\ spent' = limit
  BY <1>1, WalkNumbers DEF Affordable
<1>3. w \in Walk /\ w.capped /\ w.records <= Total
  <2>1. walk \in Walk /\ TRUE \in BOOLEAN
    BY <1>1, WalkNumbers
  <2>2. w \in Walk
    BY <2>1, WalkEdits
  <2>3. w.capped /\ w.records = walk.records
    BY <2>1 DEF Walk
  <2>4. walk.records <= Total
    BY <1>1, WalkNumbers DEF GitInv, WalkCounts, Total
  <2>5. QED
    BY <2>2, <2>3, <2>4
<1>4. QED
  BY <1>1, <1>2, <1>3, EndWalkKeeps

LEMMA DetailAnsweredKeeps ==
  ASSUME GitInv, DetailAnswered
  PROVE  GitInv'
<1>1. /\ at = "detail" /\ at' = "detail" /\ Walking /\ Walking' /\ WantsDetail
      /\ UNCHANGED <<limit, matches, commits, pushed, item, found, churn,
                     misshapen>>
      /\ walk' = [walk EXCEPT !.left = @ - 1, !.records = @ + 1,
                              !.detailed = @ + 1]
  BY DEF DetailAnswered, Walking, settings
<1>2. spent' \in spent..limit
  BY <1>1, WalkNumbers DEF DetailAnswered, Affordable, Spent
<1>3. /\ walk' \in Walk
      /\ walk'.page = walk.page /\ walk'.full = walk.full
      /\ walk'.capped = walk.capped
      /\ walk'.left = walk.left - 1 /\ walk'.records = walk.records + 1
      /\ walk'.detailed = walk.detailed + 1
  <2>1. /\ walk \in Walk
        /\ walk.left - 1 \in Nat /\ walk.records + 1 \in Nat
        /\ walk.detailed + 1 \in Nat
    BY <1>1, WalkNumbers DEF WantsDetail
  <2>2. walk' \in Walk
    BY <1>1, <2>1, WalkEdits
  <2>3. QED
    BY <1>1, <2>1, <2>2 DEF Walk
<1>4. WalkCounts'
  <2>1. Total' = Total /\ commits' = commits /\ item' = item
    BY <1>1 DEF Total
  <2>2. walk'.records + walk'.left = walk.records + walk.left
    BY <1>1, <1>3, WalkNumbers
  <2>3. QED
    BY <1>1, <1>3, <2>1, <2>2, WalkNumbers DEF GitInv, WalkCounts, Walking
<1>5. WalkSamples'
  BY <1>1, <1>3, WalkNumbers DEF GitInv, WalkSamples, Walking, WantsDetail
<1>6. QED
  BY <1>1, <1>2, <1>3, <1>4, <1>5, WalkGoesOn DEF settings

LEMMA EndPageKeeps ==
  ASSUME GitInv, EndPage
  PROVE  GitInv'
<1>1. /\ at = "detail" /\ Walking
      /\ UNCHANGED <<settings, spent, pushed, found, misshapen>>
      /\ misshapen' \subseteq Requests
      /\ ~(WantsDetail /\ Affordable)
  BY DEF EndPage, Walking, GitInv, TypeOK
<1>2. spent' \in spent..limit
  BY <1>1, WalkNumbers
<1>3. /\ PageRead \in Walk
      /\ PageRead.page = walk.page /\ PageRead.left = 0
      /\ PageRead.records = walk.records + walk.left
      /\ PageRead.detailed = walk.detailed
      /\ PageRead.capped = (walk.capped \/ (WantsDetail /\ ~Affordable) \/ CutShort(walk))
  <2> DEFINE capped == walk.capped \/ (WantsDetail /\ ~Affordable) \/ CutShort(walk)
  <2>1. /\ walk \in Walk /\ 0 \in Nat /\ walk.records + walk.left \in Nat
        /\ capped \in BOOLEAN
    BY <1>1, WalkNumbers
  <2>2. PageRead = [walk EXCEPT !.left = 0, !.records = walk.records + walk.left,
                                !.capped = capped]
    BY DEF PageRead
  <2>3. PageRead \in Walk
    BY <2>1, <2>2, WalkEdits
  <2> HIDE DEF capped
  <2>4. /\ PageRead.page = walk.page /\ PageRead.left = 0
        /\ PageRead.records = walk.records + walk.left
        /\ PageRead.detailed = walk.detailed
        /\ PageRead.capped = capped
    BY <2>1, <2>2 DEF Walk
  <2>5. QED
    BY <2>3, <2>4 DEF capped
<1>4. \/ PageRead.capped
      \/ PageRead.detailed = PageRead.records
      \/ PageRead.detailed = DetailLimit
  <2>1. CASE WantsDetail
    BY <1>1, <1>3, <2>1
  <2>2. CASE ~WantsDetail
    <3>1. /\ walk.detailed <= DetailLimit
          /\ \/ walk.capped
             \/ walk.detailed = walk.records
             \/ walk.detailed = DetailLimit
      BY <1>1 DEF GitInv, WalkSamples
    <3>2. walk.left = 0 \/ walk.detailed = DetailLimit
      <4>1. walk.left \in Nat /\ walk.detailed \in Nat /\ DetailLimit \in Nat
        BY <1>1, WalkNumbers
      <4>2. QED
        BY <2>2, <3>1, <4>1 DEF WantsDetail
    <3>3. QED
      BY <1>1, <1>3, <3>1, <3>2, WalkNumbers
  <2>3. QED
    BY <2>1, <2>2
<1>5. PageRead.records <= Total /\ PageRead.records > 0
  BY <1>1, <1>3, WalkNumbers DEF GitInv, WalkCounts, Total
<1>6. CASE walk.full /\ walk.page < MaxPages
  <2>1. /\ walk' = [PageRead EXCEPT !.page = @ + 1]
        /\ at' = "list" /\ Walking'
        /\ UNCHANGED <<commits, pushed, item, churn>>
    BY <1>1, <1>6 DEF EndPage, Walking, settings
  <2>2. /\ walk' \in Walk
        /\ walk'.page = walk.page + 1 /\ walk'.left = 0
        /\ walk'.records = PageRead.records
        /\ walk'.detailed = PageRead.detailed
        /\ walk'.capped = PageRead.capped
    BY <1>1, <1>3, <2>1, WalkNumbers DEF Walk
  <2>3. WalkCounts'
    <3>1. Total' = Total
      BY <2>1 DEF Total
    <3>2. walk'.records = Offset(walk'.page)
      BY <1>1, <1>3, <1>6, <2>2, WalkNumbers, Offsets DEF GitInv, WalkCounts
    <3>3. walk'.page \in 1..MaxPages
      <4>1. walk.page \in 1..MaxPages /\ MaxPages \in Nat
        BY <1>1, WalkNumbers
      <4>2. QED
        BY <1>6, <2>2, <4>1
    <3>4. walk'.records + walk'.left = walk'.records
      BY <1>1, <1>3, <2>2, WalkNumbers
    <3>5. QED
      BY <1>3, <1>5, <2>1, <2>2, <3>1, <3>2, <3>3, <3>4 DEF WalkCounts
  <2>4. WalkSamples'
    BY <1>1, <1>3, <1>4, <2>2 DEF GitInv, WalkSamples, Walking
  <2>5. QED
    BY <1>1, <1>2, <2>1, <2>2, <2>3, <2>4, WalkGoesOn
<1>7. CASE ~(walk.full /\ walk.page < MaxPages)
  <2>1. EndWalk(PageRead)
    BY <1>7 DEF EndPage
  <2>2. PageRead.capped \/ PageRead.records >= commits[item]
    <3>1. CASE walk.full
      <4>1. walk.page = MaxPages
        <5>1. walk.page \in 1..MaxPages /\ MaxPages \in Nat
          BY <1>1, WalkNumbers
        <5>2. QED
          BY <1>7, <3>1, <5>1
      <4>2. QED
        BY <1>3, <3>1, <4>1 DEF CutShort
    <3>2. CASE ~walk.full
      BY <1>1, <1>3, <3>2 DEF GitInv, WalkCounts
    <3>3. QED
      BY <3>1, <3>2
  <2>3. QED
    BY <1>1, <1>2, <1>3, <1>4, <1>5, <2>1, <2>2, EndWalkKeeps
<1>8. QED
  BY <1>6, <1>7

-----------------------------------------------------------------------------
\* The host's own steps.

LEMMA AbortedKeeps ==
  ASSUME GitInv, NEW outcome \in {"failed", "raised"}, Aborted(outcome),
         Asked \/ UNCHANGED spent
  PROVE  GitInv'
<1>1. /\ TypeOK /\ limit \in Nat /\ spent \in 0..limit
      /\ UNCHANGED <<limit, matches, commits, pushed, item, walk, found, churn,
                     misshapen>>
      /\ spent' \in 0..limit /\ at' = outcome
  BY GitAssumption
  DEF GitInv, TypeOK, Asked, Aborted, Affordable, Spent, settings
<1>2. TypeOK' /\ ItemInPlan'
  BY <1>1 DEF TypeOK, ItemInPlan, Walking, Stages
<1>3. WalkCounts' /\ WalkSamples' /\ PathsAccounted'
  BY <1>1 DEF WalkCounts, WalkSamples, PathsAccounted, Walking, Gone
<1>4. UncappedCountsAll' /\ ThinDetailOwnsUp'
  BY <1>1 DEF GitInv, UncappedCountsAll, ThinDetailOwnsUp
<1>5. SearchesAccounted'
  BY <1>1 DEF GitInv, SearchesAccounted, Gone
<1>6. QED
  BY <1>2, <1>3, <1>4, <1>5 DEF GitInv

\* A commit more on the host makes no count too large and none too small.
LEMMA PushKeeps ==
  ASSUME GitInv, NEW p \in Paths, Push(p)
  PROVE  GitInv'
<1>1. /\ TypeOK
      /\ UNCHANGED <<limit, spent, matches, commits, at, item, walk, found, churn,
                     misshapen>>
      /\ pushed' = [pushed EXCEPT ![p] = @ + 1] /\ pushed[p] < MaxPushes
  BY DEF GitInv, Push, settings
<1>2. /\ pushed' \in [Paths -> 0..MaxPushes]
      /\ \A q \in Paths : /\ pushed[q] \in Nat /\ pushed'[q] \in Nat
                          /\ commits[q] \in Nat
                          /\ pushed[q] <= pushed'[q]
  BY <1>1, GitAssumption DEF TypeOK
<1>3. TypeOK' /\ ItemInPlan'
  BY <1>1, <1>2 DEF GitInv, TypeOK, ItemInPlan, Walking
<1>4. WalkCounts'
  <2> SUFFICES ASSUME Walking'
               PROVE  WalkCounts'
    BY DEF WalkCounts
  <2>1. Walking
    BY <1>1 DEF Walking
  <2>2. Total \in Nat /\ Total' \in Nat /\ Total <= Total'
    BY <1>1, <1>2, <2>1, WalkNumbers DEF Total
  <2>3. walk.records + walk.left <= Total'
    BY <2>1, <2>2, WalkNumbers DEF GitInv, WalkCounts
  <2>4. QED
    BY <1>1, <2>1, <2>3 DEF GitInv, WalkCounts, Offset
<1>5. WalkSamples' /\ ThinDetailOwnsUp'
  BY <1>1 DEF GitInv, WalkSamples, ThinDetailOwnsUp, Walking
<1>6. UncappedCountsAll'
  <2> SUFFICES ASSUME NEW q \in Paths, churn[q].count > 0
               PROVE  /\ churn[q].count <= commits[q] + pushed'[q]
                      /\ \/ churn[q].capped
                         \/ churn[q].count >= commits[q]
                         \/ <<"list", q>> \in misshapen
    BY <1>1 DEF UncappedCountsAll
  <2>1. /\ churn[q].count <= commits[q] + pushed[q]
        /\ \/ churn[q].capped
           \/ churn[q].count >= commits[q]
           \/ <<"list", q>> \in misshapen
    BY DEF GitInv, UncappedCountsAll
  <2>2. churn[q].count \in Nat
    BY <1>1 DEF TypeOK, Passage
  <2>3. QED
    BY <1>2, <2>1, <2>2
<1>7. SearchesAccounted' /\ PathsAccounted'
  BY <1>1 DEF GitInv, SearchesAccounted, PathsAccounted, Walking, Gone
<1>8. QED
  BY <1>3, <1>4, <1>5, <1>6, <1>7 DEF GitInv

-----------------------------------------------------------------------------
LEMMA GitStep == GitInv /\ [Next]_vars => GitInv'
<1> SUFFICES ASSUME GitInv, [Next]_vars PROVE GitInv'
  OBVIOUS
<1>1. CASE Connector
  BY <1>1, SearchKeeps, ListAnsweredKeeps, ListMisshapenKeeps, ListRefusedKeeps,
     DetailAnsweredKeeps, EndPageKeeps, AbortedKeeps
  DEF Connector, RequestFails, AnswerRaises
<1>2. CASE \E p \in Paths : Push(p)
  BY <1>2, PushKeeps
<1>3. CASE UNCHANGED vars
  <2> USE <1>3 DEF vars, settings
  <2>1. TypeOK' /\ ItemInPlan' /\ WalkSamples'
    BY DEF GitInv, TypeOK, ItemInPlan, WalkSamples, Walking
  <2>2. WalkCounts'
    BY DEF GitInv, WalkCounts, Walking, Total, Offset
  <2>3. UncappedCountsAll' /\ ThinDetailOwnsUp'
    BY DEF GitInv, UncappedCountsAll, ThinDetailOwnsUp
  <2>4. SearchesAccounted' /\ PathsAccounted'
    BY DEF GitInv, SearchesAccounted, PathsAccounted, Walking, Gone
  <2>5. QED
    BY <2>1, <2>2, <2>3, <2>4 DEF GitInv
<1>4. QED
  BY <1>1, <1>2, <1>3 DEF Next

\* The invariant holds of every search.
THEOREM GitInvariant == Spec => []GitInv
<1>1. QED
  BY InitGit, GitStep, PTL DEF Spec

\* Every state is well typed, and no search overspends its budget.
THEOREM SearchTyped == Spec => []TypeOK
<1>1. GitInv => TypeOK
  BY DEF GitInv
<1>2. QED
  BY GitInvariant, <1>1, PTL

\* A passage without "at least" has counted every commit there was when the
\* search began, unless a page of its path was answered by something else than
\* a list (commits_touching); no passage counts more than there are.
THEOREM CountsAreSound == Spec => []UncappedCountsAll
<1>1. GitInv => UncappedCountsAll
  BY DEF GitInv
<1>2. QED
  BY GitInvariant, <1>1, PTL

\* Line counts leave commits out only at the sample limit or in a capped
\* passage.
THEOREM SamplesAreSound == Spec => []ThinDetailOwnsUp
<1>1. GitInv => ThinDetailOwnsUp
  BY DEF GitInv
<1>2. QED
  BY GitInvariant, <1>1, PTL

\* What is accounted for when the search is done.
LEMMA SilenceAccounted ==
  ASSUME GitInv
  PROVE  SilenceMeansSpent
<1> SUFFICES ASSUME at = "done", spent < limit
             PROVE  /\ found \subseteq matches
                    /\ \A k \in matches : k \in found \/ <<"search", k>> \in misshapen
                    /\ \A p \in Paths : commits[p] > 0 =>
                         churn[p].count > 0 \/ <<"list", p>> \in misshapen
  BY DEF SilenceMeansSpent
<1>1. spent # limit /\ ~Gone /\ ~Walking /\ at # "search"
  BY GitAssumption DEF GitInv, TypeOK, Gone, Walking
<1>2. QED
  BY <1>1 DEF GitInv, SearchesAccounted, PathsAccounted

\* A completed search keeps silent about what the host knew only when its
\* budget is spent, or where the answer to that request had another shape.
THEOREM SilenceExplained == Spec => []SilenceMeansSpent
<1>1. GitInv => SilenceMeansSpent
  BY SilenceAccounted
<1>2. QED
  BY GitInvariant, <1>1, PTL

-----------------------------------------------------------------------------
(***************************************************************************)
(* Why a search ends: no request is made twice without paying for it.      *)
(***************************************************************************)

\* The search goes to a later place of its plan: another search, the paths, a
\* later path, a later page of the path, or the end.
Further ==
  \/ at # "done" /\ at' = "done"
  \/ at = "detail" /\ at' = "raised"
  \/ at = "search" /\ Walking'
  \/ at = "search" /\ at' = "search" /\ item' > item
  \/ Walking /\ Walking' /\ (item' > item \/ (item' = item /\ walk'.page > walk.page))

\* Every step of the connector spends a call of the budget or, for nothing, goes
\* further in a plan of 2 * Repos searches and Repos * Hints walks of at most
\* MaxPages pages, so that neither a refused request nor a full page keeps it
\* where it is (connector.py: refusals end a walk; hosts.py: pages are counted).
SearchAdvances ==
  [][Connector => \/ spent' = spent + 1 /\ spent' <= limit
                  \/ spent' = spent /\ Further /\ walk'.page <= MaxPages]_vars

LEMMA EndWalkAdvances ==
  ASSUME GitInv, Walking, NEW w, EndWalk(w)
  PROVE  Further /\ walk'.page <= MaxPages
<1>1. /\ walk' = NewWalk
      /\ \/ item' = item + 1 /\ at' = "list"
         \/ at' = "done"
  BY DEF EndWalk
<1>2. walk'.page = 1 /\ 1 <= MaxPages
  BY <1>1, GitAssumption DEF NewWalk
<1>3. item \in Nat /\ at # "done"
  BY WalkNumbers, Sizes DEF Paths, Walking
<1>4. Further
  BY <1>1, <1>3 DEF Further, Walking
<1>5. QED
  BY <1>2, <1>4

LEMMA ConnectorAdvances ==
  ASSUME GitInv, Connector
  PROVE  \/ spent' = spent + 1 /\ spent' <= limit
         \/ spent' = spent /\ Further /\ walk'.page <= MaxPages
<1>1. spent \in Nat /\ limit \in Nat
  BY GitAssumption DEF GitInv, TypeOK
<1>2. CASE Asked \/ SearchAnswered \/ SearchMisshapen \/ ListAnswered
           \/ ListMisshapen \/ DetailAnswered
  BY <1>1, <1>2
     DEF Asked, SearchAnswered, SearchMisshapen, ListAnswered, ListMisshapen,
         DetailAnswered, Affordable, Spent
<1>3. CASE SearchRefused
  <2>1. at = "search" /\ spent' = spent /\ NextSearch /\ item \in Nat /\ walk = NewWalk
    BY <1>3, Sizes DEF SearchRefused, GitInv, ItemInPlan, Searches
  <2>2. walk'.page <= MaxPages
    BY <2>1, GitAssumption DEF NextSearch, NewWalk
  <2>3. CASE item < 2 * Repos
    BY <2>1, <2>2, <2>3 DEF NextSearch, Further
  <2>4. CASE ~ (item < 2 * Repos)
    BY <2>1, <2>2, <2>4 DEF NextSearch, FirstPath, Further, Walking
  <2>5. QED
    BY <2>3, <2>4
<1>4. CASE ListRefused
  BY <1>4, EndWalkAdvances DEF ListRefused, Walking
<1>5. CASE EndPage
  <2>1. Walking /\ spent' = spent
    BY <1>5 DEF EndPage, Walking
  <2>2. CASE walk.full /\ walk.page < MaxPages
    <3>1. PICK w : w = PageRead /\ DOMAIN w = DOMAIN walk /\ w.page = walk.page
      <4>1. walk \in Walk
        BY <2>1, WalkNumbers
      <4>2. PICK r, c : PageRead = [walk EXCEPT !.left = 0, !.records = r, !.capped = c]
        BY DEF PageRead
      <4>3. PICK w : w = PageRead
        OBVIOUS
      <4>4. DOMAIN w = DOMAIN walk /\ w.page = walk.page
        BY <4>1, <4>2, <4>3 DEF Walk
      <4>5. QED
        BY <4>3, <4>4
    <3>2. walk' = [PageRead EXCEPT !.page = @ + 1] /\ at' = "list" /\ item' = item
      BY <1>5, <2>2 DEF EndPage
    <3>3. PICK n \in Nat : n = walk.page + 1
      BY <2>1, WalkNumbers
    <3>4. walk'.page = n
      <4>1. walk' = [w EXCEPT !.page = n]
        BY <3>1, <3>2, <3>3
      <4>2. "page" \in DOMAIN w
        BY <2>1, <3>1, WalkNumbers DEF Walk
      <4>3. QED
        BY <4>1, <4>2
    <3>5. n > walk.page /\ n <= MaxPages
      BY <2>1, <2>2, <3>3, WalkNumbers
    <3>6. Further
      BY <2>1, <3>2, <3>4, <3>5 DEF Further, Walking
    <3>7. QED
      BY <2>1, <3>4, <3>5, <3>6
  <2>3. CASE ~ (walk.full /\ walk.page < MaxPages)
    BY <1>5, <2>1, <2>3, EndWalkAdvances DEF EndPage
  <2>4. QED
    BY <2>2, <2>3
<1>6. CASE AnswerRaises /\ ~ Asked
  <2>1. spent' = spent /\ at = "detail" /\ at' = "raised" /\ walk' = walk
    BY <1>6 DEF AnswerRaises, Aborted
  <2>2. walk'.page <= MaxPages
    BY <2>1, WalkNumbers DEF Walking
  <2>3. QED
    BY <2>1, <2>2 DEF Further
<1>7. QED
  BY <1>2, <1>3, <1>4, <1>5, <1>6 DEF Connector, RequestFails

\* A search never asks twice for the same without paying, and never goes back.
THEOREM SearchesAdvance == Spec => SearchAdvances
<1>1. GitInv /\ [Next]_vars =>
        [Connector => \/ spent' = spent + 1 /\ spent' <= limit
                      \/ spent' = spent /\ Further /\ walk'.page <= MaxPages]_vars
  BY ConnectorAdvances
<1>2. QED
  BY GitInvariant, <1>1, PTL DEF Spec, SearchAdvances
=============================================================================
