---------------------------- MODULE OutboundProofs ----------------------------
(***************************************************************************)
(* Proofs about ModelCall, for every number of retries and of texts, and   *)
(* then about OutboundCalls, which puts the three outbound calls together. *)
(*                                                                         *)
(* Retries: while a call is under way every request so far met an outage,  *)
(* and it has paused as often as it has begun again.                       *)
(* Order: n honest rows are the rows of indexes 0 to n - 1, each once, so  *)
(* sorting them is a strictly increasing map of 1..n into itself, and that *)
(* is the identity: were f[k] < k, it would map 1..k into fewer places.    *)
(* Together: a step of one call leaves the other two alone, so the three   *)
(* invariants hold side by side once they hold of a component without a    *)
(* call.                                                                   *)
(***************************************************************************)
EXTENDS OutboundCalls, GitSearchProofs, DocsSearchProofs, FiniteSetTheorems

\* What holds between two awaits of a call that is not over.
UnderWay ==
  phase # "done" =>
    /\ reply = "none"
    /\ vectors = <<>>
    /\ \A k \in DOMAIN heard : heard[k] \in Retryable
    /\ ask.texts = 0 => heard = <<>>
    /\ phase = "post" => Len(heard) = attempt
    /\ phase = "pause" => Len(heard) = attempt + 1 /\ attempt < MaxRetries

AskInv ==
  /\ ask \in Ask
  /\ phase \in Phases
  /\ attempt \in 0..MaxRetries
  /\ pauses = attempt
  /\ heard \in Seq(Outcomes)
  /\ UnderWay
  /\ RetriesAreEarned
  /\ VectorsInOrder

-----------------------------------------------------------------------------
\* A strictly increasing map of 1..n into itself moves nothing.
LEMMA IncreasingIsIdentity ==
  ASSUME NEW n \in Nat, NEW f \in [1..n -> 1..n],
         \A i, j \in 1..n : i < j => f[i] < f[j],
         NEW k \in 1..n
  PROVE  f[k] = k
<1>1. k \in Int /\ f[k] \in 1..n
  OBVIOUS
<1>2. ~ (f[k] < k)
  <2>1. SUFFICES ASSUME f[k] < k PROVE FALSE
    OBVIOUS
  <2>2. \A i \in 1..k : f[i] \in 1..f[k]
    <3>1. ASSUME NEW i \in 1..k
          PROVE  f[i] \in 1..f[k]
      <4>1. i \in 1..n /\ (i = k \/ i < k)
        BY <1>1
      <4>2. f[i] \in 1..n /\ (f[i] = f[k] \/ f[i] < f[k])
        BY <4>1
      <4>3. QED
        BY SMTT(30), <1>1, <4>2
    <3>2. QED
      BY <3>1
  <2>3. PICK S : S = 1..k
    OBVIOUS
  <2>4. PICK T : T = 1..f[k]
    OBVIOUS
  <2>5. IsFiniteSet(S) /\ Cardinality(S) = k - 1 + 1
    BY <1>1, <2>3, FS_Interval
  <2>6. IsFiniteSet(T) /\ Cardinality(T) = f[k] - 1 + 1
    BY <1>1, <2>4, FS_Interval
  <2>7. Cardinality(T) < Cardinality(S)
    BY <1>1, <2>1, <2>5, <2>6
  <2>8. PICK g : g = [i \in S |-> f[i]]
    OBVIOUS
  <2>9. g \in [S -> T]
    BY <2>2, <2>3, <2>4, <2>8
  <2>10. \E x, y \in S : x # y /\ g[x] = g[y]
    BY <2>5, <2>6, <2>7, <2>9, FS_PigeonHole
  <2>11. QED
    BY <1>1, <2>3, <2>8, <2>10
<1>3. ~ (f[k] > k)
  <2>1. SUFFICES ASSUME f[k] > k PROVE FALSE
    OBVIOUS
  <2>2. \A i \in k..n : f[i] \in f[k]..n
    <3>1. ASSUME NEW i \in k..n
          PROVE  f[i] \in f[k]..n
      <4>1. i \in 1..n /\ (i = k \/ k < i)
        BY <1>1
      <4>2. f[i] \in 1..n /\ (f[i] = f[k] \/ f[k] < f[i])
        BY <4>1
      <4>3. QED
        BY SMTT(30), <1>1, <4>2
    <3>2. QED
      BY <3>1
  <2>3. PICK S : S = k..n
    OBVIOUS
  <2>4. PICK T : T = f[k]..n
    OBVIOUS
  <2>5. IsFiniteSet(S) /\ Cardinality(S) = n - k + 1
    BY <1>1, <2>3, FS_Interval
  <2>6. IsFiniteSet(T) /\ Cardinality(T) = n - f[k] + 1
    BY <1>1, <2>4, FS_Interval
  <2>7. Cardinality(T) < Cardinality(S)
    BY <1>1, <2>1, <2>5, <2>6
  <2>8. PICK g : g = [i \in S |-> f[i]]
    OBVIOUS
  <2>9. g \in [S -> T]
    BY <2>2, <2>3, <2>4, <2>8
  <2>10. \E x, y \in S : x # y /\ g[x] = g[y]
    BY <2>5, <2>6, <2>7, <2>9, FS_PigeonHole
  <2>11. QED
    BY <1>1, <2>3, <2>8, <2>10
<1>4. QED
  BY <1>1, <1>2, <1>3

\* A map of 1..n into itself that never takes a value twice takes every value.
LEMMA InjectiveIsOnto ==
  ASSUME NEW n \in Nat, NEW q \in [1..n -> 1..n],
         \A t, u \in 1..n : q[t] = q[u] => t = u,
         NEW i \in 1..n
  PROVE  \E t \in 1..n : q[t] = i
<1>1. SUFFICES ASSUME \A t \in 1..n : q[t] # i PROVE FALSE
  OBVIOUS
<1>2. PICK S : S = 1..n
  OBVIOUS
<1>3. PICK T : T = S \ {i}
  OBVIOUS
<1>4. q \in [S -> T]
  BY <1>1, <1>2, <1>3
<1>5. IsFiniteSet(S) /\ Cardinality(S) = n
  BY <1>2, FS_Interval
<1>6. IsFiniteSet(T) /\ Cardinality(T) = n - 1
  BY <1>2, <1>3, <1>5, FS_RemoveElement
<1>7. Cardinality(T) < Cardinality(S)
  BY <1>5, <1>6
<1>8. \E x, y \in S : x # y /\ q[x] = q[y]
  BY SMTT(30), <1>4, <1>5, <1>6, <1>7, FS_PigeonHole
<1>9. QED
  BY <1>2, <1>8

\* The vectors of an honest answer are in the order of the texts.
LEMMA HonestInOrder ==
  ASSUME NEW rows \in Seq(Row), NEW n \in Nat, n = ask.texts, Honest(rows)
  PROVE  [i \in DOMAIN rows |-> rows[ByIndex(rows)[i]].text] = [t \in 1..n |-> t]
<1>1. /\ DOMAIN rows = 1..n /\ rows \in [1..n -> Row]
      /\ \A t \in 1..n : \E i \in 1..n : rows[i] = [index |-> t - 1, text |-> t]
  BY DEF Honest
<1>2. PICK q \in [1..n -> 1..n] :
        \A t \in 1..n : rows[q[t]].index = t - 1 /\ rows[q[t]].text = t
  <2>1. PICK q : q = [t \in 1..n |-> CHOOSE i \in 1..n :
                                        rows[i] = [index |-> t - 1, text |-> t]]
    OBVIOUS
  <2>2. \A t \in 1..n : q[t] \in 1..n /\ rows[q[t]] = [index |-> t - 1, text |-> t]
    BY <1>1, <2>1
  <2>3. q \in [1..n -> 1..n]
    BY <2>1, <2>2
  <2>4. \A t \in 1..n : rows[q[t]].index = t - 1 /\ rows[q[t]].text = t
    <3>1. SUFFICES ASSUME NEW t \in 1..n
                   PROVE  rows[q[t]].index = t - 1 /\ rows[q[t]].text = t
      OBVIOUS
    <3>2. PICK r : r = [index |-> t - 1, text |-> t]
      OBVIOUS
    <3>3. r.index = t - 1 /\ r.text = t
      BY <3>2
    <3>4. rows[q[t]] = r
      BY <2>2, <3>2
    <3>5. QED
      BY <3>3, <3>4
  <2>5. QED
    BY <2>3, <2>4
<1>3. PICK p \in [1..n -> 1..n] :
      /\ p = ByIndex(rows)
      /\ \A i, j \in 1..n : i < j =>
           \/ rows[p[i]].index < rows[p[j]].index
           \/ rows[p[i]].index = rows[p[j]].index /\ p[i] < p[j]
  <2>1. \A i, j \in 1..n : i < j => rows[q[i]].index < rows[q[j]].index
    BY <1>2
  <2>2. QED
    BY <1>1, <1>2, <2>1 DEF ByIndex
<1>4. \A i \in 1..n : \E t \in 1..n : q[t] = i
  <2>1. \A t, u \in 1..n : q[t] = q[u] => t = u
    BY <1>2
  <2>2. QED
    BY ZenonT(30), <2>1, InjectiveIsOnto
<1>5. \A i \in 1..n : rows[i].text \in 1..n /\ rows[i].index = rows[i].text - 1
  <2>1. SUFFICES ASSUME NEW i \in 1..n
                 PROVE  rows[i].text \in 1..n /\ rows[i].index = rows[i].text - 1
    OBVIOUS
  <2>2. PICK t \in 1..n : q[t] = i
    BY <1>4
  <2>3. QED
    BY <1>2, <2>2
<1>6. \A i, j \in 1..n : rows[i].index = rows[j].index => i = j
  <2>1. SUFFICES ASSUME NEW i \in 1..n, NEW j \in 1..n,
                        rows[i].index = rows[j].index
                 PROVE  i = j
    OBVIOUS
  <2>2. PICK t \in 1..n : q[t] = i
    BY <1>4
  <2>3. PICK u \in 1..n : q[u] = j
    BY <1>4
  <2>4. t - 1 = u - 1
    BY <1>2, <2>1, <2>2, <2>3
  <2>5. QED
    BY <2>2, <2>3, <2>4
<1>7. PICK f : f = [i \in 1..n |-> rows[p[i]].text]
  OBVIOUS
<1>8. f \in [1..n -> 1..n]
  BY <1>3, <1>5, <1>7
<1>9. \A i, j \in 1..n : i < j => f[i] < f[j]
  <2>1. SUFFICES ASSUME NEW i \in 1..n, NEW j \in 1..n, i < j
                 PROVE  f[i] < f[j]
    OBVIOUS
  <2>2. p[i] \in 1..n /\ p[j] \in 1..n
    BY <1>3, <2>1
  <2>3. rows[p[i]].index < rows[p[j]].index
    BY SMTT(30), <1>1, <1>3, <1>6, <2>1, <2>2
  <2>4. QED
    BY <1>1, <1>5, <1>7, <2>1, <2>2, <2>3
<1>10. \A k \in 1..n : f[k] = k
  BY <1>1, <1>8, <1>9, IncreasingIsIdentity
<1>11. f = [t \in 1..n |-> t]
  BY <1>7, <1>10
<1>12. QED
  BY <1>1, <1>3, <1>7, <1>11

-----------------------------------------------------------------------------
LEMMA AskStarts == AskInit => AskInv
BY ModelAssumption
   DEF AskInit, AskInv, UnderWay, RetriesAreEarned, VectorsInOrder, Phases

\* A request is sent and answered in one step, so what it hears is appended.
LEMMA Heard ==
  ASSUME AskInv, Sending, NEW outcome \in Outcomes, Hear(outcome)
  PROVE  /\ reply = "none" /\ vectors = <<>> /\ Len(heard) = attempt
         /\ heard' \in Seq(Outcomes) /\ Len(heard') = attempt + 1
         /\ heard'[Len(heard')] = outcome
         /\ \A k \in DOMAIN heard' : k < Len(heard') => heard'[k] \in Retryable
<1>1. /\ heard \in Seq(Outcomes) /\ attempt \in Nat
      /\ reply = "none" /\ vectors = <<>> /\ Len(heard) = attempt
      /\ \A k \in DOMAIN heard : heard[k] \in Retryable
  BY ModelAssumption DEF AskInv, UnderWay, Sending
<1>2. /\ heard' = Append(heard, outcome)
      /\ heard' \in Seq(Outcomes) /\ Len(heard') = attempt + 1
      /\ heard'[Len(heard')] = outcome
      /\ \A k \in 1..attempt : heard'[k] = heard[k]
  BY <1>1 DEF Hear
<1>3. QED
  BY <1>1, <1>2

\* An answer that ends the call, be it an outage on the last attempt.
LEMMA ReplyKeeps ==
  ASSUME AskInv, Sending, NEW outcome \in Outcomes, Hear(outcome),
         NEW r \in ModelReplies, Reply(r),
         UNCHANGED <<ask, attempt, pauses>>,
         outcome \in Retryable => attempt = MaxRetries /\ r = "LLMError",
         r = "value" => outcome = "body",
         VectorsInOrder'
  PROVE  AskInv'
<1>1. /\ ask' \in Ask /\ attempt' \in 0..MaxRetries /\ pauses' = attempt'
      /\ attempt' = attempt /\ phase' = "done" /\ reply' = r
  BY DEF AskInv, Reply
<1>2. /\ heard' \in Seq(Outcomes) /\ Len(heard') = attempt + 1
      /\ heard'[Len(heard')] = outcome
      /\ \A k \in DOMAIN heard' : k < Len(heard') => heard'[k] \in Retryable
  BY Heard
<1>3. RetriesAreEarned'
  BY <1>1, <1>2, ModelAssumption DEF RetriesAreEarned
<1>4. QED
  BY <1>1, <1>2, <1>3 DEF AskInv, UnderWay, Phases

\* A call that returns no value, or no vectors, returns none out of order.
LEMMA NoVectors ==
  ASSUME reply' # "value" \/ ask'.method = "structured"
  PROVE  VectorsInOrder'
BY DEF VectorsInOrder

LEMMA AskKeeps == AskInv /\ [AskNext]_askVars => AskInv'
<1> SUFFICES ASSUME AskInv, [AskNext]_askVars PROVE AskInv'
  OBVIOUS
<1>1. CASE NothingToEmbed
  <2>1. /\ ask.texts = 0 /\ phase = "post" /\ ask \in Ask
        /\ vectors = <<>> /\ heard = <<>>
    BY <1>1 DEF NothingToEmbed, AskInv, UnderWay
  <2>2. ask.method # "embed_one" /\ data' = data /\ vectors' = <<>> /\ ask' = ask
    BY <1>1, <2>1, ModelAssumption DEF NothingToEmbed, Ask
  <2>3. vectors' = [t \in 1..ask'.texts |-> t]
    BY <2>1, <2>2
  <2>4. VectorsInOrder'
    BY <2>2, <2>3 DEF VectorsInOrder
  <2>5. RetriesAreEarned'
    BY <1>1, <2>1 DEF NothingToEmbed, RetriesAreEarned, AskInv
  <2>6. QED
    BY <1>1, <2>4, <2>5 DEF NothingToEmbed, AskInv, UnderWay, Reply, Phases
<1>2. ASSUME NEW outcome \in Retryable, Postponed(outcome)
      PROVE  AskInv'
  <2>1. /\ outcome \in Outcomes /\ AskInv /\ Sending /\ Hear(outcome)
        /\ attempt < MaxRetries /\ attempt \in Nat /\ ask.texts > 0
        /\ UNCHANGED <<ask, attempt, pauses, vectors, reply>> /\ phase' = "pause"
    BY <1>2, ModelAssumption
       DEF Postponed, Sending, RetryLeft, Retryable, Outcomes, AskInv
  <2>2. /\ reply' = "none" /\ vectors' = <<>>
        /\ heard' \in Seq(Outcomes) /\ Len(heard') = attempt + 1
        /\ heard'[Len(heard')] = outcome
        /\ \A k \in DOMAIN heard' : k < Len(heard') => heard'[k] \in Retryable
    BY <2>1, Heard
  <2>3. \A k \in DOMAIN heard' : heard'[k] \in Retryable
    BY <1>2, <2>2
  <2>4. pauses' <= MaxRetries
    BY <2>1, ModelAssumption DEF AskInv
  <2>5. RetriesAreEarned' /\ VectorsInOrder'
    BY <2>1, <2>2, <2>3, <2>4 DEF RetriesAreEarned, VectorsInOrder
  <2>6. QED
    BY <2>1, <2>2, <2>3, <2>5 DEF AskInv, UnderWay, Phases
<1>3. ASSUME NEW outcome \in Retryable, GivenUp(outcome)
      PROVE  AskInv'
  <2>1. /\ outcome \in Outcomes /\ Sending /\ Hear(outcome) /\ Reply("LLMError")
        /\ attempt = MaxRetries /\ UNCHANGED <<ask, attempt, pauses>>
    BY <1>3, ModelAssumption
       DEF GivenUp, RetryLeft, Retryable, Outcomes, AskInv
  <2>2. VectorsInOrder'
    BY <2>1, NoVectors DEF Reply
  <2>3. QED
    BY <2>1, <2>2, ReplyKeeps DEF ModelReplies
<1>4. CASE Awoken
  <2>1. /\ phase = "pause" /\ attempt < MaxRetries /\ Len(heard) = attempt + 1
        /\ attempt \in 0..MaxRetries /\ pauses = attempt
        /\ attempt' = attempt + 1 /\ pauses' = pauses + 1 /\ phase' = "post"
        /\ reply = "none" /\ UNCHANGED <<ask, heard, data, vectors, reply>>
    BY <1>4 DEF Awoken, AskInv, UnderWay
  <2>2. attempt' \in 0..MaxRetries /\ pauses' = attempt' /\ pauses' <= MaxRetries
    BY <2>1, ModelAssumption
  <2>3. RetriesAreEarned' /\ VectorsInOrder'
    BY <2>1, <2>2 DEF AskInv, RetriesAreEarned, VectorsInOrder
  <2>4. UnderWay'
    BY <2>1 DEF AskInv, UnderWay
  <2>5. QED
    BY <2>1, <2>2, <2>3, <2>4 DEF AskInv, Phases
<1>5. CASE Refused
  <2>1. VectorsInOrder'
    BY <1>5, NoVectors DEF Refused, Reply
  <2>2. QED
    BY <1>5, <2>1, ReplyKeeps DEF Refused, Retryable, Outcomes, ModelReplies
<1>6. CASE BodyUnreadable
  <2>1. VectorsInOrder'
    BY <1>6, NoVectors DEF BodyUnreadable, Reply
  <2>2. QED
    BY <1>6, <2>1, ReplyKeeps DEF BodyUnreadable, Retryable, Outcomes, ModelReplies
<1>7. ASSUME NEW content \in DOMAIN CompletionReply, CompletionRead(content)
      PROVE  AskInv'
  <2>1. PICK r \in ModelReplies : r = CompletionReply[content]
    BY DEF CompletionReply, ModelReplies
  <2>2. VectorsInOrder'
    BY <1>7, NoVectors DEF CompletionRead
  <2>3. QED
    BY <1>7, <2>1, <2>2, ReplyKeeps DEF CompletionRead, Retryable, Outcomes
<1>8. ASSUME NEW rows \in Rows, EmbeddingsRead(rows)
      PROVE  AskInv'
  <2>1. rows \in Seq(Row) /\ ask.texts \in Nat /\ ask' = ask /\ data' = rows
    <3>1. PICK n \in 0..(MaxTexts + 1) : rows \in [1..n -> Row]
      BY <1>8 DEF Rows
    <3>2. n \in Nat
      BY <3>1, ModelAssumption
    <3>3. rows \in Seq(Row)
      BY <3>1, <3>2
    <3>4. ask.texts \in Nat
      BY ModelAssumption DEF AskInv, Ask
    <3>5. QED
      BY <1>8, <3>3, <3>4 DEF EmbeddingsRead
  <2>2. vectors' = [i \in DOMAIN rows |-> rows[ByIndex(rows)[i]].text]
    BY <1>8 DEF EmbeddingsRead
  <2>3. Len(vectors') = Len(rows)
    BY <2>1, <2>2
  <2>4. ASSUME Honest(data)' PROVE vectors' = [t \in 1..ask'.texts |-> t]
    <3>1. Honest(rows)
      BY <2>1, <2>4 DEF Honest
    <3>2. PICK n \in Nat : n = ask.texts
      BY <2>1
    <3>3. vectors' = [t \in 1..n |-> t]
      BY <2>1, <2>2, <3>1, <3>2, HonestInOrder
    <3>4. QED
      BY <2>1, <3>2, <3>3
  <2>5. PICK r \in {"value", "ValueError"} :
          /\ r = IF CountFits(rows) THEN "value" ELSE "ValueError"
    OBVIOUS
  <2>6. Reply(r) /\ Hear("body") /\ Sending /\ UNCHANGED <<ask, attempt, pauses>>
    BY <1>8, <2>5 DEF EmbeddingsRead
  <2>7. reply' = "value" /\ ask'.method = "embed_one" => Len(vectors') = 1
    BY <2>1, <2>3, <2>5, <2>6 DEF CountFits, Reply
  <2>8. VectorsInOrder'
    BY <2>4, <2>7 DEF VectorsInOrder
  <2>9. QED
    BY <2>5, <2>6, <2>8, ReplyKeeps DEF Retryable, Outcomes, ModelReplies
<1>9. CASE EmbeddingsMisshapen
  <2>1. VectorsInOrder'
    BY <1>9, NoVectors DEF EmbeddingsMisshapen, Reply
  <2>2. QED
    BY <1>9, <2>1, ReplyKeeps
       DEF EmbeddingsMisshapen, Retryable, Outcomes, ModelReplies
<1>10. CASE UNCHANGED askVars
  BY <1>10 DEF askVars, AskInv, UnderWay, RetriesAreEarned, VectorsInOrder, Honest
<1>11. QED
  BY <1>1, <1>2, <1>3, <1>4, <1>5, <1>6, <1>7, <1>8, <1>9, <1>10 DEF AskNext

-----------------------------------------------------------------------------
\* What holds in every reachable state of a call of the model.
THEOREM AskInvariant == AskSpec => []AskInv
<1>1. AskInit => AskInv
  BY AskStarts
<1>2. AskInv /\ [AskNext]_askVars => AskInv'
  BY AskKeeps
<1>3. QED
  BY <1>1, <1>2, PTL DEF AskSpec

\* A request is repeated only after an outage, MaxRetries times at most and
\* after a pause; an outage surfaces only when they are spent (_post).
THEOREM RetriesEarned == AskSpec => []RetriesAreEarned
<1>1. AskInv => RetriesAreEarned
  BY DEF AskInv
<1>2. QED
  BY <1>1, AskInvariant, PTL

\* embed returns the vectors in the order of the texts, in whatever order the
\* provider lists them, and embed_one returns one (embed, embed_one).
THEOREM VectorsOrdered == AskSpec => []VectorsInOrder
<1>1. AskInv => VectorsInOrder
  BY DEF AskInv
<1>2. QED
  BY <1>1, AskInvariant, PTL

-----------------------------------------------------------------------------
(***************************************************************************)
(* Why a call ends.                                                        *)
(***************************************************************************)

LEMMA LeftTyped ==
  ASSUME AskInv
  PROVE  /\ AskLeft \in Nat
         /\ phase # "done" => AskLeft > 0
<1>1. /\ attempt \in Nat /\ MaxRetries \in Nat /\ attempt <= MaxRetries
      /\ phase \in {"post", "pause", "done"}
  BY ModelAssumption DEF AskInv, Phases
<1>2. QED
  BY <1>1 DEF AskLeft

\* A step leaves fewer.
LEMMA FewerLeft ==
  ASSUME AskInv, AskLeft' \in Nat, AskNext
  PROVE  AskLeft' < AskLeft /\ {AskLeft, AskLeft'} \subseteq Nat
<1>1. AskLeft \in Nat /\ (phase # "done" => AskLeft > 0)
  BY LeftTyped
<1>2. AskLeft' \in Nat
  OBVIOUS
<1>3. attempt \in Nat /\ MaxRetries \in Nat
  BY ModelAssumption DEF AskInv
<1>4. CASE phase # "done" /\ phase' = "done"
  BY <1>1, <1>2, <1>4 DEF AskLeft
<1>5. CASE \E outcome \in Retryable : Postponed(outcome)
  <2>1. phase = "post" /\ phase' = "pause" /\ attempt' = attempt
    BY <1>5 DEF Postponed, Sending
  <2>2. QED
    BY <1>1, <1>2, <1>3, <2>1 DEF AskLeft
<1>6. CASE Awoken
  <2>1. phase = "pause" /\ phase' = "post" /\ attempt' = attempt + 1
    BY <1>6 DEF Awoken
  <2>2. QED
    BY <1>1, <1>2, <1>3, <2>1 DEF AskLeft
<1>7. AskNext => \/ phase # "done" /\ phase' = "done"
                 \/ \E outcome \in Retryable : Postponed(outcome)
                 \/ Awoken
  BY DEF AskNext, NothingToEmbed, GivenUp, Refused, BodyUnreadable, CompletionRead,
     EmbeddingsRead, EmbeddingsMisshapen, Sending, Reply
<1>8. QED
  BY <1>4, <1>5, <1>6, <1>7

\* Every step of a call of the model leaves fewer to take, so that none goes on
\* for ever (_post).
THEOREM AsksAdvance == AskSpec => AskAdvances
<1>1. AskInv => AskLeft \in Nat
  BY LeftTyped
<1>2. AskInv /\ (AskLeft \in Nat)' /\ [AskNext]_askVars
        => [AskLeft' < AskLeft /\ {AskLeft, AskLeft'} \subseteq Nat]_askVars
  BY FewerLeft
<1>3. QED
  BY AskInvariant, <1>1, <1>2, PTL DEF AskSpec, AskAdvances

-----------------------------------------------------------------------------
(***************************************************************************)
(* The three calls together.                                               *)
(***************************************************************************)

CallInv == GitInv /\ DocsInv /\ AskInv

\* What a caller may rely on, whichever call it made.
CallsAreSound ==
  /\ TypeOK /\ UncappedCountsAll /\ ThinDetailOwnsUp /\ SilenceMeansSpent
  /\ LookupTypeOK /\ SentencesKept /\ PassagesPacked /\ EvidenceIsBest
  /\ SilenceMeansNoHit
  /\ RetriesAreEarned /\ VectorsInOrder

callVars == <<vars, lookupVars, askVars>>

\* Each step of a call brings its end nearer.
CallsAdvance == SearchAdvances /\ LookupAdvances /\ AskAdvances

LEMMA NoSearchSound == NoSearch => GitInv
<1> SUFFICES ASSUME NoSearch PROVE GitInv
  OBVIOUS
<1> USE Sizes, GitAssumption DEF NoSearch
<1>1. TypeOK
  BY DEF TypeOK, Stages, Walk, NewWalk, Passage, NoPassage, Searches
<1>2. ItemInPlan /\ WalkCounts /\ WalkSamples /\ SearchesAccounted
  BY DEF ItemInPlan, WalkCounts, WalkSamples, SearchesAccounted, Walking
<1>3. PathsAccounted
  BY DEF PathsAccounted, Walking, Gone
<1>4. UncappedCountsAll /\ ThinDetailOwnsUp
  BY DEF UncappedCountsAll, ThinDetailOwnsUp, NoPassage
<1>5. QED
  BY <1>1, <1>2, <1>3, <1>4 DEF GitInv

LEMMA NoLookupSound ==
  ASSUME NoLimit \in Limits, NoLookup
  PROVE  DocsInv
<1> USE DEF NoLookup
<1>1. LookupTypeOK
  <2>1. call \in Call
    BY DEF Call, Queries
  <2>2. cursor \in Cursor
    BY DEF AtPage, Cursor
  <2>3. QED
    BY <2>1, <2>2 DEF LookupTypeOK, LookupStages, Passages
<1>2. ResultsKept /\ CursorOK /\ PassedKept
  BY DEF ResultsKept, CursorOK, PassedKept, Chunked
<1>3. PiecesOK /\ PiecesOrdered
  BY DEF PiecesOK, PiecesOrdered
<1>4. RankOK
  BY DEF RankOK
<1>5. QED
  BY <1>1, <1>2, <1>3, <1>4 DEF DocsInv

LEMMA NoAskSound == NoAsk => AskInv
BY ModelAssumption
   DEF NoAsk, AskInv, UnderWay, RetriesAreEarned, VectorsInOrder, Phases, Ask, Honest

\* A step of one call is no step, or an idle one, of each of the others.
LEMMA StepsApart ==
  ASSUME [CallNext]_callVars
  PROVE  /\ [Next]_vars
         /\ [LookupNext]_lookupVars
         /\ [AskNext]_askVars
BY DEF CallNext, callVars

\* The invariants of the three calls hold side by side.
THEOREM CallInvariant ==
  ASSUME NoLimit \in Limits
  PROVE  CallSpec => []CallInv
<1>1. CallInit => CallInv
  BY InitGit, InitDocs, AskStarts, NoSearchSound, NoLookupSound, NoAskSound
     DEF CallInit, CallInv
<1>2. CallInv /\ [CallNext]_callVars => CallInv'
  BY StepsApart, GitStep, DocsStep, AskKeeps DEF CallInv
<1>3. QED
  BY <1>1, <1>2, PTL DEF CallSpec, callVars

\* Whichever call is made: a count of commits without "at least" is complete, and
\* an answer without evidence means what it says, except where the host answered
\* with a body of another shape; the passages lose no sentence and the best are
\* cited, a request is repeated only after an outage, and vectors come in the
\* order of the texts.
THEOREM EveryCallIsSound ==
  ASSUME NoLimit \in Limits
  PROVE  CallSpec => []CallsAreSound
<1>1. GitInv => /\ TypeOK /\ UncappedCountsAll /\ ThinDetailOwnsUp
                /\ SilenceMeansSpent
  BY SilenceAccounted DEF GitInv
<1>2. AskInv => RetriesAreEarned /\ VectorsInOrder
  BY DEF AskInv
<1>3. DocsInv => LookupTypeOK
  BY DEF DocsInv
<1>4. DocsInv => SentencesKept
  BY SentencesAreKept
<1>5. DocsInv => PassagesPacked
  BY PackedPassages
<1>6. DocsInv => EvidenceIsBest
  BY DEF DocsInv, RankOK, EvidenceIsBest, Ahead
<1>7. DocsInv => SilenceMeansNoHit
  BY NoHitWhenSilent
<1>8. CallInv => CallsAreSound
  BY <1>1, <1>2, <1>3, <1>4, <1>5, <1>6, <1>7 DEF CallInv, CallsAreSound
<1>9. QED
  BY CallInvariant, <1>8, PTL

\* Every step of a call spends, or goes on: none of the loops over searches, pages
\* of commits, results, sentences, passages or retries can turn on the spot.
THEOREM EveryCallAdvances ==
  ASSUME NoLimit \in Limits
  PROVE  CallSpec => CallsAdvance
<1>1. CallInv /\ [CallNext]_callVars =>
        [Connector => \/ spent' = spent + 1 /\ spent' <= limit
                      \/ spent' = spent /\ Further /\ walk'.page <= MaxPages]_vars
  BY ConnectorAdvances, StepsApart DEF CallInv
<1>2. CallInv => (stage = "chunk" => InReach) /\ AskLeft \in Nat
  BY CursorInReach, LeftTyped DEF CallInv
<1>3. CallInv /\ (stage = "chunk" => InReach)' /\ [CallNext]_callVars
        => [Advances]_lookupVars
  BY EveryStepAdvances, StepsApart DEF CallInv
<1>4. CallInv /\ (AskLeft \in Nat)' /\ [CallNext]_callVars
        => [AskLeft' < AskLeft /\ {AskLeft, AskLeft'} \subseteq Nat]_askVars
  BY FewerLeft, StepsApart DEF CallInv
<1>5. QED
  BY CallInvariant, <1>1, <1>2, <1>3, <1>4, PTL
     DEF CallSpec, callVars, CallsAdvance, SearchAdvances, LookupAdvances, AskAdvances
=============================================================================
