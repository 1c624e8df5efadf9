------------------------------ MODULE ModelCall ------------------------------
(***************************************************************************)
(* One call of the model through OpenAILLM: a request, sent again after    *)
(* outages, and what the loop makes of the answer.                         *)
(*                                                                         *)
(* Of a completion only whether it is usable remains, of a vector only     *)
(* which text it embeds.  A pause doubles with each attempt; its length is *)
(* left out.                                                               *)
(***************************************************************************)
EXTENDS Integers, Sequences

CONSTANTS
  MaxRetries,  \* llm_max_retries
  MaxTexts     \* bound: texts embedded in one call

ASSUME ModelAssumption ==
  /\ MaxRetries \in Nat
  /\ MaxTexts \in Nat \ {0}

VARIABLES
  ask,      \* the method called, and on how many texts
  phase,    \* what the client does next
  attempt,  \* the loop variable of _post
  pauses,   \* how often it has slept
  heard,    \* what became of each request
  data,     \* body["data"]: the index and the text of each vector
  vectors,  \* the texts of the vectors returned, in order
  reply     \* what the caller gets: a value, or what is raised

askVars == <<ask, phase, attempt, pauses, heard, data, vectors, reply>>

\* structured and embed of the client, and embed_one, which embeds one text.
Ask == [method : {"structured", "embed_one"}, texts : {1}]
         \cup [method : {"embed"}, texts : 0..MaxTexts]

Phases == {"post", "pause", "done"}
Row == [index : 0..MaxTexts, text : 1..MaxTexts]
ModelReplies == {"none", "value", "LLMError", "ValueError", "TypeError"}

\* httpx.HTTPError, a retryable status, another error status, a usable status.
Outcomes == {"lost", "busy", "refused", "body"}
Retryable == {"lost", "busy"}

AskInit ==
  /\ ask \in Ask
  /\ phase = "post"
  /\ attempt = 0
  /\ pauses = 0
  /\ heard = <<>>
  /\ data = <<>>
  /\ vectors = <<>>
  /\ reply = "none"

-----------------------------------------------------------------------------
\* _post

Sending == phase = "post" /\ ask.texts > 0

Hear(outcome) == heard' = Append(heard, outcome)

Reply(r) == phase' = "done" /\ reply' = r

\* embed of no text asks nothing.
NothingToEmbed ==
  /\ phase = "post"
  /\ ask.texts = 0
  /\ Reply("value")
  /\ UNCHANGED <<ask, attempt, pauses, heard, data, vectors>>

\* Variant: one retry too many.
RetryLeftInclusive == attempt <= MaxRetries

RetryLeft == attempt < MaxRetries

\* An outage while a retry is left: pause.
Postponed(outcome) ==
  /\ Sending
  /\ RetryLeft
  /\ Hear(outcome)
  /\ phase' = "pause"
  /\ UNCHANGED <<ask, attempt, pauses, data, vectors, reply>>

\* An outage on the last attempt.
GivenUp(outcome) ==
  /\ Sending
  /\ ~ RetryLeft
  /\ Hear(outcome)
  /\ Reply("LLMError")
  /\ UNCHANGED <<ask, attempt, pauses, data, vectors>>

\* Variant: the attempt is not counted.
AwokenUncounted ==
  /\ phase = "pause"
  /\ pauses' = pauses + 1
  /\ phase' = "post"
  /\ UNCHANGED <<ask, attempt, heard, data, vectors, reply>>

\* asyncio.sleep returns, and the next attempt begins.
Awoken ==
  /\ phase = "pause"
  /\ attempt' = attempt + 1
  /\ pauses' = pauses + 1
  /\ phase' = "post"
  /\ UNCHANGED <<ask, heard, data, vectors, reply>>

\* Any other error status is final.
Refused ==
  /\ Sending
  /\ Hear("refused")
  /\ Reply("LLMError")
  /\ UNCHANGED <<ask, attempt, pauses, data, vectors>>

\* response.json() on a body that is none, as a redirect's: not an LLMError.
BodyUnreadable ==
  /\ Sending
  /\ Hear("body")
  /\ Reply("ValueError")
  /\ UNCHANGED <<ask, attempt, pauses, data, vectors>>

-----------------------------------------------------------------------------
\* structured, embed and embed_one

\* A completion that validates; one of another shape, without JSON or against
\* the schema; one whose content is null.
CompletionReply == [valid |-> "value", misfit |-> "LLMError", null |-> "TypeError"]

CompletionRead(content) ==
  /\ Sending
  /\ ask.method = "structured"
  /\ Hear("body")
  /\ Reply(CompletionReply[content])
  /\ UNCHANGED <<ask, attempt, pauses, data, vectors>>

\* Variant: the rows as the provider lists them.
ByPlace(rows) == [i \in DOMAIN rows |-> i]

\* sorted by index, which keeps the order of equal ones.
ByIndex(rows) ==
  CHOOSE p \in [DOMAIN rows -> DOMAIN rows] :
    \A i, j \in DOMAIN rows : i < j =>
      \/ rows[p[i]].index < rows[p[j]].index
      \/ rows[p[i]].index = rows[p[j]].index /\ p[i] < p[j]

\* embed_one wants exactly one vector; embed does not count them.
CountFits(rows) == ask.method = "embed_one" => Len(rows) = 1

EmbeddingsRead(rows) ==
  /\ Sending
  /\ ask.method # "structured"
  /\ Hear("body")
  /\ data' = rows
  /\ vectors' = LET p == ByIndex(rows) IN [i \in DOMAIN rows |-> rows[p[i]].text]
  /\ Reply(IF CountFits(rows) THEN "value" ELSE "ValueError")
  /\ UNCHANGED <<ask, attempt, pauses>>

\* A row without its index or its vector.
EmbeddingsMisshapen ==
  /\ Sending
  /\ ask.method # "structured"
  /\ Hear("body")
  /\ Reply("LLMError")
  /\ UNCHANGED <<ask, attempt, pauses, data, vectors>>

\* The rows a provider may answer with: too few, too many, indexes repeated or
\* missing.
Rows == UNION {[1..n -> Row] : n \in 0..(MaxTexts + 1)}

AskNext ==
  \/ NothingToEmbed
  \/ \E outcome \in Retryable : Postponed(outcome) \/ GivenUp(outcome)
  \/ Awoken
  \/ Refused
  \/ BodyUnreadable
  \/ \E content \in DOMAIN CompletionReply : CompletionRead(content)
  \/ \E rows \in Rows : EmbeddingsRead(rows)
  \/ EmbeddingsMisshapen

AskSpec == AskInit /\ [][AskNext]_askVars

-----------------------------------------------------------------------------
AskTypeOK ==
  /\ ask \in Ask
  /\ phase \in Phases
  /\ attempt \in 0..MaxRetries
  /\ pauses \in 0..MaxRetries
  /\ heard \in Seq(Outcomes)
  /\ data \in Seq(Row)
  /\ vectors \in Seq(1..MaxTexts)
  /\ reply \in ModelReplies

\* A request is repeated only after an outage, with a pause before each
\* repetition and none after the last; an outage surfaces only once all
\* MaxRetries + 1 attempts are spent, then as an LLMError; and a value comes
\* from the answer to the last request and no earlier one (openai.py:69-90).
RetriesAreEarned ==
  /\ \A k \in DOMAIN heard : k < Len(heard) => heard[k] \in Retryable
  /\ pauses <= MaxRetries
  /\ phase = "done" /\ heard # <<>> =>
       /\ pauses = Len(heard) - 1
       /\ heard[Len(heard)] \in Retryable =>
            Len(heard) = MaxRetries + 1 /\ reply = "LLMError"
       /\ reply = "value" => heard[Len(heard)] = "body"

\* Each text has its vector in the answer, under its index.
Honest(rows) ==
  /\ Len(rows) = ask.texts
  /\ \A t \in 1..ask.texts : \E i \in DOMAIN rows : rows[i] = [index |-> t - 1, text |-> t]

\* "one vector per input, in order" (base.py:56), in whatever order an honest
\* provider lists them; and never another number than one from embed_one,
\* whatever the provider sends.
VectorsInOrder ==
  reply = "value" /\ ask.method # "structured" =>
    /\ ask.method = "embed_one" => Len(vectors) = 1
    /\ Honest(data) => vectors = [t \in 1..ask.texts |-> t]

\* The steps a call may still take: two for each retry left, and the last.
AskLeft ==
  IF phase = "done" THEN 0
  ELSE 2 * (MaxRetries - attempt) + IF phase = "post" THEN 2 ELSE 1

\* Every step of a call leaves fewer steps to take, from 2 * MaxRetries + 2 on,
\* through any run of outages: none of them repeats an attempt without counting
\* it (openai.py:72, range(max_retries + 1)).
AskAdvances == [][AskLeft' < AskLeft /\ {AskLeft, AskLeft'} \subseteq Nat]_askVars
=============================================================================
