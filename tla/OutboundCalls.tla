------------------------------ MODULE OutboundCalls ------------------------------
(***************************************************************************)
(* One call to the outside: a ToolCall, which search_git_history or        *)
(* search_design_docs answers by its name, or a call of the model.  The    *)
(* three share no state, and the two without a call do nothing.            *)
(***************************************************************************)
EXTENDS GitSearch, DocsSearch, ModelCall

\* A Git connector without a call.
NoSearch ==
  /\ limit = 1
  /\ spent = 0
  /\ matches = {}
  /\ commits = [p \in Paths |-> 0]
  /\ pushed = [p \in Paths |-> 0]
  /\ at = "done"
  /\ item = 1
  /\ walk = NewWalk
  /\ found = {}
  /\ churn = [p \in Paths |-> NoPassage]
  /\ misshapen = {}

\* A docs connector without a call.
NoLookup ==
  /\ call = [mine |-> FALSE, query |-> "none", limit |-> NoLimit]
  /\ stage = "error"
  /\ answer = <<>>
  /\ pages = <<>>
  /\ cursor = AtPage(1)
  /\ chunks = <<>>
  /\ score = <<>>
  /\ evidence = <<>>

\* A client of the model without a call.
NoAsk ==
  /\ ask = [method |-> "embed", texts |-> 0]
  /\ phase = "done"
  /\ attempt = 0
  /\ pauses = 0
  /\ heard = <<>>
  /\ data = <<>>
  /\ vectors = <<>>
  /\ reply = "none"

CallInit ==
  \/ Init /\ NoLookup /\ NoAsk
  \/ LookupInit /\ NoSearch /\ NoAsk
  \/ AskInit /\ NoSearch /\ NoLookup

CallNext ==
  \/ Next /\ UNCHANGED <<lookupVars, askVars>>
  \/ LookupNext /\ UNCHANGED <<vars, askVars>>
  \/ AskNext /\ UNCHANGED <<vars, lookupVars>>

CallSpec ==
  /\ CallInit
  /\ [][CallNext]_<<vars, lookupVars, askVars>>
  /\ WF_vars(Connector)
  /\ WF_lookupVars(LookupNext)

-----------------------------------------------------------------------------
(***************************************************************************)
(* The docs a host may have, for MaxChars = 6.                             *)
(***************************************************************************)

\* Paragraphs of one to three sentences: short ones, one that fills a passage
\* and one that never fits.
Lengths == UNION {[1..n -> {1, 2, 3, 8}] : n \in 1..3}

EndsOf(l) ==
  [k \in DOMAIN l |->
     CASE k = 1 -> l[1]
       [] k = 2 -> l[1] + 1 + l[2]
       [] k = 3 -> l[1] + 1 + l[2] + 1 + l[3]]

AnyParagraph ==
  UNION {{[ends |-> EndsOf(l), hits |-> h] : h \in SUBSET (DOMAIN l)} :
           l \in Lengths}

OnePage == {<<[url |-> 1, citable |-> TRUE, text |-> <<p>>]>> : p \in AnyParagraph}

\* Several pages: empty, with a hit or without, in passages that tie.
Plain == [ends |-> <<3>>, hits |-> {}]
Hit == [ends |-> <<3>>, hits |-> {1}]
Long == [ends |-> <<4, 9>>, hits |-> {1, 2}]
Texts == {<<>>, <<Plain, Hit>>, <<Hit, Long>>}

Listed2 == [url : {1, 2}, citable : BOOLEAN, text : Texts]
Listed3 == [url : {1, 2, 3}, citable : BOOLEAN, text : {<<Plain>>, <<Hit>>}]

SampleLimits == {NoLimit, 0, 1, 3}

SampleAnswers ==
  {<<>>} \cup OnePage
    \cup {<<r, s>> : r \in Listed2, s \in Listed2}
    \cup {<<r, s, t>> : r \in Listed3, s \in Listed3, t \in Listed3}
=============================================================================
