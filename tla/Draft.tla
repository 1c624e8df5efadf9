------------------------------- MODULE Draft -------------------------------
(***************************************************************************)
(* The IssueDraft contract (contracts/draft.py) and the deterministic      *)
(* rules the orchestrator applies to it (orchestrator/routing.py).         *)
(*                                                                         *)
(* Texts are abstracted: of the reporter's words only the set of required  *)
(* fields they have answered is kept.  raw_text and redacted_text grow by  *)
(* one message exactly when round does, so round stands for both; summary  *)
(* and evidence never steer a decision and are left out.                   *)
(***************************************************************************)
EXTENDS Naturals

CONSTANTS
  Categories,   \* the issue categories a classification may return
  Fields,       \* every field some category requires
  Required,     \* the fields each category requires
  MaxRounds,    \* MAX_CLARIFICATION_ROUNDS
  Sessions,     \* session ids
  NoCategory,   \* category is None: not classified yet
  NoDraft,      \* the store holds no draft for the session
  NoDuplicate   \* duplicate_of is None

ASSUME DraftAssumption ==
  /\ Required \in [Categories -> SUBSET Fields]
  /\ MaxRounds \in Nat
  /\ NoCategory \notin Categories
  /\ NoDuplicate \notin Nat
  /\ NoDuplicate \notin Sessions
  /\ Sessions \cap Nat = {}

\* DraftStatus.
Status == {"gathering_info", "investigating", "scored", "filed",
           "escalated", "closed"}

\* Variant: a filed request is taken up again.
ForgetFiledTerminal == {"closed"}

\* Statuses from which the loop only reports (loop.py).
Terminal == {"filed", "closed"}

\* Statuses whose page is served locked (routes.py).
Done == {"filed", "scored", "escalated", "closed"}

\* Tickets are numbered in the order the tracker creates them; 0 is "no ticket".
NoTicket == 0

\* DuplicateOf.ticket_id: a tracker key, or the id of a request with no key.
Refs == Nat \cup Sessions \cup {NoDuplicate}

Draft ==
  [category : Categories \cup {NoCategory},
   answered : SUBSET Fields,         \* extracted_fields with a nonblank value
   round    : Nat,
   dup      : Refs,                  \* duplicate_of.ticket_id
   routing  : {"none", "ask_again", "auto_file", "escalate"},
   ticket   : Nat,
   status   : Status]

\* What a conversation starts from: IssueDraft(conversation, raw_text).
NewDraft ==
  [category |-> NoCategory, answered |-> {}, round |-> 0, dup |-> NoDuplicate,
   routing |-> "none", ticket |-> NoTicket, status |-> "gathering_info"]

\* Variants: the cap is inclusive, or there is none.
AskOnceMore(d) == d.round <= MaxRounds
AlwaysAskAgain(d) == TRUE

\* IssueDraft.may_ask_again
MayAskAgain(d) == d.round < MaxRounds

\* recompute_missing_fields for a draft that has been classified.
Missing(d) == Required[d.category] \ d.answered

\* What a scoring call may return, as far as routing looks at it.
Scores == [confident : BOOLEAN, urgency : {"low", "high"}]

\* decide_routing, in the order of its early returns.
DecideRouting(d, score) ==
  IF Missing(d) # {} /\ MayAskAgain(d) THEN "ask_again"
  ELSE IF \/ d.dup # NoDuplicate
          \/ Missing(d) = {} /\ score.confident /\ score.urgency # "high"
       THEN "auto_file"
       ELSE "escalate"
=============================================================================
