---------------------------- MODULE MCAgentLoop ----------------------------
(***************************************************************************)
(* Small instances of AgentLoop for TLC.                                   *)
(***************************************************************************)
EXTENDS AgentLoop, TLC

\* One category that requires every field: one, or none to go straight to filing.
OneField == [c \in Categories |-> Fields]

\* Every turn runs on one instance; every conversation is about one topic.
OneInstance == [t \in Turns |-> CHOOSE i \in Instances : TRUE]
SameTopic == [s \in Sessions |-> CHOOSE p \in Topics : TRUE]

\* Conversations on one topic, and turns on one instance, are interchangeable.
Interchangeable == Permutations(Sessions) \cup Permutations(Turns)

\* No action reads the transcript: runs whose properties do not either leave it
\* out of a state's identity.
WithoutLog == <<drafts, registered, page, posts, turn, review, loopVars>>
=============================================================================
