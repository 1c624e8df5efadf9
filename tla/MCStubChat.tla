----------------------------- MODULE MCStubChat -----------------------------
(***************************************************************************)
(* A small instance of StubChat for TLC, with the fields the stub really   *)
(* requires (web/orchestrator.py _REQUIRED_FIELDS).                        *)
(***************************************************************************)
EXTENDS StubChat, TLC

StubFields == "bug" :> {"steps_to_reproduce", "affected_version"}
              @@ "feature" :> {"problem", "desired_outcome"}
              @@ "question" :> {"question_detail"}

Interchangeable == Permutations(Turns)
=============================================================================
