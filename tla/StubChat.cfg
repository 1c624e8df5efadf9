SPECIFICATION Spec
CONSTANTS
  Categories = {"bug", "feature", "question"}
  Fields = {"steps_to_reproduce", "affected_version", "problem", "desired_outcome", "question_detail"}
  Required <- StubFields
  MaxRounds = 3
  Sessions = {s1}
  NoCategory = NoCategory
  NoDraft = NoDraft
  NoDuplicate = NoDuplicate
  NoSession = NoSession
  Turns = {t1, t2}
  Reviewers = {r1}
  Faults = {"error", "abandon", "expire"}
  MaxPosts = 4
SYMMETRY Interchangeable
INVARIANT RoundsMatchAnswers
INVARIANT DecidesOnlyComplete
INVARIANT CapReplyUnused
CHECK_DEADLOCK FALSE
