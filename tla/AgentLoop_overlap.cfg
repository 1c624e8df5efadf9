SPECIFICATION Spec
CONSTANTS
  Categories = {bug}
  Fields = {steps}
  Required <- OneField
  MaxRounds = 1
  Sessions = {s1}
  NoCategory = NoCategory
  NoDraft = NoDraft
  NoDuplicate = NoDuplicate
  NoSession = NoSession
  Turns = {t1, t2}
  Reviewers = {}
  Faults = {"abandon"}
  MaxPosts = 2
  Instances = {i1}
  Home <- OneInstance
  MaxToolCalls = 6
  Topics = {p1}
  TopicOf <- SameTopic
INVARIANT QuestionsCapped
CHECK_DEADLOCK FALSE
