SPECIFICATION Spec
CONSTANTS
  Categories = {bug}
  Fields = {}
  Required <- OneField
  MaxRounds = 1
  Sessions = {s1, s2, s3, s4}
  NoCategory = NoCategory
  NoDraft = NoDraft
  NoDuplicate = NoDuplicate
  NoSession = NoSession
  Turns = {t1, t2, t3}
  Reviewers = {}
  Faults = {}
  MaxPosts = 4
  Instances = {i1}
  Home <- OneInstance
  MaxToolCalls = 6
  Topics = {p1}
  TopicOf <- SameTopic
SYMMETRY Interchangeable
VIEW WithoutLog
INVARIANT CapIsPerRequest
CHECK_DEADLOCK FALSE
