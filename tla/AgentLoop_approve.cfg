SPECIFICATION Spec
CONSTANTS
  Categories = {bug}
  Fields = {steps}
  Required <- OneField
  MaxRounds = 1
  Sessions = {s1}
  NoCategory = NoCategory
  NoDraft = NoDraft
  NoDuplicate = NoDuplicate
  NoSession = NoSession
  Turns = {t1}
  Reviewers = {r1}
  Faults = {}
  MaxPosts = 2
  Instances = {i1}
  Home <- OneInstance
  MaxToolCalls = 6
  Topics = {p1}
  TopicOf <- SameTopic
INVARIANT FiledMeansTicket
CHECK_DEADLOCK FALSE
