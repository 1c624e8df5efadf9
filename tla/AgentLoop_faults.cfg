SPECIFICATION Spec
CONSTANTS
  Categories = {bug}
  Fields = {steps}
  Required <- OneField
  MaxRounds = 1
  Sessions = {s1, s2}
  NoCategory = NoCategory
  NoDraft = NoDraft
  NoDuplicate = NoDuplicate
  NoSession = NoSession
  Turns = {t1, t2}
  Reviewers = {r1}
  Faults = {"error", "lost", "abandon", "expire"}
  MaxPosts = 2
  Instances = {i1}
  Home <- OneInstance
  MaxToolCalls = 2
  Topics = {p1}
  TopicOf <- SameTopic
SYMMETRY Interchangeable
VIEW WithoutLog
INVARIANT TypeOK
INVARIANT TicketsTraced
INVARIANT StoredIsSettled
INVARIANT TicketMeansFiled
CHECK_DEADLOCK FALSE
