SPECIFICATION PatientSpec
CONSTANTS
  Categories = {bug}
  Fields = {steps}
  Required <- OneField
  MaxRounds = 2
  Sessions = {s1, s2}
  NoCategory = NoCategory
  NoDraft = NoDraft
  NoDuplicate = NoDuplicate
  NoSession = NoSession
  Turns = {t1, t2}
  Reviewers = {}
  Faults = {}
  MaxPosts = 6
  Instances = {i1}
  Home <- OneInstance
  MaxToolCalls = 4
  Topics = {p1}
  TopicOf <- SameTopic
INVARIANT LockedMeansHandled
INVARIANT LinksPointBack
INVARIANT CapIsPerRequest
PROPERTY KeepsPromise
PROPERTY EveryMessageAnswered
PROPERTY EscalatedIsListed
PROPERTY PatientReporterGetsVerdict
CHECK_DEADLOCK FALSE
