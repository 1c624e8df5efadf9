SPECIFICATION Spec
CONSTANTS
  Categories = {bug}
  Fields = {steps}
  Required <- OneField
  MaxRounds = 2
  Sessions = {s1, s2}
  NoCategory = NoCategory
  NoDraft = NoDraft
  NoDuplicate = NoDuplicate
  NoSession = NoSession
  Turns = {t1}
  Reviewers = {}
  Faults = {"error", "lost"}
  MaxPosts = 4
  Instances = {i1}
  Home <- OneInstance
  MaxToolCalls = 6
  Topics = {p1}
  TopicOf <- SameTopic
SYMMETRY Interchangeable
INVARIANT QuestionsCapped
INVARIANT RepliesFollowMessages
INVARIANT IndexNamesLiveTicket
INVARIANT LaterDuplicateRecognised
PROPERTY DecidedNeverAsks
CHECK_DEADLOCK FALSE
