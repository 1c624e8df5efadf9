SPECIFICATION CallSpec
CONSTANTS
  Repos = 1
  Hints = 2
  MaxApiCalls = 11
  DetailLimit = 2
  PageSize = 2
  MaxPages = 2
  MaxCommits = 5
  MaxPushes = 1
  MaxChars = 6
  MaxResults = 2
  PageLimit = 2
  NoLimit = NoLimit
  Limits <- SampleLimits
  Answers <- SampleAnswers
  MaxScore = 2
  MaxRetries = 2
  MaxTexts = 2
INVARIANT TypeOK
INVARIANT UncappedCountsAll
INVARIANT ThinDetailOwnsUp
INVARIANT SilenceMeansSpent
INVARIANT LookupTypeOK
INVARIANT SentencesKept
INVARIANT PassagesPacked
INVARIANT EvidenceIsBest
INVARIANT SilenceMeansNoHit
INVARIANT RetriesAreEarned
INVARIANT VectorsInOrder
PROPERTY EverySearchEnds
PROPERTY EveryLookupEnds
PROPERTY AskAdvances
CHECK_DEADLOCK FALSE
