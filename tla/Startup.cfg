SPECIFICATION FairSpec
CONSTANTS
  Clients = {c1}
  Chosen = {p1}
  MaxStarts = 3
  Credentials = {k1}
  NoAccount = NoAccount
  NoConfig = NoConfig
  NoCredential = NoCredential
  Instances = {i1, i2}
  Widths = {w1, w2}
  Faults = {"postgres", "redis", "kill"}
  NoTable = NoTable
  Nobody = Nobody
INVARIANT TypeOK
INVARIANT TableMadeOnce
INVARIANT ServingMeansReady
INVARIANT NothingIsLeftOpen
PROPERTY RotationSurvivesStarts
PROPERTY BlankKeepsCredential
PROPERTY StartsEnd
CHECK_DEADLOCK FALSE
