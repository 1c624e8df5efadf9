SPECIFICATION Spec
CONSTANTS
  Clients = {}
  Chosen = {p1}
  MaxStarts = 2
  Credentials = {k1}
  NoAccount = NoAccount
  NoConfig = NoConfig
  NoCredential = NoCredential
  Instances = {i1, i2}
  Widths = {w1}
  Faults = {"kill"}
  NoTable = NoTable
  Nobody = Nobody
INVARIANT AccountKnown
CHECK_DEADLOCK FALSE
