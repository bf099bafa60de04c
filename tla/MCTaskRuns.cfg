SPECIFICATION Spec
CONSTANTS
  Cadence = 1
  SoftStep = 1
  SoftCap = 2
  BlockStep = 2
  BlockCap = 2
  Worker = {w1}
  Caller = {c1}
  Operator = {o1}
  RunId = {i1, i2}
  Cooldown = 1
  NoOne = NoOne
SYMMETRY RunSymmetry
INVARIANTS
  TypeOK
PROPERTIES
  RepeatNeedsDeath
  FailureReachesInbox
  BlockStopsAutomation
  PauseLostOnlyToEscalation
