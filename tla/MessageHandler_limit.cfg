CONSTANTS
  a = a
  b = b
  h1 = h1
  h2 = h2
  x1 = x1
  x2 = x2
  x3 = x3
  x4 = x4
  Levels = 1
  Zero = Zero
  Idle = Idle
  Stranger = Stranger
  Commitment = {a, b}
  Member = {a}
  LeafOf <- OneLeaf
  Signal = {x1, x2, x3, x4}
  Handler = {h1, h2}
  Threshold = 1
  EpochLength = 10
  Delay = 10
  MaxEpoch = 1
  MaxSent <- Two
  FieldsAgree = FALSE
  Redelivery = TRUE
  MaxCrashes = 1
SPECIFICATION Spec
SYMMETRY Symmetry
CHECK_DEADLOCK FALSE
INVARIANTS
  RateLimit
  BroadcastIsCharged
