CONSTANTS
  a = a
  b = b
  h1 = h1
  h2 = h2
  x1 = x1
  x2 = x2
  x3 = x3
  x4 = x4
  Levels = 2
  Zero = Zero
  Idle = Idle
  Stranger = Stranger
  Commitment = {a, b}
  Member = {a, b}
  LeafOf <- TwoLeaves
  Signal = {x1, x2, x3, x4}
  Handler = {h1, h2}
  Threshold = 2
  EpochLength = 10
  Delay = 20
  MaxEpoch = 0
  MaxSent <- FourAndOne
  FieldsAgree = TRUE
  Redelivery = FALSE
  MaxCrashes = 0
SPECIFICATION FairSpec
CHECK_DEADLOCK FALSE
INVARIANTS
  OnlySpammersBanned
  MembersCanProve
PROPERTIES
  RemovedCannotPost
  DetectedIsRemoved
