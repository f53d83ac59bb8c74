CONSTANTS
  Levels = 2
  Zero = Zero
  NoSlot = NoSlot
  a = a
  b = b
  c = c
  Commitment = {a, b, c}
  s1 = s1
  s2 = s2
  s3 = s3
  s4 = s4
  s5 = s5
  Slot = {s1, s2, s3, s4, s5}
  User <- ManyUsers
  MaxBatch = 2
  MaxUpdates = 3
SPECIFICATION FairSpec
INVARIANTS
  NodesConsistent
  RootCommitsToLeaves
  OneRoot
  OneLeafPerSlot
PROPERTIES
  ImplementsMemberList
  AppendedEventually
