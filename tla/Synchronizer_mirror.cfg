CONSTANTS
  r1 = r1
  r2 = r2
  Run = {r1, r2}
  NoGroup = NoGroup
  Depth = 1
  Capacity = 2
  MaxMembers = 2
  MaxRestarts = 1
SPECIFICATION SFairSpec
INVARIANTS
  NobodyIsLost
  LeavesInOrder
  AllAnnounced
PROPERTIES
  JoinedEventually
