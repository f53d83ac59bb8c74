CONSTANTS
  Levels = 2
  Zero = Zero
  NoSlot = NoSlot
  a = a
  b = b
  c = c
  s1 = s1
  s2 = s2
  s3 = s3
  s4 = s4
  s5 = s5
  Commitment = {a, b, c}
  Slot = {s1, s2, s3, s4, s5}
  User <- ManyUsers
  MaxBatch = 1
  MaxUpdates = 2
SPECIFICATION Spec
INVARIANTS
  TreeIsRecalculated
