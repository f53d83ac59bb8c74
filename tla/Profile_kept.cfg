CONSTANTS
  p1 = p1
  v1 = v1
  d1 = d1
  n1 = n1
  n2 = n2
  k1 = k1
  c1 = c1
  c2 = c2
  defaultChatroom = defaultChatroom
  NoContact = NoContact
  NoProfile = NoProfile
  Files <- MCFiles
  Public = {defaultChatroom, p1}
  Private = {v1}
  Direct = {d1}
  Name = {n1, n2}
  Key = {k1}
  Call = {c1, c2}
  MaxInits = 2
  MaxFailures = 1
SPECIFICATION Spec
SYMMETRY Symmetry
INVARIANTS
  ProfilesConsistent
  NothingIsLost
