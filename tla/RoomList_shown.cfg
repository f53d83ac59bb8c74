CONSTANTS
  p1 = p1
  v1 = v1
  d1 = d1
  n1 = n1
  n2 = n2
  k1 = k1
  defaultChatroom = defaultChatroom
  NoContact = NoContact
  None = None
  NoProfile = NoProfile
  Public = {defaultChatroom, p1}
  Private = {v1}
  Direct = {d1}
  Name = {n1, n2}
  Key = {k1}
  MaxInits = 2
  MaxCopies = 2
SPECIFICATION Spec
SYMMETRY Symmetry
INVARIANTS
  ListedOnce
  OwnedIsListed
  ShownIsOwned
