CONSTANTS
  m1 = m1
  m2 = m2
  Sending = {m1, m2}
  InOrder = TRUE
  MaxBackpressure = 1
  NoLeaves = NoLeaves
  MaxTree = 3
SPECIFICATION FairSpec
INVARIANTS
  StaleIsNoticed
PROPERTIES
  NoticedEventually
  ConnectedEventually
