CONSTANTS
  alice = alice
  bob = bob
  User = {alice, bob}
  Runs = {1, 2}
  NoUser = NoUser
  NoRoom = NoRoom
  NoKey = NoKey
  MaxFailures = 1
  MaxInterruptions = 1
SPECIFICATION FairSpec
INVARIANTS
  KeysAgree
  BundleWasUsed
PROPERTIES
  KeyEventually
  DeletedEventually
CHECK_DEADLOCK FALSE
