CONSTANTS
  r1 = r1
  Lobby = Lobby
  Room = {Lobby, r1}
  NoRoom = NoRoom
  NoHistory = NoHistory
  Page = 1
  MaxMessages = 3
  TimeOf <- Times
  MaxCopies = 2
  MaxInits = 2
SPECIFICATION CSpec
INVARIANTS
  NoGap
  ShownAsStored
  ShownIsStored
