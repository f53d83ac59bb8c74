CONSTANTS
  n1 = n1
  n2 = n2
  x = x
  y = y
  alice = alice
  b1 = b1
  b2 = b2
  NoRequest = NoRequest
  Node = {n1, n2}
  Levels = 2
  Threshold <- MCThreshold
  Delay <- MCDelay
  MaxFaults = 1
  Nullifier = {alice}
  Share = {x, y}
  Bundle = {b1, b2}
  Worker <- MCWorker
  Request <- MCRequest
  MaxReceived = 1
SPECIFICATION KSpec
INVARIANTS
  ListeningIsComplete
  RequestsLimited
PROPERTIES
  ListensEventually
CHECK_DEADLOCK FALSE
