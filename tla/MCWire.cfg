SPECIFICATION WireSpec
CONSTANTS
  Endpoint = {0, 300}
  Begin <- MCBegin
  TickBound = 3
  StampBound = 4
  Request <- MCRequest
  Copies = {0, 200}
  FirstId = 126
  HopBound = 2
  Sample <- MCSample
INVARIANTS
  StampsRunAhead
  KeepsIdentity
  SentIsRead
  SizeIsOctets
  OthersAreRead
CHECK_DEADLOCK FALSE
