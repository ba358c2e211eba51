SPECIFICATION FairLinkSpec
CONSTANTS
  Remote = {pA, pB}
  None = None
  Ttl = 3
  PauseTime = 2
  MaxRetries = 2
INVARIANTS
  LinkTypeOK
  ClosedInTime
  PausedIsDue
PROPERTIES
  NotClosedEarly
  PauseEnds
