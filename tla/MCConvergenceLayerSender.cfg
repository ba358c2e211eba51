SPECIFICATION FairSpec
CONSTANTS
  Mac = {pA, pB}
  b1 = b1
  b2 = b2
  Bundle = {b1, b2}
  AnyEid = AnyEid
  Null = Null
  NumberOfSegments <- MCNumberOfSegments
  SequenceModulus = 1
  QueueBound = 2
  AckBound = 1
  EventBound = 2
INVARIANTS
  TypeOK
  InFlightIsHead
  NeverStalled
  OneTransfer
PROPERTIES
  ImplementsOutbox
  QueuesDrain
CHECK_DEADLOCK FALSE
