SPECIFICATION TransferSpec
CONSTANTS
  Mac = {pA}
  Bundle = {b1, b2}
  Node = n
  AnyEid = AnyEid
  Null = Null
  NumberOfSegments <- MCTwoSegments
  SequenceModulus = 4
  QueueBound = 2
  AckBound = 0
  EventBound = 2
  SendBound = 3
INVARIANTS
  SentMeansReceived
  AssembledIntact
CHECK_DEADLOCK FALSE
