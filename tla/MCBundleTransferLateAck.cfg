SPECIFICATION TransferSpec
CONSTANTS
  Mac = {pA, pB}
  Bundle = {b1}
  Node = n
  AnyEid = AnyEid
  Null = Null
  NumberOfSegments <- MCOneSegment
  SequenceModulus = 4
  QueueBound = 1
  AckBound = 0
  EventBound = 2
  SendBound = 3
PROPERTIES
  AckedByItsPeer
CHECK_DEADLOCK FALSE
