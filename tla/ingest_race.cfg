SPECIFICATION FairSpec
CONSTANTS
  Streams = {s1, s2}
  Detections = {d1, d2, d3}
  Messages <- OneCustomer
  PoolSize = 2
  Faults = {}
  Values <- MCValues
  Unparsable <- MCUnparsable
  Empty = Empty
  NULL = NULL
  WaitingSession = WaitingSession
  NoPayload = NoPayload
  None = None
  NoRow = NoRow
  NoMessage = NoMessage
CHECK_DEADLOCK FALSE
PROPERTIES Answered UpdateIsSerial
