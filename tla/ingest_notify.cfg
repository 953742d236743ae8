SPECIFICATION Spec
CONSTANTS
  Streams = {s1}
  Detections = {d1}
  Messages <- EnterAndLeave
  PoolSize = 1
  Faults = {}
  Values <- MCValues
  Unparsable <- MCUnparsable
  Empty = Empty
  NULL = NULL
  WaitingSession = WaitingSession
  NoPayload = NoPayload
  None = None
  NoRow = NoRow
  NoMessage = NoMessage
CHECK_DEADLOCK FALSE
PROPERTIES NotificationIsEmitted
