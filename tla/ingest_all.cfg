SPECIFICATION Spec
CONSTANTS
  Streams = {s1, s2}
  Detections = {d1, d2}
  Messages <- AllMessages
  PoolSize = 2
  Faults = {"database", "redis", "cancel", "crash"}
  Values <- MCValues
  Unparsable <- MCUnparsable
  Empty = Empty
  NULL = NULL
  WaitingSession = WaitingSession
  NoPayload = NoPayload
  None = None
  NoRow = NoRow
  NoMessage = NoMessage
CHECK_DEADLOCK FALSE
SYMMETRY Symmetric
INVARIANTS TypeOK AckedIsVisible NackedIsNotStored EventReflectsOwnCommit EventsInStreamOrder OneConnectionPerStream RowsComeFromStored
PROPERTIES RecordsArePermanent Implements ResendFindsRow
