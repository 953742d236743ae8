SPECIFICATION FairSpec
CONSTANTS
  Streams = {s1}
  Detections = {d1, d2}
  Messages <- Entries
  DbPool = 1
  IngestionFaults = {}
  NoRow = NoRow
  NoMessage = NoMessage
  Values = {"n1"}
  Unparsable = {}
  Empty = Empty
  NULL = NULL
  WaitingSession = WaitingSession
  NoPayload = NoPayload
  Conns = {c1}
  Tickets = {t1}
  Branches = {b1}
  Global = Global
  BlankName = BlankName
  Requests <- AskGlobal
  StreamFaults = {"broker", "crash"}
  RedisPool = 2
  MaxEvents = 2
  None = None
CHECK_DEADLOCK FALSE
PROPERTIES UpdatesArePushed
INVARIANTS GapIsRepaired DisplayNeverGoesBack
