SPECIFICATION FairSpec
CONSTANTS
  Conns = {c1}
  Tickets = {t1}
  Branches = {b1}
  Global = Global
  Blank = Blank
  None = None
  Requests <- AnyRequest
  Faults = {"broker", "database", "crash"}
  PoolSize = 1
  MaxEvents = 3
CHECK_DEADLOCK FALSE
PROPERTIES HandlerEnds EventsReachClient
INVARIANTS ForwardedInOrder
