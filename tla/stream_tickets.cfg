SPECIFICATION Spec
CONSTANTS
  Conns = {c1, c2}
  Tickets = {t1, t2}
  Branches = {b1}
  Global = Global
  Blank = Blank
  None = None
  Requests <- AnyRequest
  Faults = {"broker", "database", "frame", "crash"}
  PoolSize = 1
  MaxEvents = 1
CHECK_DEADLOCK FALSE
SYMMETRY Symmetric
INVARIANTS TypeOK SingleUse NothingKept AcceptedIsAuthorized
PROPERTIES ImplementsAuthority
