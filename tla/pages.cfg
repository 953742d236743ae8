SPECIFICATION Spec
CONSTANTS
  Uuids = {u1, u2, u3}
  Times = {1, 2, 3}
  Lists = {"all", "inside", "exited", "waiting"}
  Limits = {1, 2}
  Pages = 4
  NULL = NULL
  NoRow = NoRow
CHECK_DEADLOCK FALSE
SYMMETRY Symmetric
INVARIANTS PagesAreFull NothingSkipped
