SPECIFICATION Spec
CONSTANTS
  Sockets = {w1, w2}
  Branches = {b1, b2}
  Broadcasts = {m1, m2}
  None = None
CHECK_DEADLOCK FALSE
SYMMETRY Symmetric
INVARIANTS Filed BranchIsolation Delivered
