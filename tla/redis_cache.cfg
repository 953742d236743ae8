SPECIFICATION Spec
CONSTANTS
  Loops = {l1, l2, l3}
  Addresses = {a1, a2}
  Zero = Zero
  MaxPools = 4
  MaxCloses = 2
CHECK_DEADLOCK FALSE
SYMMETRY Symmetric
INVARIANTS NoSharing PoolKnown
