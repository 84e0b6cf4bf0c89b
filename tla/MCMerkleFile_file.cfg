SPECIFICATION Spec
CONSTANTS
  h1 = h1
  h2 = h2
  Hashes = {h1, h2}
  MaxHalves = 8
  MaxStops = 3
SYMMETRY HashSymmetry
INVARIANTS TypeOK LeavesAreDurable
PROPERTIES ReopensTheTree
CHECK_DEADLOCK FALSE
