SPECIFICATION Spec
CONSTANTS
  SubBuffer = 1
  MaxKept = 3
  MaxWire = 1
  MaxSeq = 4
  MaxDisconnects = 1
  MaxRestarts = 0
INVARIANTS DropsHealOnReconnect
CHECK_DEADLOCK FALSE
