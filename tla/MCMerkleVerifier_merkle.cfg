SPECIFICATION VSpec
CONSTANTS
  Data = {"a", "b"}
  MaxLeaves = 7
  MaxClaim = 3
INVARIANTS
  ProofsComplete
  ProofsSound
  RewriteDetected
  FalseAlarmOnlyFromRace
CHECK_DEADLOCK FALSE
