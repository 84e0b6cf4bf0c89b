SPECIFICATION VSpec
CONSTANTS
  Data = {"a", "b"}
  MaxLeaves = 2
  MaxClaim = 2
INVARIANTS OkOnlyIfClaimHolds
CHECK_DEADLOCK FALSE
