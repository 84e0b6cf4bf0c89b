SPECIFICATION Spec
CONSTANTS
  a1 = a1
  a2 = a2
  read = read
  write = write
  file = file
  site = site
  any = any
  Agents = {a1}
  Wildcard = any
  Scopes <- MCScopes
  Asks <- MCAsks
  TTLs = {1, 4}
  MaxInt = 4
  MaxTime = 2
  MaxTokens = 1
  MaxCalls = 2
  MaxLives = 2
INVARIANTS
  TypeOK
  GrantedMeansValid
  RevokedStaysDead
  OnlyInvalidRefused
CHECK_DEADLOCK FALSE
