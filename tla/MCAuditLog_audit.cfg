SPECIFICATION Spec
CONSTANTS
  g1 = g1
  n1 = n1
  NoAct = NoAct
  Agents = {g1}
  Nonces = {n1}
  Actions <- MCReuse
  c1 = c1
  c2 = c2
  Callers = {c1, c2}
  MaxSkew = 1
  NonceWindow = 2
  MaxStep = 1
  TreeMayFail = TRUE
  MaxTime = 4
  MaxEvents = 2
  MaxKeys = 2
  MaxRestarts = 1
SYMMETRY CallerSymmetry
INVARIANTS
  TypeOK
  NonceSpacing
  LoggedOnce
  NoReplayAfterRestart
  TreeMatchesLog
  AuditorRebuildsTree
  NoRetiredKey
  AnswerIsLogged
CHECK_DEADLOCK FALSE
