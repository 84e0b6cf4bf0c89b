SPECIFICATION Spec
CONSTANTS
  g1 = g1
  n1 = n1
  NoAct = NoAct
  Agents = {g1}
  Nonces = {n1}
  Actions <- MCReuseSoon
  c1 = c1
  c2 = c2
  Callers = {c1, c2}
  MaxSkew = 1
  NonceWindow = 2
  MaxStep = 0
  TreeMayFail = FALSE
  MaxTime = 3
  MaxEvents = 2
  MaxKeys = 2
  MaxRestarts = 0
SYMMETRY CallerSymmetry
INVARIANTS SeenNonceRejected
CHECK_DEADLOCK FALSE
