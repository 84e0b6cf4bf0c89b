SPECIFICATION Spec
CONSTANTS
  t1 = t1
  t2 = t2
  n1 = n1
  peer = peer
  author = author
  Threads = {t1, t2}
  Nonces = {n1}
  Peers = {peer}
  Proposer = author
  Handed <- MCHanded
  Window = 1
  MaxNest = 2
  MaxTime = 2
  MaxCalls = 3
INVARIANTS NonceExecutedOnce
CHECK_DEADLOCK FALSE
