SPECIFICATION FairPageSpec
CONSTANTS
  svc = svc
  loop = loop
  q1 = q1
  q2 = q2
  NoAddress = NoAddress
  NoProc = NoProc
  Addresses = {svc}
  Roots <- MCRoots
  ForeignRoot <- MCForeignRoot
  MaxSize = 2
  MaxAnchors = 2
  Loop = loop
  Others = {}
  Service = svc
  Modes = {TRUE, FALSE}
  RevertIsError = TRUE
  Governed = FALSE
  MaxErrors = 2
  MaxRestarts = 1
  Requests = {q1, q2}
  Setups <- MCSetups
INVARIANTS PageTypeOK ShownIsAnchored CleanMeansClean
PROPERTIES
  ImplementsWitness
  HeadsAreAnchored
  SignalEndsProcess
  PageConverges
CHECK_DEADLOCK FALSE
