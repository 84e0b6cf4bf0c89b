SPECIFICATION Spec
CONSTANTS
  svc = svc
  other = other
  loop = loop
  once = once
  NoAddress = NoAddress
  NoProc = NoProc
  Addresses = {svc, other}
  Roots <- MCRoots
  ForeignRoot <- MCForeignRoot
  MaxSize = 2
  MaxAnchors = 2
  Loop = loop
  Others = {once}
  Service = svc
  Modes = {TRUE, FALSE}
  RevertIsError = TRUE
  Governed = TRUE
  MaxErrors = 1
  MaxRestarts = 1
INVARIANTS
  ReportedIsAnchored
  AnchorsAreHeads
  SizesIncrease
  NominationIsCurrent
CHECK_DEADLOCK FALSE
