SPECIFICATION FairSpec
CONSTANTS
  SubBuffer = 2
  MaxKept = 3
  MaxWire = 2
  MaxSeq = 5
  MaxDisconnects = 2
  MaxRestarts = 1
INVARIANTS TypeOK ConnectionInOrder NothingBetween
PROPERTIES ImplementsFeed
CHECK_DEADLOCK FALSE
