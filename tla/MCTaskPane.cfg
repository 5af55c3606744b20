SPECIFICATION FairSpec
CONSTANTS
  d1 = d1
  d2 = d2
  c1 = c1
  none = none
  Docs <- MCDocs
  Cards <- MCCards
  None <- none
  HistoryLimit = 1
  MaxChecks = 2
  MaxWorkers = 1
  MaxWritings = 1
INVARIANTS
  HistoryReachesSnapshots
  NoButtonStuck
PROPERTIES
  CheckEnds
