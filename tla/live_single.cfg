SPECIFICATION FairSpec
CONSTANTS
  c1 = c1
  c2 = c2
  Clients <- One
  Starters <- One
  MaxExecs = 2
  MaxStops = 3
  MaxHistory = 2
  Removals = {TRUE, FALSE}
  Faults = {"kill"}
INVARIANTS
  HistoryComplete
  EvidenceComplete
PROPERTIES
  StopsAppendOnly
  CloseRetiresHandle
