SPECIFICATION FairSpec
CONSTANTS
  c1 = c1
  c2 = c2
  Clients <- Two
  Starters <- One
  MaxExecs = 1
  MaxStops = 3
  MaxHistory = 2
  Removals = {FALSE}
  Faults = {"kill"}
INVARIANT
  NoOrphanDaemon
PROPERTIES
  CommandsReturn
  FinishedGetsEvidence
  CloseRetiresDaemon
