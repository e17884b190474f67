SPECIFICATION Spec
CONSTANTS
  c1 = c1
  c2 = c2
  Clients <- Two
  Starters <- One
  MaxExecs = 1
  MaxStops = 3
  MaxHistory = 2
  Removals = {TRUE, FALSE}
  Faults = {"crash", "lose"}
INVARIANTS
  TypeOK
  IInv
  NoStopTwice
  HistoryNeverAhead
  EvidenceEarned
PROPERTIES
  HandleNeverRegresses
  EvidenceImmutable
