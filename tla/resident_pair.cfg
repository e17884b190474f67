SPECIFICATION FairSpec
CONSTANTS
  c1 = c1
  c2 = c2
  w1 = w1
  w2 = w2
  ask = ask
  dig = dig
  heap = heap
  Clients <- Two
  Witnesses <- OneWitness
  Questions <- AllQuestions
  Size <- MCSize
  NumIndexes = 1
  MaxEntries = 1
  MaxBytes = 3
  Forces = {FALSE}
  Faults = {}
INVARIANTS
  TypeOK
  MemoBounded
PROPERTY
  CommandsReturn
