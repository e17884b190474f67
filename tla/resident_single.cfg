SPECIFICATION Spec
CONSTANTS
  c1 = c1
  c2 = c2
  w1 = w1
  w2 = w2
  ask = ask
  dig = dig
  heap = heap
  Clients <- One
  Witnesses <- BothWitnesses
  Questions <- SmallQuestions
  Size <- MCSize
  NumIndexes = 2
  MaxEntries = 2
  MaxBytes = 3
  Forces = {TRUE, FALSE}
  Faults <- AllFaults
SYMMETRY WitnessSymmetry
INVARIANT
  MemoSound
PROPERTIES
  RetiredStays
  RebuildFaithful
  FreshResultKept
