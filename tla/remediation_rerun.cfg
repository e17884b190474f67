SPECIFICATION Spec
CONSTANTS
  debug = debug
  old = old
  new = new
  stdlib = stdlib
  other = other
  NumDescriptors = 1
  Standalone = {1}
  Modules <- OneModule
  SourceOf <- MCSourceOf
  Contents <- BothContents
  Libraries <- BothLibraries
  Siblings <- OneSibling
  Std = stdlib
  Needed <- MCNeeded
  Budgets <- MCBudgets
  PathChoices <- MCPaths
  HintChoices <- MCHints
  MaxDisturbances = 0
INVARIANT
  RerunsStayQuiet
