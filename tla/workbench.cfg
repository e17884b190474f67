SPECIFICATION MCSpec
CONSTANTS
  MaxTrouble = 2
  Runtimes <- MCRuntimes
  Programs <- MCPrograms
  Requests <- MCRequests
  Inputs <- MCInputs
  Tests <- MCTests
  Policies <- MCPolicies
  DefaultLimit = 8
  MaxAttempts = {1, 8}
  Targets <- MCTargets
  TraceCap = 3
  ProvenanceCap = 8
  ReplayCap = 2
  MinimizationCap = 2
  MaxSteps = 4
  Evidence <- MCEvidence
  Kinds = {"any", "failure"}
  SliceLimits = {1, 8}
  Values = {"v3"}
  Bindings = {"x", "y", "z"}
  Writers = {1, 2, 3}
  Documents <- MCDocuments
  MaxRewrites = 1
INVARIANTS
  SearchKeepsAccount
  CompleteMeansWhole
  StopSetsAgree
  EscalationBounded
  SufficientIsEarned
  FetchNeverLies
  OvertakenTwice
PROPERTIES
  OrdinaryRunsReproduce
  ReducedKeepsSignature
  FactsGrow
  CommandsReturn
