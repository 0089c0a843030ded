SPECIFICATION Spec
CONSTANTS
  w1 = w1
  w2 = w2
  NoError = NoError
  Workers <- TwoWorkers
  MaxIterations = 2
  MaxCommands = 2
  MaxClaims = 2
  Kinds <- AllKinds
INVARIANTS
  IterationBudget
  EndIsNotAFault
  StopSurfaces
  EveryCommandCounted
  FailureReachesVerdict
  CleanRunPasses
PROPERTIES
  ContractSpec
