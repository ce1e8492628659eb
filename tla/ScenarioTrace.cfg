CONSTANTS
  ra = ra
  rb = rb
  rc = rc
  Rva <- MCRva
  Methods <- MCMethods
  MaxPredicates = 2
  MaxScenarios = 7
  MaxStatements = 3
  MaxSteps = 5
SPECIFICATION FairTraceSpec
INVARIANTS
  ReplaysParent
  RepeatsShowNothing
  BothSidesExecuted
PROPERTIES
  AnalysisEnds
