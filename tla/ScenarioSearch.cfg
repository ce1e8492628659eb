CONSTANTS
  ra = ra
  rb = rb
  rc = rc
  Rva <- MCRva
  Traces <- MCTraces
  MaxPredicates = 2
  MaxScenarios = 4
  MaxStatements = 2
SPECIFICATION Spec
INVARIANTS
  SearchComplete
  Observed
  BreadthFirst
  BudgetExact
  NoBodyLost
