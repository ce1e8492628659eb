CONSTANTS
  Start = 0
  End = 5
  Layouts <- MCLayouts
  MaxInstructions = 4
  MaxStates = 6
  MaxVisits = 2
SPECIFICATION Spec
INVARIANTS
  EverythingVisited
  NothingInvented
  NoHiddenLoop
