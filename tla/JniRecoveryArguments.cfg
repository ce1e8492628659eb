CONSTANTS
  Scalars <- MCScalars
  Signatures <- MCTwoArguments
  MaxHandles = 5
  MaxCalls = 2
SPECIFICATION Spec
INVARIANT ArgumentsNamed
CHECK_DEADLOCK FALSE
