CONSTANTS
  Scalars <- MCScalars
  Signatures <- MCSignatures
  MaxHandles = 4
  MaxCalls = 2
SPECIFICATION Spec
INVARIANTS
  DeclaredBeforeUse
  EffectsKept
  ReceiverAndFirstArgument
  ReturnFaithful
CHECK_DEADLOCK FALSE
