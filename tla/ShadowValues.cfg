CONSTANTS
  rax = rax
  rcx = rcx
  Unknown = Unknown
  Garbled = Garbled
  Registers <- MCRegisters
  Rax = rax
  Mnemonics <- MCMnemonics
  Width = 2
  Immediates = {1, 3}
  Results = {0, 2}
  Images <- MCImages
  Bits <- MCBits
  MaxSteps = 3
SPECIFICATION Spec
CHECK_DEADLOCK FALSE
INVARIANTS
  ShadowTruthful
  ConditionTruthful
  JumpsByOperands
  OnlySignedForcingFails
PROPERTIES
  ImplementsForcing
