CONSTANTS
  rcx = rcx
  rbx = rbx
  Registers <- MCRegisters
  Rcx = rcx
  Volatile <- MCVolatile
  Keys <- MCKeys
  Loose = {"table", "other"}
  Slots = {1, 2}
  Named = {2}
  Frames = {0, 32}
  Elsewhere <- MCElsewhere
  MaxSteps = 4
SPECIFICATION OriginSpec
CHECK_DEADLOCK FALSE
INVARIANTS
  OriginsAgree
  
