CONSTANTS
  x = x
  y = y
  Blocks <- MCBlocks
  MaxInput = 2
  MaxEntry = 2
  MaxDecoded = 3
  MaxFile = 4
  MaxWrites = 2
  Paths <- MCPaths
  Nodes = {1, 2, 3}
  Node <- MCNode
  Input = "jar"
  NoPath = "none"
SPECIFICATION CommandSpec
INVARIANTS
  LimitUnlessArchiveGrew
  IdentityOfQuietInput
  PayloadWhole
  OutputsInPlace
