CONSTANTS
  Modulus = 1024
  HeapAddress = 256
  HeapSize = 64
  Reserve = 16
  HandleLimit = 320
  Words <- MCWords
  Kinds = {"Class", "Object"}
SPECIFICATION HeapSpec
INVARIANTS
  Disjoint
  OnlyWrappedGranted
PROPERTY HandlesKeepMeaning
