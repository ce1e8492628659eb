CONSTANT MaxInstructions = 6
SPECIFICATION FairSpec
INVARIANTS
  CompletedIffReturned
  ReasonTruthful
PROPERTY Ends
