CONSTANTS
  Mnemonics <- AllMnemonics
  Width = 2
SPECIFICATION Spec
INVARIANT RecordedIsExecuted
