CONSTANTS
  Rows = 2
  Cols = 2
  Half = 4
  Flags <- MCFlags
  Changes <- MCChanges
  MaxBytes = 4
SPECIFICATION Spec
INVARIANTS
  InStep
  KnowsButtons
  NoStuckByte
