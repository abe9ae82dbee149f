CONSTANTS
  Configs <- MCConfigs
  KeyBytes <- MCKeyBytes
  MaxKeys = 0
  MaxMoves = 0
SPECIFICATION Spec
INVARIANTS
  ReadsState
