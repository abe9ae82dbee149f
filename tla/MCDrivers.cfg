CONSTANTS
  Configs <- MCConfigs
  KeyBytes <- MCKeyBytes
  MaxKeys = 2
  MaxMoves = 1
SPECIFICATION Spec
INVARIANTS
  TypeOK
  Armed
  AckFirst
PROPERTIES
  NobodyStuck
