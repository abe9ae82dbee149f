CONSTANTS
  Rows = 2
  Cols = 3
  Half = 4
SPECIFICATION PointerSpec
INVARIANTS
  PointerOnPage
PROPERTIES
  GhostsOnlyFromText
