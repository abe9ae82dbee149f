CONSTANTS
  Keys <- MCArrowsKeys
  NoKey = NoKey
  MouseBytes = {}
  MaxBytes = 3
SPECIFICATION Spec
INVARIANTS
  ArrowsPrintNothing
