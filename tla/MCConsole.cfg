CONSTANTS
  Rows = 2
  Cols = 3
  Byte = 6
  Chars = {"a", "b"}
  Blank = "blank"
  Newline = "nl"
  Backspace = "bs"
  Texts <- MCTexts
  Keys <- MCKeys
  Interruptible <- MCBetween
  MaxKeys = 2
SPECIFICATION Spec
INVARIANTS
  BlankAhead
PROPERTIES
  TerminalSpec
