CONSTANTS
  Rows = 2
  Cols = 2
  Byte = 5
  Chars = {"a"}
  Blank = "blank"
  Newline = "nl"
  Backspace = "bs"
  Texts <- MCMessages
  Keys <- MCKeys
  Interruptible <- MCAlways
  MaxKeys = 2
SPECIFICATION Spec
INVARIANTS
  StaysOnPage
PROPERTIES
  MessageEnds
