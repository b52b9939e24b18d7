CONSTANTS
  ROWS = 3
  COLS = 2
  TabStop = 2
  Printable = {" ", "a"}
  MainChars = {"a", "nl"}
  Blank = " "
  ByteRange = 4
SPECIFICATION Spec
INVARIANT ScreenBounds
PROPERTY ImplementsTerminal
