CONSTANTS
  Keys = {"k", "F1"}
  ShiftKeys = {"lshift"}
  Chars = {"nul", "k", "K"}
  keymap_us <- MCKeymap
  NUL = "nul"
  KBD_BUF_SIZE = 4
SPECIFICATION Spec
PROPERTIES NoPressTwice ImplementsCharQueue
