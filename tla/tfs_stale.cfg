CONSTANTS
  x = x
  y = y
  Names = {a, b}
  LongNames = {}
  Bytes = {Nul, x, y}
  Nul = Nul
  MaxInodes = 3
  MaxBlocks = 3
  MaxOpen = 1
  DirEntries = 2
  BlockSize = 4
  Texts <- NulTexts
  Lengths = {4}
  MaxLinks = 1
  Calls = {"open", "close", "write", "read", "unlink"}
  Careful = TRUE
SPECIFICATION Spec
INVARIANT ReadsInsideFile
CHECK_DEADLOCK FALSE
