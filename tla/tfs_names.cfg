CONSTANTS
  x = x
  y = y
  Names = {a, b, long}
  LongNames = {long}
  Bytes = {Nul, x, y}
  Nul = Nul
  MaxInodes = 4
  MaxBlocks = 3
  MaxOpen = 1
  DirEntries = 3
  BlockSize = 2
  Texts <- PlainTexts
  Lengths = {}
  MaxLinks = 2
  Calls = {"open", "close", "sym_link", "link", "unlink"}
  Careful = FALSE
SPECIFICATION Spec
SYMMETRY Symmetry
INVARIANT EntriesLive
CHECK_DEADLOCK FALSE
