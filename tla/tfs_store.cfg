CONSTANTS
  x = x
  y = y
  Names = {a, b}
  LongNames = {}
  Bytes = {Nul, x, y}
  Nul = Nul
  MaxInodes = 3
  MaxBlocks = 3
  MaxOpen = 2
  DirEntries = 2
  BlockSize = 2
  Texts <- PlainTexts
  Lengths = {1, 2}
  MaxLinks = 1
  Calls = {"open", "close", "write", "read", "unlink", "copy"}
  Careful = TRUE
SPECIFICATION Spec
SYMMETRY Symmetry
INVARIANT TypeOK
INVARIANT BlocksOwned
 
