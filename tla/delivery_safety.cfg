CONSTANTS
  x = x
  y = y
  Nul = Nul
  Bytes = {Nul, x, y}
  Box = box
  Names = {box}
  LongNames = {}
  MaxInodes = 2
  MaxBlocks = 3
  MaxOpen = 3
  DirEntries = 1
  BlockSize = 4
  Publishers = {p1, p2}
  Subscribers = {s1, s2}
  Texts <- LinesAndEmpty
  Garbage <- Dirty
  MaxSent = 2
  Nobody = Nobody
SPECIFICATION Spec
SYMMETRY Symmetry
INVARIANT TypeOK
 
INVARIANT OnePublisher
