CONSTANTS
  x = x
  y = y
  Nul = Nul
  Bytes = {Nul, x, y}
  Box = box
  Names = {box}
  LongNames = {}
  MaxInodes = 2
  MaxBlocks = 3
  MaxOpen = 3
  DirEntries = 1
  BlockSize = 4
  Publishers = {p1, p2}
  Subscribers = {s1}
  Texts <- OneLine
  Garbage <- Clean
  MaxSent = 2
  Nobody = Nobody
SPECIFICATION FairSpec
PROPERTY Delivered
PROPERTY Released
CHECK_DEADLOCK FALSE
