CONSTANTS
  kept = kept
  other = other
  fresh = fresh
  long = long
  x = x
  y = y
  Names = {kept, other, fresh, long}
  LongNames = {long}
  Bytes = {Nul, x, y}
  Nul = Nul
  MaxInodes = 6
  MaxBlocks = 3
  MaxOpen = 5
  DirEntries = 6
  BlockSize = 2
  Threads = {t1, t2, t3}
  Calls <- SomeCalls
  Scripts <- SomeScripts
  Apart <- Conflict
SPECIFICATION Spec
SYMMETRY Symmetry
INVARIANT TypeOK
INVARIANT NoAbort
INVARIANT NoDeadlock
INVARIANT Atomic
