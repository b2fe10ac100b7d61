CONSTANTS
  Names = {a}
  LongNames = {}
  Bytes = {Nul, x}
  Nul = Nul
  MaxInodes = 3
  MaxBlocks = 1
  MaxOpen = 2
  DirEntries = 2
  BlockSize = 1
  Workers = {w1, w2}
  Passwords = {NoPassword}
  NoPassword = NoPassword
  MaxSlots = 2
  Kinds = {"pub", "sub", "create", "remove", "list", "unlock", "lock"}
  Careful = FALSE
  Nobody = Nobody
SPECIFICATION Spec
INVARIANT FreeMeansUnused
CHECK_DEADLOCK FALSE
