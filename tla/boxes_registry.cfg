CONSTANTS
  Names = {a, b, c}
  LongNames = {}
  Bytes = {Nul, x}
  Nul = Nul
  MaxInodes = 3
  MaxBlocks = 1
  MaxOpen = 2
  DirEntries = 2
  BlockSize = 1
  Workers = {w1, w2}
  Passwords = {NoPassword, key}
  NoPassword = NoPassword
  MaxSlots = 4
  Kinds = {"create", "remove", "pub", "unlock"}
  Careful = TRUE
  Nobody = Nobody
SPECIFICATION Spec
SYMMETRY Symmetry
VIEW Observable
INVARIANT TypeOK
INVARIANT FilesMatch
CHECK_DEADLOCK FALSE
PROPERTY ImplementsRegistry
