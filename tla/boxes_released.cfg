CONSTANTS
  Names = {a}
  LongNames = {}
  Bytes = {Nul, x}
  Nul = Nul
  MaxInodes = 2
  MaxBlocks = 1
  MaxOpen = 2
  DirEntries = 1
  BlockSize = 1
  Workers = {w1, w2}
  Passwords = {NoPassword, key}
  NoPassword = NoPassword
  MaxSlots = 2
  Kinds = {"pub", "sub", "create", "remove", "list", "unlock", "lock"}
  Careful = FALSE
  Nobody = Nobody
SPECIFICATION FairSpec
PROPERTY LockReleased
CHECK_DEADLOCK FALSE
