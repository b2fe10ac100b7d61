CONSTANTS
  MAX_LINE = 8
  MAX_PIPE_NAME = 2
  MAX_BOX_NAME = 2
  MAX_PASSWORD = 1
  MAX_MESSAGE = 6
  INT32 = 1
  UINT64 = 1
  Torn = Torn
  c1 = c1
  c2 = c2
  c3 = c3
  p1 = p1
  p2 = p2
  p3 = p3
  a = a
  b = b
  key = key
  new = new
  Clients = {c1, c2, c3}
  Mixes <- SomeMixes
  Workers = {w1, w2}
  Capacity = 2
  Tables <- SomeTables
  MaxTasks = 3
  Failure = Failure
  NoTask = NoTask
SPECIFICATION Spec
INVARIANT TypeOK
INVARIANT TakenOnce
INVARIANT LostOnlyCrowded
INVARIANT AnswersMatch
CHECK_DEADLOCK FALSE
 
