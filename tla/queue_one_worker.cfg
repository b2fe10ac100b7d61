CONSTANTS
  Producers = {main}
  Consumers = {c1}
  Tasks = {t1, t2}
  Capacity = 1
  Residue = {0}
  NoTask = NoTask
  Nobody = Nobody
SPECIFICATION ShortSpec
PROPERTY SleepsUntilNonempty
CHECK_DEADLOCK FALSE
