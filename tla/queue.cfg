CONSTANTS
  Producers = {main}
  Consumers = {c1, c2}
  Tasks = {t1, t2, t3, t4}
  Capacity = 2
  Residue = {0}
  NoTask = NoTask
  Nobody = Nobody
SPECIFICATION ShortSpec
INVARIANT TypeOK
INVARIANT NothingLost
INVARIANT NotStranded
PROPERTY ImplementsFifo
PROPERTY Served
