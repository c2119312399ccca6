SPECIFICATION FairSpec
CONSTANTS
  Thread = {t1, t2, t3}
  NoThread = NoThread
  Lock = {l1, l2}
  MaxDepth = 2
INVARIANTS
  Exclusive
  NoLostWakeup
PROPERTIES
  ReadersGetIn
  WriterWaitsForReaders
