SPECIFICATION Spec
CONSTANTS
  t1 = t1  lazy = lazy  eager = eager  lazy2 = lazy2
  Trx = {}
  Session = {s1, s2}
  Background = Background
  Resetter = Resetter
  NoThread = NoThread
  Binlog = Binlog
  Engine = {lazy, lazy2}
  Checkpoint = {lazy, lazy2}
  HaList <- NoTrx
  Rotation = {"log"}
  ExpireLogs = FALSE
  Budget <- RotateTwice
INVARIANTS
  TypeOK
