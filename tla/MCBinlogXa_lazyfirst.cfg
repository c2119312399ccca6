SPECIFICATION Spec
CONSTANTS
  t1 = t1  lazy = lazy  eager = eager  lazy2 = lazy2
  Trx = {t1}
  Session = {s1}
  Background = Background
  Resetter = Resetter
  NoThread = NoThread
  Binlog = Binlog
  Engine = {lazy, eager}
  Checkpoint = {lazy}
  HaList <- LazyFirst
  Rotation = {"log"}
  ExpireLogs = FALSE
  Budget <- CrashOnce
INVARIANTS
  RecoveryAgrees
