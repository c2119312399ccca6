SPECIFICATION Spec
CONSTANTS
  Trx = {t1, t2, t3, t4, t5}
  NoTrx = NoTrx
  NPages = 3
  Size <- AlmostFull
  Batch = 2
  Checkpoint = {e1}
  Self = Self
  MaxErrors = 1
SYMMETRY Perms
INVARIANTS
  FoundByRecovery
  FreeExact
  OnePlace
  SleepersRemembered
