SPECIFICATION Spec
CONSTANTS
  Trx = {t1, t2}
  NoTrx = NoTrx
  NPages = 3
  Size <- AlmostFull
  Batch = 1
  Checkpoint = {e1, e2}
  Self = Self
  MaxErrors = 0
SYMMETRY Perms
INVARIANTS
  FoundByRecovery
