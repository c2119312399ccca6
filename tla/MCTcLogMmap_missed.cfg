SPECIFICATION Spec
CONSTANTS
  Trx = {t1, t2, t3, t4, t5}
  NoTrx = NoTrx
  NPages = 3
  Size <- OneEach
  Batch = 1
  Checkpoint = {e1}
  Self = Self
  MaxErrors = 0
SYMMETRY Perms
INVARIANTS
  NoMissedPage
