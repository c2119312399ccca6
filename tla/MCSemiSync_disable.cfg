SPECIFICATION Spec
CONSTANTS
  MaxTrx = 1
  Slave = {s1}
  AfterSync = FALSE
  WaitNoSlave = FALSE
  Troubles = {"timeout", "disable"}
  MaxTroubles = 2
INVARIANTS
  ListWhenSwitchedOff
