SPECIFICATION FairSpec
CONSTANTS
  MaxTrx = 2
  Slave = {s1, s2}
  AfterSync = FALSE
  WaitNoSlave = FALSE
  Troubles = {"timeout", "kill", "disconnect", "disable", "alloc"}
  MaxTroubles = 2
INVARIANTS
  AckedMeansReceived
  NoneSlipsThrough
  RemovedWhenDone
  NoForgottenSleeper
PROPERTIES
  AckComes
