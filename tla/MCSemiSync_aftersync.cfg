SPECIFICATION FairSpec
CONSTANTS
  MaxTrx = 3
  Slave = {s1}
  AfterSync = TRUE
  WaitNoSlave = TRUE
  Troubles = {"timeout", "kill", "disconnect", "alloc"}
  MaxTroubles = 2
INVARIANTS
  TypeOK
  AckedMeansReceived
  NoneSlipsThrough
  RemovedWhenDone
  NoForgottenSleeper
PROPERTIES
  AckComes
