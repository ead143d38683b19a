SPECIFICATION FairSpec
CONSTANTS
  Threads = {t1, t2}
  BoundAtStart = {"none", t1}
  MaxControls = 1
  MaxTurns = 1
  MaxStartFails = 1
  MaxLosses = 1
  MaxFresh = 1
  RecoveryAttempts = 2
INVARIANTS
  TypeOK
  OneServer
  LoadedAsConfigured
  ResultIsOwn
PROPERTIES
  AttachIsAllOrNothing
  LossIsRepaired
CHECK_DEADLOCK FALSE
