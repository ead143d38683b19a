SPECIFICATION FairSpec
CONSTANTS
  AskRows = {}
  PingRows = {1}
  ChatRows = {2}
  Asks = {a1, a2}
  Commands = {"use", "unlock", "lock", "start", "stop", "restart", "ping", "ask",
              "interrupt", "clear", "connect", "disconnect", "enable", "disable"}
  Controls = {"use", "unlock", "lock", "start", "stop", "restart", "ping", "ask",
              "interrupt", "clear"}
  MaxOps = 1
  MaxSessions = 2
  MaxFaults = 1
  UserOwned = TRUE
  NameTaken = FALSE
  CloseMidTurn = FALSE
INVARIANTS
  TypeOK
  LeavesOthersAlone
  ProcessingIsWork
PROPERTIES
  ToldIsFinal
  WorkerMovesOn
CHECK_DEADLOCK FALSE
