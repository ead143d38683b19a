SPECIFICATION Spec
CONSTANTS
  Lanes = {"primary", "fallback"}
  MaxAsks = 2
  MaxTurns = 2
  MaxExtra = 0
  MaxSendFails = 1
  MaxLosses = 0
  MaxCrashes = 1
  EarlyAnswers = FALSE
  IdsRestart = FALSE
INVARIANTS
  TypeOK
  RowIsResolvable
PROPERTIES
  AnswerIsItsOwn
CHECK_DEADLOCK FALSE
