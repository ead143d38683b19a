SPECIFICATION FairSpec
CONSTANTS
  Lanes = {"primary"}
  MaxAsks = 1
  MaxTurns = 2
  MaxExtra = 1
  MaxSendFails = 1
  MaxLosses = 1
  MaxCrashes = 1
  EarlyAnswers = FALSE
  IdsRestart = FALSE
INVARIANTS
  ActsOnce
PROPERTIES
  AskIsAnswered
  PollMovesOn
CHECK_DEADLOCK FALSE
