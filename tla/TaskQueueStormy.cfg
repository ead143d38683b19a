SPECIFICATION Spec
CONSTANTS
  NumUpdates = 2
  MaxFaults = 2
  MaxHolds = 1
  SlowNotices = TRUE
  TelegramFails = TRUE
  BackendDies = TRUE
  OtherProcess = TRUE
INVARIANTS
  TypeOK
  CompletedWasAnswered
  NoUpdateLost
