SPECIFICATION FairSpec
CONSTANTS
  NumUpdates = 3
  MaxFaults = 2
  MaxHolds = 2
  SlowNotices = FALSE
  TelegramFails = FALSE
  BackendDies = FALSE
  OtherProcess = FALSE
INVARIANTS
  HandedAtMostOnce
  NoOrphanedRow
  TurnIsRecorded
PROPERTIES
  LedgerSpec
  EveryUpdateSettles
