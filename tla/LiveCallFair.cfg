SPECIFICATION FairSpec
CONSTANTS
  Items = {i1}
  MaxCrashes = 0
  EarlyHangup = TRUE
  ContextFails = FALSE
  StageStalls = FALSE
  AppendSlow = TRUE
  BootstrapFails = TRUE
INVARIANTS
  HandedOffOnce
  CountedOnce
PROPERTIES
  CallClears
