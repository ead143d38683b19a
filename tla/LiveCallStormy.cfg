SPECIFICATION Spec
CONSTANTS
  Items = {i1}
  MaxCrashes = 1
  EarlyHangup = TRUE
  ContextFails = TRUE
  StageStalls = TRUE
  AppendSlow = TRUE
  BootstrapFails = TRUE
INVARIANTS
  TypeOK
  HandoffIsKept
  CapturedItemsReachHandoff
PROPERTIES
  AppendedIsFinal
