SPECIFICATION Spec
CONSTANTS
  Modes = {TRUE}
  Chats = {"c1"}
  MaxTokens = 2
  MaxTunnels = 1
  MaxOps = 2
  MaxFaults = 0
  MaxOpens = 0
  Overlap = TRUE
INVARIANTS
  ManualDisarmSticks
CHECK_DEADLOCK FALSE
