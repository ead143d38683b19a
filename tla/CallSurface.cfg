SPECIFICATION Spec
CONSTANTS
  Modes = {TRUE, FALSE}
  Chats = {"c1"}
  MaxTokens = 3
  MaxTunnels = 2
  MaxOps = 2
  MaxFaults = 1
  MaxOpens = 1
  Overlap = FALSE
INVARIANTS
  TypeOK
  TokenSpentOnce
  InviteIsLive
  NoTunnelWhenDisarmed
PROPERTIES
  DisarmSticks
CHECK_DEADLOCK FALSE
