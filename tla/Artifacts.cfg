SPECIFICATION Spec
CONSTANTS
  Images = {"png"}
  Documents = {"pdf"}
  Videos = {}
  Sounds = {}
  Tasks = {1}
  Visual = {1}
  Pictures = {1}
  Speak = {1}
  ToolKinds = {"image"}
  Senders = {"terminal", "chat", "ctl"}
  GiveUp = 2
  MaxWrites = 1
  MaxOps = 1
  MaxFaults = 2
  MaxCrashes = 1
INVARIANTS
  TypeOK
  CompletedIsDelivered
  DuplicatesHaveACause
CHECK_DEADLOCK FALSE
