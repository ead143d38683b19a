SPECIFICATION Spec
CONSTANTS
  Images = {}
  Documents = {"pdf"}
  Videos = {}
  Sounds = {}
  Tasks = {1, 2}
  Visual = {}
  Pictures = {}
  Speak = {}
  ToolKinds = {}
  Senders = {}
  GiveUp = 2
  MaxWrites = 2
  MaxOps = 0
  MaxFaults = 1
  MaxCrashes = 0
INVARIANTS
  CopyIsFresh
CHECK_DEADLOCK FALSE
