SPECIFICATION FairSpec
CONSTANTS
  Regions = {r1}
  Services = {s1}
  Payloads = {p1}
  Capacity = 1
  Unreachable = {}
  Faults = {"crash"}
  Prompt = TRUE
  NoRegion = NoRegion
  EmptyId = EmptyId
  NoItem = NoItem
  MaxVersion = 2
  MaxInc = 2
  MaxChan = 2
  MaxUpdates = 2
  MaxLoss = 1
CHECK_DEADLOCK FALSE
PROPERTIES Converges Forgotten
