SPECIFICATION Spec
CONSTANTS
  Regions = {r1}
  Services = {s1}
  Payloads = {p1}
  Capacity = 1
  Unreachable = {r1}
  Faults = {}
  Prompt = FALSE
  NoRegion = NoRegion
  EmptyId = EmptyId
  NoItem = NoItem
  MaxVersion = 2
  MaxInc = 1
  MaxChan = 2
  MaxUpdates = 2
  MaxLoss = 0
CHECK_DEADLOCK FALSE
INVARIANTS NoEmptyRegion
