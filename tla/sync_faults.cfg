SPECIFICATION Spec
CONSTANTS
  Regions = {r1}
  Services = {s1}
  Payloads = {p1}
  Capacity = 1
  Unreachable = {}
  Faults = {"crash", "refuse", "silence"}
  Prompt = FALSE
  NoRegion = NoRegion
  EmptyId = EmptyId
  NoItem = NoItem
  MaxVersion = 3
  MaxInc = 2
  MaxChan = 2
  MaxUpdates = 3
  MaxLoss = 1
CHECK_DEADLOCK FALSE
INVARIANTS TypeOK TableExact NoOrphans FactoriesSound
PROPERTIES NoRollback
