SPECIFICATION Spec
CONSTANTS
  Regions = {r1, r2, r3}
  Services = {}
  Payloads = {p1}
  Capacity = 2
  Unreachable = {r3}
  Faults = {"restart", "refuse"}
  Prompt = FALSE
  NoRegion = NoRegion
  EmptyId = EmptyId
  NoItem = NoItem
  MaxVersion = 2
  MaxInc = 1
  MaxChan = 1
  MaxUpdates = 2
  MaxLoss = 0
CHECK_DEADLOCK FALSE
INVARIANTS IInv LosslessExact FactoriesSound
PROPERTIES NoRollback AnswersRoutes
