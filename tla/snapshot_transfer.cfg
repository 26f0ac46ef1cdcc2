SPECIFICATION FairSpec
CONSTANTS
  Clients = {c1, c2}
  Regions = {r1, r2}
  Items = {x}
  Tables <- MCTables
  NoTable = NoTable
  Capacity = 1
  PeriodCounts = {1, 2}
  MaxFaults = 1
  r1 = r1
  r2 = r2
  x = x
CHECK_DEADLOCK FALSE
INVARIANTS TypeOK InStep NoStall SuccessHasRegions OnePeriodInFlight
PROPERTIES AtomicRead ClientsFinish SlotsFreed
