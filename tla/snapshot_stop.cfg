SPECIFICATION FairSpec
CONSTANTS
  Clients = {c1}
  Regions = {r1, r2}
  Items = {x}
  Tables <- MCTables
  NoTable = NoTable
  Capacity = 1
  PeriodCounts = {2}
  MaxFaults = 0
  r1 = r1
  r2 = r2
  x = x
CHECK_DEADLOCK FALSE
PROPERTIES StopCompletes
