SPECIFICATION Spec
CONSTANTS
  Regions = {r1, r2, r3}
  Services = {s1}
  Payloads = {p1}
  NoRegion = NoRegion
  RegionTimeout = 1
  EntryTimeout = 2
  RegionLimit = 2
  EntryLimit = 2
  MergeAge = 1
INVARIANTS TypeOK IndexExact NothingLongOver SnapshotWhole
PROPERTIES TurnsKept AnswersRoutes
SYMMETRY RegionSymmetry
