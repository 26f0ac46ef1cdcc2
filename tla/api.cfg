SPECIFICATION Spec
CONSTANTS
  RegionSessions = {g1, g2}
  TrackerSessions = {t1}
  Regions = {r1}
  Services = {s1}
  Payloads = {p1, p2}
  NoRegion = NoRegion
  NoAnswer = NoAnswer
  MaxCalls = 4
  MaxBreaks = 1
CHECK_DEADLOCK FALSE
INVARIANTS TypeOK LateByTimeouts RoutesFresh Barrier
PROPERTIES VersionsGrow
CONSTRAINT OneActor
SYMMETRY ApiSymmetry
