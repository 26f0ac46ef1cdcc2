CONSTANTS
  Services = {s1, s2}
  Payloads = {p1}
  NoItem = NoItem
  MaxVersion = 2
  MaxUpdates = 3
SPECIFICATION Spec
INVARIANTS TypeOK PresentExact RecentLast
CHECK_DEADLOCK FALSE
