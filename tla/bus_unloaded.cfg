SPECIFICATION Spec
CONSTANTS
  Payloads = {p1, p2}
  Workers = {w1, w2}
  Hwm = 2
  MaxMessages = 2
  MaxFaults = 1
CHECK_DEADLOCK FALSE
INVARIANT UnloadedReported
SYMMETRY BusSymmetry
