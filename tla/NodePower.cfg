\* Shutdowns, restarts and wake-ups one after the other.
SPECIFICATION Spec
CONSTANTS
  e = e
  p = p
  q = q
  r = r
  Null = Null
  Nodes = {e, p, q, r}
  Entry = e
  Placed = {p}
  FaultKinds = {"read", "ha", "qdevice", "wake", "post", "votes"}
  MaxFaults = 2
SYMMETRY MCSymmetry
INVARIANTS NobodyFences
PROPERTIES EstimateHolds
