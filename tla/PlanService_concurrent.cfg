\* Two overlapping tool calls; everything fails but the server process.
SPECIFICATION Spec
CONSTANTS
  c1 = c1
  c2 = c2
  p1 = p1
  p2 = p2
  g1 = g1
  g2 = g2
  Null = Null
  Calls = {c1, c2}
  Plans = {p1, p2}
  Grants = {g1, g2}
  PlanOf <- MCPlanOf
  FaultKinds = {"lost", "late", "cancel", "kill", "restore", "drift", "clear"}
  MaxFaults = 1
INVARIANTS RowsAgree LockNotStranded
PROPERTIES AppliedOnce
SYMMETRY MCSymmetry
CHECK_DEADLOCK FALSE
