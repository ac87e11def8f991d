\* A status call that overtakes the apply.
SPECIFICATION Spec
CONSTANTS
  c1 = c1
  c2 = c2
  p1 = p1
  p2 = p2
  g1 = g1
  g2 = g2
  Null = Null
  Calls = {c1, c2}
  Plans = {p1, p2}
  Grants = {g1, g2}
  PlanOf <- MCPlanOf
  FaultKinds = {}
  MaxFaults = 0
PROPERTIES FailedIsNotApplied
CHECK_DEADLOCK FALSE
