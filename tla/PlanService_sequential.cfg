\* One call at a time, across crashes of the server, and plans whose status is
\* asked for.
SPECIFICATION FairSpec
CONSTANTS
  c1 = c1
  c2 = c2
  p1 = p1
  p2 = p2
  g1 = g1
  g2 = g2
  Null = Null
  Calls = {c1}
  Plans = {p1, p2}
  Grants = {g1, g2}
  PlanOf <- MCPlanOf
  FaultKinds = {"lost", "late", "crash", "kill", "drift", "restore", "clear"}
  MaxFaults = 3
INVARIANTS InFlightHoldsLock
PROPERTIES TerminalIsFinal PolledPlansSettle
CHECK_DEADLOCK FALSE
