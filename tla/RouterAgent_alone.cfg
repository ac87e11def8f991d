\* No kill and no edit: the failures the agent handles by itself.
SPECIFICATION Spec
CONSTANTS
  add = add
  del = del
  g1 = g1
  g2 = g2
  ours = ours
  theirs = theirs
  rule = rule
  other = other
  Absent = Absent
  Null = Null
  Plans = {add, del}
  Grants = {g1, g2}
  PlanOf <- MCPlanOf
  Sections = {ours, theirs}
  Owned = {rule}
  Foreign = {other}
  Operations <- MCOperations
  Deadline = 1
  ApplyBudget = 1
  HeartbeatMaxAge = 1
  FaultKinds = {"restore", "watchdog", "reject_restore"}
  MaxFaults = 3
  EditsWhileBusy = FALSE
  ApplyDuringClear = FALSE
INVARIANTS NeverNeedsManual NoStrayDelta
PROPERTIES ConfirmedIsFinal
