\* Every open journal is settled, along the contract of the journal.
SPECIFICATION FairSpec
CONSTANTS
  add = add
  del = del
  g1 = g1
  g2 = g2
  ours = ours
  theirs = theirs
  rule = rule
  other = other
  Absent = Absent
  Null = Null
  Plans = {add, del}
  Grants = {g1, g2}
  PlanOf <- MCPlanOf
  Sections = {ours, theirs}
  Owned = {rule}
  Foreign = {other}
  Operations <- MCOperations
  Deadline = 1
  ApplyBudget = 1
  HeartbeatMaxAge = 1
  FaultKinds = {"kill", "reboot", "edit", "restore", "reject_restore", "watchdog"}
  MaxFaults = 2
  EditsWhileBusy = TRUE
  ApplyDuringClear = FALSE
PROPERTIES EventuallySettled ImplementsContract
