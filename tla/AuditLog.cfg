\* Two servers and the approve command write four lines; two writes may fail.
CONSTANTS
  server = server
  other = other
  approve = approve
  plan = plan
  apply = apply
  grant = grant
  Servers <- MCServers
  Commands <- MCCommands
  Events <- MCEvents
  Approvals <- MCApprovals
  MaxLines = 4
  MaxFaults = 2
SPECIFICATION Spec
SYMMETRY Alike
INVARIANTS ChainHolds RecordsFollow EventsKept
CHECK_DEADLOCK FALSE
