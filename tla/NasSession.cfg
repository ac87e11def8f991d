\* Two power calls, a write or a read over one socket, with one fault.
SPECIFICATION FairSpec
CONSTANTS
  Power = Power
  Other = Other
  Null = Null
  pve = pve
  box = box
  Clients = {pve, box}
  V3 = {pve}
  Unnamed = {}
  Expected = {pve}
  Modern = FALSE
  MaxCalls = 2
  MaxPolls = 1
  MaxFaults = 1
  FaultKinds = {"connect", "cancel", "list", "drop", "clients"}
CHECK_DEADLOCK FALSE
INVARIANTS AnswersMatch OncePerCall RetryIsSafe AnswersAreTrue
PROPERTIES NothingCutOff EventuallyEnds
