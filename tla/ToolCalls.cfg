\* Every tool, with two failures, contents out of the ordinary or changes of HA.
SPECIFICATION Spec
CONSTANTS
  AccessMode = "tailscale"
  AdminApi = TRUE
  Calls <- MCCalls
  Offered <- MCOffered
  Kinds <- MCKinds
  MaxConcurrent = 1
  MaxFaults = 2
INVARIANTS
  NothingGoesUnsaid
  HaStopIsWarned
PROPERTIES
  OnlyWhatWasAsked
  EveryCallEnds
CHECK_DEADLOCK FALSE
