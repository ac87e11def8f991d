\* Two runs on every list of up to four rules, one of which may break off.
SPECIFICATION Spec
CONSTANTS
  Templates <- MCTemplates
  MaxRules = 4
  Ports = {"80", "443"}
  Host = "tailscale"
  MaxRuns = 2
  MaxFaults = 1
CHECK_DEADLOCK FALSE
INVARIANTS RunsConverge
PROPERTIES RunsAdvance  OthersUntouched
