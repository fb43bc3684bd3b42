CONSTANTS
  Requests = {"r1", "r2"}
  Bodies <- MCTransitions
  NoBody = nobody
  NoLink = nolink
  DemoMode = FALSE
  OnWindows = TRUE
  ScriptsOnDisk = {"reset_dns.bat"}
  ShellLike = {"a;b"}
  MaxFaults = 1
SPECIFICATION Spec
INVARIANTS IncidentHistoryIsValid
CHECK_DEADLOCK FALSE
