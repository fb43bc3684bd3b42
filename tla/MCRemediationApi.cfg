CONSTANTS
  Requests = {"r1", "r2", "r3", "r4"}
  Bodies <- MCBodies
  NoBody = nobody
  NoLink = nolink
  DemoMode = FALSE
  OnWindows = TRUE
  ScriptsOnDisk = {"reset_dns.bat"}
  ShellLike = {"a;b"}
  MaxFaults = 1
SPECIFICATION Spec
INVARIANTS    LinksPointBack
PROPERTIES RequestsEnd
CHECK_DEADLOCK FALSE
