SPECIFICATION Spec
CONSTANTS
  here = here
  c1 = c1
  c2 = c2
  once = once
  other = other
  Host = {here}
  Here = here
  Finding = {1, 2}
  SeverityOf <- MCSeverityOf
  Plugin = {"kernel", "ssh"}
  PluginOf <- MCPluginOf
  Cron = {c1, c2}
  Manual = {}
  Cli = {}
  Batch = {}
  MinSeverity = 3
  Floor = 2
  AlertMode = "both"
  Faults = FALSE
  Stored <- NoneYet
  MaxSessions = 1
  MaxTime = 0
INVARIANT ShutdownWaits
