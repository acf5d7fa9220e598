SPECIFICATION FairSpec
CONSTANTS
  here = here
  c1 = c1
  c2 = c2
  once = once
  other = other
  Host = {here}
  Here = here
  Finding = {1, 2}
  SeverityOf <- MCSeverityOf
  Plugin = {"kernel", "ssh"}
  PluginOf <- MCPluginOf
  Cron = {c1, c2}
  Manual = {once}
  Cli = {}
  Batch = {other}
  MinSeverity = 3
  Floor = 2
  AlertMode = "both"
  Faults = TRUE
  Stored <- TwoOfOneSecond
  MaxSessions = 4
  MaxTime = 1
INVARIANTS TypeOK OneScanAtATime SessionsSettle
PROPERTIES RegressionIsReal ComparedWithTheLast NextScanCanBegin
