SPECIFICATION Spec
CONSTANTS
  MinInt <- MCMinInt
  MaxInt = 7
  Unset = Unset
  Absent = Absent
  Torn = Torn
  m1 = m1
  m2 = m2
  Machine = {m1, m2}
  p1 = p1
  p2 = p2
  Process = {p1, p2}
  Sessions = {"local", "remote_root"}
  ActiveParts = {"ssh", "kernel", "pam", "audit", "firewall", "services", "mac", "permissions",
                "order", "key", "database", "fleet", "posture", "desktop"}
  SshParams <- MCSshParams
  KernelParams <- MCKernelParams
  PamParams <- MCPamParams
  AuditParams <- MCAuditParams
  FirewallParams <- MCFirewallParams
  ServParams <- MCServParams
  MacParams <- MCMacParams
  PermParams <- MCPermParams
  OrderParams <- MCOrderParams
  KeyParams <- MCKeyParams
  DatabaseParams <- MCDatabaseParams
  FleetParams <- MCFleetParams
  PostureParams <- MCPostureParams
  DesktopParams <- MCDesktopParams
SYMMETRY Processes
INVARIANTS TypeOK SuccessIsEarned UndoneMeansUndone DivergencesAreTrue  FirewallSessionSurvives PluginOrderIsSound KeyIsKept UpgradeIsWhole FleetCodeCoversEveryHost PostureIsEarned
PROPERTIES    ServicesNeverMasksRunning DesktopKeepsItsWord
CHECK_DEADLOCK FALSE
