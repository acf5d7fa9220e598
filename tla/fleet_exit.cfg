SPECIFICATION Spec
CONSTANTS
  MinInt <- MCMinInt
  MaxInt = 7
  Unset = Unset
  Absent = Absent
  Torn = Torn
  m1 = m1
  m2 = m2
  Machine = {m1, m2}
  p1 = p1
  p2 = p2
  Process = {p1, p2}
  Sessions = {"local", "remote_root"}
  ActiveParts = {"fleet"}
  SshParams <- MCSshParams
  KernelParams <- MCKernelParams
  PamParams <- MCPamParams
  AuditParams <- MCAuditParams
  FirewallParams <- MCFirewallParams
  ServParams <- MCServParams
  MacParams <- MCMacParams
  PermParams <- MCPermParams
  OrderParams <- MCOrderParams
  KeyParams <- MCKeyParams
  DatabaseParams <- MCDatabaseParams
  FleetParams <- MCFleetParams
  PostureParams <- MCPostureParams
  DesktopParams <- MCDesktopParams
SYMMETRY Processes
INVARIANTS FleetZeroMeansAllClean
CHECK_DEADLOCK FALSE
