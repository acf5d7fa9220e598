SPECIFICATION FairSpec
CONSTANTS
  a = a
  b = b
  torn = torn
  none = none
  m0 = m0
  m1 = m1
  mt = mt
  root = root
  adm = adm
  h1 = h1
  h2 = h2
  o1 = o1
  o2 = o2
  Path = {3, 4}
  Parent <- MCParent
  LinkTarget = {}
  Content <- MCContent
  NoContent = none
  Torn = torn
  Mode <- MCMode
  NoMode = none
  CreatedMode = m0
  TempMode = mt
  Owner <- MCOwner
  NoOwner = none
  Root = root
  Faults = TRUE
  Host = {h1}
  Remote = {}
  Operator = {o1}
  Allowed <- MCAllowed
  Undeletable <- MCUndeletable
  Account <- MCAccount
  Plans <- DirPlans
  InitialFiles <- MCInitial
  HostStates <- TreeStates
  RacePC = {}
  MaxCheckpoints = 2
PROPERTIES HonestReport KeepsProtected CaptureComplete CallReturns
