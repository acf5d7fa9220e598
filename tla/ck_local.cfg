SPECIFICATION Spec
CONSTANTS
  a = a
  b = b
  torn = torn
  none = none
  m0 = m0
  m1 = m1
  mt = mt
  root = root
  adm = adm
  h1 = h1
  h2 = h2
  o1 = o1
  o2 = o2
  Path = {1, 2, 5}
  Parent <- MCParent
  LinkTarget = {5}
  Content <- MCContent
  NoContent = none
  Torn = torn
  Mode <- MCMode
  NoMode = none
  CreatedMode = m0
  TempMode = mt
  Owner <- MCOwner
  NoOwner = none
  Root = root
  Faults = TRUE
  Host = {h1, h2}
  Remote = {}
  Operator = {o1, o2}
  Allowed <- MCAllowed
  Undeletable <- MCUndeletable
  Account <- MCAccount
  Plans <- FilePlans
  InitialFiles <- MCInitial
  HostStates <- LocalStates
  RacePC = {}
  MaxCheckpoints = 2
SYMMETRY Interchangeable
CONSTRAINT OneCall
INVARIANTS TypeOK UndoRestores NoAccountContent PlanIsGenuine
PROPERTIES HonestReport
