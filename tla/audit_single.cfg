SPECIFICATION Spec
CONSTANTS
  p1 = p1
  p2 = p2
  t1 = t1
  none = none
  Process = {p1, p2}
  Text = {t1}
  NoText = none
  Concurrent = FALSE
  Failures = {"nothing"}
  Edits = 0
  MaxActs = 3
INVARIANTS TypeOK UntouchedVerifies
PROPERTY ImplementsTrail
