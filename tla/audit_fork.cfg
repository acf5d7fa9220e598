SPECIFICATION Spec
CONSTANTS
  p1 = p1
  p2 = p2
  t1 = t1
  none = none
  Process = {p1, p2}
  Text = {t1}
  NoText = none
  Concurrent = TRUE
  Failures = {}
  Edits = 0
  MaxActs = 2
INVARIANT UntouchedVerifies
