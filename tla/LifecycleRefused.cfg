SPECIFICATION Spec
CONSTANTS
  a = a
  b = b
  c = c
  p = p
  q = q
  t1 = t1
  t2 = t2
  Nobody = Nobody
  Object = {a, b}
  Player = {p}
  Allowance = 1
  Task = {t1}
  MaxQuota = 3
  Setups <- OneRefused
SYMMETRY Symmetry
INVARIANT FailureIsUndone
CHECK_DEADLOCK FALSE
