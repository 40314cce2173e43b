SPECIFICATION Spec
CONSTANTS
  a = a
  b = b
  c = c
  p = p
  q = q
  t1 = t1
  t2 = t2
  Nobody = Nobody
  Object = {a, b, c}
  Player = {p, q}
  Allowance = 1
  Task = {t1, t2}
  MaxQuota = 3
  Setups <- AllSetups
SYMMETRY Symmetry
INVARIANTS TypeOK QuotaConserved QuotaConservedInAll NeverOverdrawn
 
CHECK_DEADLOCK FALSE
