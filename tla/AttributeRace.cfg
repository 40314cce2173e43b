SPECIFICATION Spec
CONSTANTS
  a = a
  b = b
  Object = {a, b}
  Ancestors <- ParentOfB
  Value = {v, w}
  Initial = v
  Task = {t1, t2}
  Nobody = Nobody
  None = None
  Empty = Empty
  Missing = Missing
  Setups <- OneRacing
INVARIANT WritesAreReadBack
