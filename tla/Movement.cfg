SPECIFICATION FairSpec
CONSTANTS
  a = a
  b = b
  c = c
  d = d
  t1 = t1
  t2 = t2
  Nil = Nil
  Object = {a, b, c, d}
  Task = {t1, t2}
  Hooked = {a, b}
  MaxJobs = 2
  Setups <- AllSetups
INVARIANTS TypeOK  PresenceSettles
PROPERTIES ImplementsContainment MovesAreAccepted  TasksEnd
