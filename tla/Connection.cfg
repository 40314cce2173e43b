SPECIFICATION ConnectionSpec
CONSTANTS
  a1 = a1
  a2 = a2
  a3 = a3
  u1 = u1
  u2 = u2
  s1 = s1
  s2 = s2
  i1 = i1
  t1 = t1
  t2 = t2
  c1 = c1
  c2 = c2
  line = line
  None = None
  Account = {a1, a2, a3}
  User = {u1, u2}
  Site = {s1, s2}
  Identity = {i1}
  Task = {t1, t2}
  Conn = {c1, c2, line}
  Line = line
  MaxTime = 2
  Setups <- AllSetups
  Clients <- AllClients
  Chunks = {2}
  Calls <- AllCalls
INVARIANTS ConnectionTypeOK  LoginsAreJudged ParsedAsSent
PROPERTY NegotiationSettles
CHECK_DEADLOCK FALSE
