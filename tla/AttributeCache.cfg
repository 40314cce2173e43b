SPECIFICATION FairSpec
CONSTANTS
  a = a
  b = b
  Object = {a, b}
  Ancestors <- ParentOfB
  Value = {v, w}
  Initial = v
  Task = {t1, t2}
  Nobody = Nobody
  None = None
  Empty = Empty
  Missing = Missing
  Setups <- AllSetups
INVARIANTS TypeOK CachesFollowWrites
PROPERTIES StaysSingle StaleEntriesExpire
