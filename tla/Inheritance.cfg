SPECIFICATION Spec
CONSTANTS
  Object = {1, 2, 3, 4}
  Setups <- AllSetups
INVARIANTS TypeOK CacheMatchesLinks AncestorsNeverLost NoPhantomAncestors 
PROPERTY LastAddedWins
CHECK_DEADLOCK FALSE
