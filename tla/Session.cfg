SPECIFICATION FairSpec
CONSTANTS
  Session = {1, 2}
  Setups <- AllSetups
INVARIANTS TypeOK ConsumersClose MessagesArrive
PROPERTY SessionsEnd
CHECK_DEADLOCK FALSE
