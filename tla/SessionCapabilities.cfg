SPECIFICATION Spec
CONSTANTS
  Session = {1, 2}
  Setups <- MudSetups
INVARIANT CapabilitiesAgree
CHECK_DEADLOCK FALSE
