SPECIFICATION Spec
CONSTANTS
  Fd = {3, 4}
  Schemes = {TRUE}
  Versions = {"1.1"}
CHECK_DEADLOCK FALSE
INVARIANT ReadyIsConnected
