SPECIFICATION Spec
CONSTANTS
  Fd = {3, 4}
  Schemes = {FALSE}
  Versions = {"2"}
CHECK_DEADLOCK FALSE
INVARIANT FreesLiveBlock
