SPECIFICATION Spec
CONSTANTS
  BufLen = 4
  Lengths = {0, 1, 2, 3, 5}
  MaxUsed = 7
INVARIANTS TypeOK WholeLines SentWithinBuffer
PROPERTIES BeyondOnlyAfterWarning
