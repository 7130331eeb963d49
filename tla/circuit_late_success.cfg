SPECIFICATION Spec
CONSTANTS
  Callers = {c1, c2}
  Threshold = 1
  ResetTimeout = 2
  MaxFailures = 2
PROPERTY ClosingIsTimeoutGated
