SPECIFICATION ProxiesSpec
CONSTANTS
  Callers = {c1}
  Threshold = 5
  ResetTimeout = 8
  MaxFailures = 6
  MaxReconnects = 2
INVARIANT SpansAreAdapterCalls
PROPERTIES
  ImplementsMachine
  StaysShielded
