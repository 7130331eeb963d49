SPECIFICATION Spec
CONSTANTS
  Traces = {r1, r2}
  Errors = {own, other}
  Plain = {other}
  Frozen = {other}
  Statuses = {200, 404}
  MaxCalls = 2
  SinkMayFail = TRUE
  MayCancel = TRUE
CHECK_DEADLOCK FALSE
INVARIANT ActiveIsCurrent
