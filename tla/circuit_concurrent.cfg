SPECIFICATION FairSpec
CONSTANTS
  Callers = {c1, c2, c3}
  Threshold = 2
  ResetTimeout = 2
  MaxFailures = 3
INVARIANTS
  TypeOK
  CountMatchesState
  OpenIffConsecutiveFailures
PROPERTIES
  DrainsWhileCooling
  CoolDownEnds
  Recovers
