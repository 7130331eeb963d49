SPECIFICATION FairSpec
CONSTANTS
  p1 = p1
  p2 = p2
  extra = extra
  Ports <- MCPorts
  PortName <- MCPortName
  CapabilityOf <- MCCapabilityOf
  Clients = {main}
  OwnInitTimeout = {p1}
  DefaultTimeout = FALSE
  CalledOnce = FALSE
  MayCancel = TRUE
  MaxSetups = 2
  Composed <- MCComposed
  Configurations <- MCConfigurations
INVARIANTS
  TypeOK
  LeavesNothing
  UnflushedIsInReach
PROPERTIES
  ServesWithAllUp
  TelemetryGoesLast
  StopEnds
