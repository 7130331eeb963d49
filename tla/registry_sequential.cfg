SPECIFICATION FairServiceSpec
CONSTANTS
  p1 = p1
  p2 = p2
  p3 = p3
  twin = twin
  Ports <- MCPorts
  PortName <- MCPortName
  CapabilityOf <- MCCapabilityOf
  Clients = {c1}
  OwnInitTimeout = {p1}
  DefaultTimeout = TRUE
  CalledOnce = TRUE
  MayCancel = TRUE
  Principals = {alice}
  Tenants = {}
  Answers = {"READY"}
INVARIANTS
  TypeOK
  NothingForgotten
  RollbackLeavesNothing
  StartsUnderOneContext
PROPERTIES
  LookupIsStable
  ImplementsStack
  StartEnds
  ReportIsComplete
