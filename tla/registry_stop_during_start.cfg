SPECIFICATION Spec
CONSTANTS
  p1 = p1
  p2 = p2
  p3 = p3
  twin = twin
  Ports <- MCPorts
  PortName <- MCPortName
  CapabilityOf <- MCCapabilityOf
  Clients = {c1, c2}
  OwnInitTimeout = {}
  DefaultTimeout = FALSE
  CalledOnce = TRUE
  MayCancel = FALSE
INVARIANT NothingForgotten
