----------------------- MODULE MCApplicationBootstrap -----------------------
(***************************************************************************)
(* An instance of ApplicationBootstrap for TLC: p1 is composed, p2 is      *)
(* registered by configure() or not, and extra at any time or never.       *)
(***************************************************************************)
EXTENDS ApplicationBootstrap

CONSTANTS p1, p2, extra

MCPorts == {p1, p2, extra}
MCPortName == [p \in MCPorts |-> p]
MCCapabilityOf == [p \in MCPorts |-> "persistence"]
MCComposed == <<p1>>
MCConfigurations == {<<>>, <<p2>>}
=============================================================================
