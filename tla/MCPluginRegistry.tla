-------------------------- MODULE MCPluginRegistry --------------------------
(***************************************************************************)
(* Instances of PluginRegistry for TLC: p1, p2 and p3 have names of their  *)
(* own, twin bears the name of p1; p1 and p3 share a capability.           *)
(***************************************************************************)
EXTENDS PluginRegistryRefinement

CONSTANTS p1, p2, p3, twin

MCPorts == {p1, p2, p3, twin}
MCPortName ==
  [p \in MCPorts |-> CASE p = p2 -> "b" [] p = p3 -> "c" [] OTHER -> "a"]
MCCapabilityOf == [p \in MCPorts |-> IF p = p2 THEN "cache" ELSE "persistence"]
=============================================================================
