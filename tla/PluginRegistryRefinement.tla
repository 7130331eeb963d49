---------------------- MODULE PluginRegistryRefinement ----------------------
(***************************************************************************)
(* A registry whose lifecycle calls do not overlap, and which is started   *)
(* only while nothing is up, is a stack of ports.                          *)
(***************************************************************************)
EXTENDS PluginRegistry

Stack == INSTANCE PortStack WITH Port <- Ports, order <- plugins, live <- held

\* Ports come up in registration order and go down in the reverse order,
\* through failed starts, rollbacks, cancelled calls and restarts.
ImplementsStack == Stack!Spec
=============================================================================
