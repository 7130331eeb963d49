-------------------------- MODULE MCRegistryService --------------------------
(***************************************************************************)
(* The instance of RegistryService for TLC: the ports of MCPluginRegistry. *)
(***************************************************************************)
EXTENDS RegistryService, MCPluginRegistry
=============================================================================
