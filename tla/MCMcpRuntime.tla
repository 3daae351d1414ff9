---------------------------- MODULE MCMcpRuntime ----------------------------
(***************************************************************************)
(* McpRuntime for TLC: two plugins, so that one is stopped while the other *)
(* runs, one of them on the network, and enough spawns to restart one of   *)
(* them twice.                                                             *)
(***************************************************************************)
EXTENDS McpRuntime

MCDeclared == <<{"fs:read", "fs:write"}, {"network:egress", "audit:emit"}>>
=============================================================================
