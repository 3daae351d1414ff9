--------------------------- MODULE MCPolicyClient ---------------------------
(***************************************************************************)
(* PolicyClient for TLC.  Three attempts, so that an attempt is first,     *)
(* middle or last; a threshold of 2, so that a failure may or may not trip *)
(* the breaker; U32Max just above it, so that saturation happens.          *)
(***************************************************************************)
EXTENDS PolicyClient
=============================================================================
