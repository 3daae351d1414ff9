-------------------------- MODULE MCPolicyPipeline --------------------------
(***************************************************************************)
(* PolicyPipeline for TLC: two requests that the documents allow in turns, *)
(* two edits, two attempts, and a breaker that trips at the first failure. *)
(***************************************************************************)
EXTENDS PolicyPipeline, TLC

MCAllows == 0 :> {"connect"} @@ 1 :> {"write"} @@ 2 :> {"connect"}
=============================================================================
