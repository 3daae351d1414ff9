---------------------------- MODULE MCDeployment ----------------------------
(***************************************************************************)
(* Deployment for TLC: the programs come, go and hang as often as they     *)
(* like, one command follows the other, and llmd makes one request when it *)
(* starts: what it waits for in a second one is the same.                  *)
(***************************************************************************)
EXTENDS Deployment
=============================================================================
