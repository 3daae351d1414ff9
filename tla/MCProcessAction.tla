-------------------------- MODULE MCProcessAction --------------------------
(***************************************************************************)
(* ProcessAction for TLC.  Five requests and a threshold of 2: the breaker *)
(* can trip, refuse, go on trial and trip again; request 3 is malformed    *)
(* and requests 2 and 4 invoke the model.                                  *)
(***************************************************************************)
EXTENDS ProcessAction
=============================================================================
