---------------------------- MODULE MCServiceBus ----------------------------
(***************************************************************************)
(* ServiceBus for TLC: two receivers with queues of one message and two    *)
(* events, so that a queue fills while a publish is under way, an earlier  *)
(* event overtakes a later one, and a receiver goes away in between.       *)
(***************************************************************************)
EXTENDS ServiceBus
=============================================================================
