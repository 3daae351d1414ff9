--------------------------- MODULE CircuitBreaker ---------------------------
(***************************************************************************)
(* What the policy client's circuit breaker promises its callers, with no  *)
(* mention of attempts, timeouts, backoff or clocks.                       *)
(*                                                                         *)
(* An evaluation is admitted unless the breaker is open.  Threshold failed *)
(* evaluations in a row trip it; after the cooldown it is on trial, where  *)
(* a single failure trips it again and a success closes it for good.       *)
(* PolicyClient implements this specification.                             *)
(***************************************************************************)
EXTENDS Naturals

CONSTANTS Threshold,  \* failed evaluations in a row that trip the breaker
          Cooldown    \* ticks it stays open

VARIABLES phase,  \* "closed", "open" or "trial"
          fails,  \* failed evaluations since the last success, at most Threshold
          busy    \* an evaluation has been admitted and has not returned

vars == <<phase, fails, busy>>

Init == /\ phase = "closed"
        /\ fails = 0
        /\ busy = FALSE

\* An evaluation may go to the policy service.
Admit == /\ ~busy
         /\ phase # "open"
         /\ busy' = TRUE
         /\ UNCHANGED <<phase, fails>>

\* The admitted evaluation got an answer.
Succeed == /\ busy
           /\ busy' = FALSE
           /\ phase' = "closed"
           /\ fails' = 0

\* The admitted evaluation failed for good, but not often enough in a row.
FailBelow == /\ busy
             /\ fails + 1 < Threshold
             /\ busy' = FALSE
             /\ fails' = fails + 1
             /\ UNCHANGED phase

\* The admitted evaluation failed and trips the breaker.
Trip == /\ busy
        /\ fails + 1 >= Threshold
        /\ busy' = FALSE
        /\ fails' = Threshold
        /\ phase' = IF Cooldown = 0 THEN "trial" ELSE "open"

\* The cooldown is over.
CoolDown == /\ phase = "open"
            /\ phase' = "trial"
            /\ UNCHANGED <<fails, busy>>

Next == Admit \/ Succeed \/ FailBelow \/ Trip \/ CoolDown

Spec == Init /\ [][Next]_vars
=============================================================================
