---------------------------- MODULE PolicyClient ----------------------------
(***************************************************************************)
(* GrpcPolicyDecisionClient of services/llmd/src/lib.rs: one call of       *)
(* evaluate makes up to max_attempts calls of the policy service, each     *)
(* under a timeout, with a growing backoff between them, behind a circuit  *)
(* breaker that counts failed evaluations (not failed attempts).           *)
(*                                                                         *)
(* evaluate takes &mut self, so one evaluation is in progress at a time.   *)
(* It awaits at two places, the call and the backoff; the stages "calling" *)
(* and "backoff" are those awaits and time passes in them.  Instants are   *)
(* kept as ticks still to go: Instant::now() < until is until > 0.         *)
(***************************************************************************)
EXTENDS Naturals

CONSTANTS CfgMaxAttempts,    \* GrpcPolicyClientConfig::max_attempts
          CfgThreshold,      \* circuit_breaker_threshold
          Cooldown,          \* circuit_breaker_cooldown, in ticks
          Timeout,           \* timeout_per_attempt, in ticks
          InitialBackoff,    \* initial_backoff, in ticks
          MaxBackoff,        \* max_backoff, in ticks
          U32Max,            \* where the u32 consecutive_failures saturates
          None               \* Option::None

ASSUME ConfigAssumption ==
    /\ CfgMaxAttempts \in Nat
    /\ U32Max \in Nat \ {0}
    /\ CfgThreshold \in 0..U32Max
    /\ Cooldown \in Nat
    /\ Timeout \in Nat
    /\ InitialBackoff \in Nat
    /\ MaxBackoff \in Nat
    /\ None \notin Nat

\* The multiplier of backoff_for_attempt is a shift by at most 30 places; the
\* provers know nothing of exponents.
ASSUME ShiftAssumption == \A n \in 0..30 : 2 ^ n \in Nat

VARIABLES consecutive_failures,
          circuit_open_until,  \* None, or the ticks until that instant
          breaker_open,        \* the gauge llmd_policy_breaker_open
          stage,               \* where evaluate is: see Stages
          attempt,             \* the loop variable of evaluate
          timer,               \* ticks until the timeout or the end of the sleep
          reply,               \* what the current call got back, None before it did
          verdict              \* what evaluate returned

vars == <<consecutive_failures, circuit_open_until, breaker_open,
          stage, attempt, timer, reply, verdict>>
breakerVars == <<consecutive_failures, circuit_open_until, breaker_open>>

Stages == {"idle", "calling", "backoff", "returned"}

\* A response carries an effect string: "allow", "deny" or anything else.
OkReplies == {"allow", "deny", "other"}
\* A call can also end with a status; Internal stands for every other code.
ErrReplies == {"Unavailable", "DeadlineExceeded", "Internal"}
Replies == OkReplies \cup ErrReplies
\* Err(PolicyUnavailable): breaker open, bad metadata, or the service failed.
ErrVerdicts == {"refused", "invalid", "failed"}
Verdicts == {"allow", "deny"} \cup ErrVerdicts

ASSUME NoneAssumption == None \notin Replies \cup Verdicts

AtLeastOne(n) == IF n < 1 THEN 1 ELSE n
AtMost(n, m) == IF n < m THEN n ELSE m

\* connect_with_config raises both settings to 1.
max_attempts == AtLeastOne(CfgMaxAttempts)
circuit_breaker_threshold == AtLeastOne(CfgThreshold)

backoff_for_attempt(a) == AtMost(InitialBackoff * 2 ^ AtMost(a - 1, 30), MaxBackoff)

is_retryable_status(r) == r \in {"Unavailable", "DeadlineExceeded"}

\* A mutant: every effect but "deny" allows.
MutMapUnknownToAllow(r) == IF r = "deny" THEN "deny" ELSE "allow"

\* Only the exact effect "allow" allows.
map_grpc_decision(r) == IF r = "allow" THEN "allow" ELSE "deny"

Init == /\ consecutive_failures = 0
        /\ circuit_open_until = None
        /\ breaker_open = FALSE
        /\ stage = "idle"
        /\ attempt = 0
        /\ timer = 0
        /\ reply = None
        /\ verdict = None

-----------------------------------------------------------------------------
(* The three methods that keep the breaker, as relations between its old   *)
(* and new state.                                                          *)

\* A mutant: an instant that has passed still counts.
MutCircuitOpenForever == circuit_open_until # None

CircuitOpen == circuit_open_until # None /\ circuit_open_until > 0

\* A mutant: each refused request starts the cooldown anew.
MutRefuseOpenExtends == /\ CircuitOpen
                        /\ circuit_open_until' = Cooldown
                        /\ breaker_open' = TRUE
                        /\ UNCHANGED consecutive_failures

\* fail_if_circuit_open, the early return: the request is refused.
RefuseOpen == /\ CircuitOpen
              /\ breaker_open' = TRUE
              /\ UNCHANGED <<consecutive_failures, circuit_open_until>>

\* A mutant: the gauge is left to mark_success.
MutPassBreakerKeepsGauge == /\ ~CircuitOpen
                            /\ circuit_open_until' = None
                            /\ UNCHANGED <<breaker_open, consecutive_failures>>

\* fail_if_circuit_open, the rest: an instant that has passed is cleared, but
\* the failures counted so far are kept.
PassBreaker == /\ ~CircuitOpen
               /\ circuit_open_until' = None
               /\ breaker_open' = (breaker_open /\ circuit_open_until = None)
               /\ UNCHANGED consecutive_failures

mark_success == /\ consecutive_failures' = 0
                /\ circuit_open_until' = None
                /\ breaker_open' = FALSE

\* A mutant: the count restarts when the breaker trips.
MutMarkFailureRestart ==
    IF consecutive_failures + 1 >= circuit_breaker_threshold
    THEN consecutive_failures' = 0 /\ circuit_open_until' = Cooldown /\ breaker_open' = TRUE
    ELSE /\ consecutive_failures' = consecutive_failures + 1
         /\ UNCHANGED <<circuit_open_until, breaker_open>>

mark_failure ==
    /\ consecutive_failures' = AtMost(consecutive_failures + 1, U32Max)
    /\ IF consecutive_failures' >= circuit_breaker_threshold
       THEN circuit_open_until' = Cooldown /\ breaker_open' = TRUE
       ELSE UNCHANGED <<circuit_open_until, breaker_open>>

-----------------------------------------------------------------------------
(* evaluate.                                                               *)

\* evaluate leaves with value v; its locals are gone.
Return(v) == /\ stage' = "returned"
             /\ verdict' = v
             /\ reply' = None
             /\ attempt' = 0
             /\ timer' = 0

\* The top of the loop body for attempt a: the call is sent under a timeout.
Send(a) == /\ stage' = "calling"
           /\ attempt' = a
           /\ timer' = Timeout
           /\ reply' = None
           /\ verdict' = None

\* The breaker is open: evaluate returns at once and sends nothing.
Refuse == /\ stage = "idle"
          /\ RefuseOpen
          /\ Return("refused")

\* build_grpc_request rejects the request's ids, on the first attempt.  The
\* early return goes past mark_failure.
Reject == /\ stage = "idle"
          /\ PassBreaker
          /\ Return("invalid")

\* The first attempt is sent.
Begin == /\ stage = "idle"
         /\ PassBreaker
         /\ Send(1)

\* External: the channel or the policy service answers the call in progress.
\* It may also never do so, and an answer after the timeout finds the call's
\* stream dropped.
ServerReply(r) == /\ stage = "calling"
                  /\ reply = None
                  /\ reply' = r
                  /\ UNCHANGED <<consecutive_failures, circuit_open_until, breaker_open,
                                 stage, attempt, timer, verdict>>

\* Ok(Ok(response)).
Answered == /\ stage = "calling"
            /\ reply \in OkReplies
            /\ mark_success
            /\ Return(map_grpc_decision(reply))

\* A mutant: the call is awaited without a timeout.
MutTimedOutNever == FALSE /\ timer = 0

\* tokio::time::timeout polls the call before the clock: an answer that is
\* there when the client looks wins, however late.
TimedOut == stage = "calling" /\ reply = None /\ timer = 0

\* The attempt is over and may be repeated.
CanRetry == \/ TimedOut
            \/ stage = "calling" /\ reply \in ErrReplies /\ is_retryable_status(reply)

\* Ok(Err(status)) or Err(elapsed), and another attempt is left.
Retry == /\ CanRetry
         /\ attempt < max_attempts
         /\ stage' = "backoff"
         /\ timer' = backoff_for_attempt(attempt)
         /\ reply' = None
         /\ UNCHANGED <<consecutive_failures, circuit_open_until, breaker_open,
                        attempt, verdict>>

\* The sleep is over: the loop goes round.
Resend == /\ stage = "backoff"
          /\ timer = 0
          /\ Send(attempt + 1)
          /\ UNCHANGED breakerVars

\* A status that is not retryable, or no attempt left.
Fail == /\ \/ TimedOut
           \/ stage = "calling" /\ reply \in ErrReplies
        /\ ~(CanRetry /\ attempt < max_attempts)
        /\ mark_failure
        /\ Return("failed")

\* process_action has dealt with the verdict and the client is free again.
Done == /\ stage = "returned"
        /\ stage' = "idle"
        /\ verdict' = None
        /\ UNCHANGED <<consecutive_failures, circuit_open_until, breaker_open,
                       attempt, timer, reply>>

\* A tick of the clock, for the breaker's instant and for the await's timer.
CountDown(t) == IF t # None /\ t > 0 THEN t - 1 ELSE t
Tick == /\ CircuitOpen \/ timer > 0
        /\ circuit_open_until' = CountDown(circuit_open_until)
        /\ timer' = CountDown(timer)
        /\ UNCHANGED <<consecutive_failures, breaker_open, stage, attempt, reply, verdict>>

Next == \/ Refuse \/ Reject \/ Begin
        \/ \E r \in Replies : ServerReply(r)
        \/ Answered \/ Retry \/ Resend \/ Fail
        \/ Done \/ Tick

Spec == Init /\ [][Next]_vars

\* The client's task is scheduled and the clock runs.
ClientFairness == /\ WF_vars(Answered) /\ WF_vars(Retry \/ Fail) /\ WF_vars(Resend)
                  /\ WF_vars(Tick) /\ WF_vars(Done)

FairSpec == Spec /\ ClientFairness

\* The caller keeps sending requests, and not only malformed ones.
CallerFairness == SF_vars(Begin) /\ WF_vars(Refuse \/ Begin)

\* A service that is called again and again gets an answer through again and
\* again.
ServiceFairness == SF_vars(\E r \in OkReplies : ServerReply(r))
-----------------------------------------------------------------------------
InEvaluation == stage \in {"calling", "backoff"}

\* Every variable keeps its type; attempt never passes max_attempts.
TypeOK == /\ consecutive_failures \in 0..U32Max
          /\ circuit_open_until \in 0..Cooldown \cup {None}
          /\ breaker_open \in BOOLEAN
          /\ stage \in Stages
          /\ attempt \in 0..max_attempts
          /\ timer \in Nat
          /\ reply \in Replies \cup {None}
          /\ verdict \in Verdicts \cup {None}

\* The client's state as CircuitBreaker sees it.
Phase == IF CircuitOpen THEN "open"
         ELSE IF consecutive_failures >= circuit_breaker_threshold THEN "trial"
         ELSE "closed"

Breaker == INSTANCE CircuitBreaker WITH
    Threshold <- circuit_breaker_threshold,
    phase <- Phase,
    fails <- AtMost(consecutive_failures, circuit_breaker_threshold),
    busy <- InEvaluation

\* The client implements the circuit breaker: fail_if_circuit_open,
\* mark_success and mark_failure, called where evaluate calls them, admit,
\* count and trip exactly as CircuitBreaker says, whatever the order of
\* answers, timeouts and ticks.
ImplementsBreaker == Breaker!Spec

\* The breaker never locks the client out: if requests keep coming and the
\* service answers calls now and then, a tripped breaker closes again.
BreakerRecovers ==
    CallerFairness /\ ServiceFairness =>
        ((consecutive_failures >= circuit_breaker_threshold) ~> (consecutive_failures = 0))

\* The gauge llmos_policy_breaker_open, stored separately in four places, never
\* disagrees with the client's own instant.
GaugeFollowsInstant == breaker_open <=> circuit_open_until # None
=============================================================================
