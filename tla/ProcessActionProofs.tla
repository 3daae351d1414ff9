------------------------ MODULE ProcessActionProofs ------------------------
(***************************************************************************)
(* Proofs about PolicyClient and, from them, about ProcessAction, for      *)
(* every configuration of the client and any number of requests.           *)
(***************************************************************************)
EXTENDS ProcessAction, FiniteSetTheorems, TLAPS

-----------------------------------------------------------------------------
(* The client by itself.                                                   *)

\* An instant is kept only by a tripped breaker and never during an evaluation:
\* evaluate clears it before the first attempt, and mark_failure sets it on the
\* way out.
InstantOnlyWhenTripped ==
    circuit_open_until # None =>
        /\ consecutive_failures >= circuit_breaker_threshold
        /\ ~InEvaluation

\* The loop variable is in range at each await; a sleep leaves an attempt.
LoopInRange == /\ InEvaluation => attempt \in 1..max_attempts
               /\ stage = "backoff" => attempt < max_attempts

\* The inductive invariant.
IInv == TypeOK /\ InstantOnlyWhenTripped /\ LoopInRange /\ GaugeFollowsInstant

-----------------------------------------------------------------------------
\* connect_with_config leaves at least one attempt and a threshold that the
\* failure counter can reach.
LEMMA SettingsType ==
    /\ max_attempts \in Nat /\ max_attempts >= 1
    /\ circuit_breaker_threshold \in 1..U32Max
  BY ConfigAssumption DEF max_attempts, circuit_breaker_threshold, AtLeastOne

\* backoff_for_attempt is a natural number of ticks, at most max_backoff.
LEMMA BackoffType ==
    ASSUME NEW a \in 1..max_attempts
    PROVE  /\ backoff_for_attempt(a) \in Nat
           /\ backoff_for_attempt(a) <= MaxBackoff
<1> DEFINE shift == AtMost(a - 1, 30)
<1>1. shift \in 0..30
  BY SettingsType DEF AtMost
<1>2. 2 ^ shift \in Nat
  BY <1>1, ShiftAssumption
<1>3. ASSUME NEW p \in Nat PROVE InitialBackoff * p \in Nat
  BY ConfigAssumption
<1>4. InitialBackoff * 2 ^ shift \in Nat
  BY <1>2, <1>3
<1> HIDE DEF shift
<1>5. AtMost(InitialBackoff * 2 ^ shift, MaxBackoff) \in 0..MaxBackoff
  BY <1>4, ConfigAssumption DEF AtMost
<1>6. backoff_for_attempt(a) \in 0..MaxBackoff
  BY <1>5 DEF backoff_for_attempt, shift
<1> QED
  BY <1>6, ConfigAssumption

\* A count-down stays where it was or goes down to zero.
LEMMA CountDownType ==
    /\ \A t \in Nat : CountDown(t) \in Nat /\ CountDown(t) <= t
    /\ CountDown(None) = None
  BY ConfigAssumption DEF CountDown

-----------------------------------------------------------------------------
LEMMA InitIInv == Init => IInv
<1> SUFFICES ASSUME Init PROVE IInv
  OBVIOUS
<1> USE ConfigAssumption, SettingsType DEF Init
<1>1. breaker_open \in BOOLEAN
  BY Zenon
<1>2. TypeOK
  BY <1>1 DEF TypeOK, Stages
<1>3. InstantOnlyWhenTripped /\ LoopInRange
  BY DEF InstantOnlyWhenTripped, LoopInRange, InEvaluation
<1>4. GaugeFollowsInstant
  BY Zenon DEF GaugeFollowsInstant
<1> QED
  BY <1>2, <1>3, <1>4 DEF IInv

\* After fail_if_circuit_open let a request through, the gauge is down and so is
\* the instant.
LEMMA PassedBreaker ==
    GaugeFollowsInstant /\ PassBreaker => GaugeFollowsInstant' /\ breaker_open' \in BOOLEAN
  BY Zenon DEF GaugeFollowsInstant, PassBreaker

LEMMA NextIInv == IInv /\ [Next]_vars => IInv'
<1> SUFFICES ASSUME IInv, [Next]_vars PROVE IInv'
  OBVIOUS
<1> USE ConfigAssumption, SettingsType
    DEF IInv, TypeOK, InstantOnlyWhenTripped, LoopInRange, GaugeFollowsInstant,
        InEvaluation, Stages
<1>1. CASE Refuse
  BY <1>1 DEF Refuse, RefuseOpen, CircuitOpen, Return, Verdicts, ErrVerdicts
<1>2. CASE Reject
  <2>1. GaugeFollowsInstant' /\ breaker_open' \in BOOLEAN
    BY <1>2, PassedBreaker DEF Reject
  <2> QED
    BY <1>2, <2>1 DEF Reject, PassBreaker, Return, Verdicts, ErrVerdicts
<1>3. CASE Begin
  <2>1. GaugeFollowsInstant' /\ breaker_open' \in BOOLEAN
    BY <1>3, PassedBreaker DEF Begin
  <2> QED
    BY <1>3, <2>1 DEF Begin, PassBreaker, Send
<1>4. CASE \E r \in Replies : ServerReply(r)
  BY <1>4 DEF ServerReply
<1>5. CASE Answered
  <2>1. GaugeFollowsInstant' /\ breaker_open' \in BOOLEAN
    BY <1>5, Zenon DEF Answered, mark_success
  <2> QED
    BY <1>5, <2>1 DEF Answered, mark_success, Return, map_grpc_decision, Verdicts
<1>6. CASE Retry
  <2>1. attempt \in 1..max_attempts
    BY <1>6 DEF Retry, CanRetry, TimedOut
  <2>2. timer' \in Nat
    BY <1>6, <2>1, BackoffType DEF Retry
  <2> QED
    BY <1>6, <2>1, <2>2 DEF Retry, CanRetry, TimedOut
<1>7. CASE Resend
  BY <1>7 DEF Resend, Send, breakerVars
<1>8. CASE Fail
  <2>1. stage = "calling" /\ circuit_open_until = None
    BY <1>8 DEF Fail, TimedOut
  <2>2. consecutive_failures' \in 0..U32Max
    BY <1>8 DEF Fail, mark_failure, AtMost
  <2>3. CASE consecutive_failures' >= circuit_breaker_threshold
    <3>1. breaker_open' = TRUE /\ circuit_open_until' = Cooldown
      BY <1>8, <2>3 DEF Fail, mark_failure
    <3> QED
      BY <1>8, <2>1, <2>2, <2>3, <3>1 DEF Fail, Return, Verdicts, ErrVerdicts
  <2>4. CASE ~(consecutive_failures' >= circuit_breaker_threshold)
    <3>1. UNCHANGED <<circuit_open_until, breaker_open>>
      BY <1>8, <2>4 DEF Fail, mark_failure
    <3> QED
      BY <1>8, <2>1, <2>2, <3>1 DEF Fail, Return, Verdicts, ErrVerdicts
  <2> QED
    BY <2>3, <2>4
<1>9. CASE Done
  BY <1>9 DEF Done
<1>10. CASE Tick
  <2>1. timer' \in Nat
    BY <1>10, CountDownType DEF Tick
  <2>2. /\ circuit_open_until' \in 0..Cooldown \cup {None}
        /\ circuit_open_until' = None <=> circuit_open_until = None
    BY <1>10, CountDownType DEF Tick
  <2> QED
    BY <1>10, <2>1, <2>2 DEF Tick
<1>11. CASE UNCHANGED vars
  BY <1>11 DEF vars
<1> QED
  BY <1>1, <1>2, <1>3, <1>4, <1>5, <1>6, <1>7, <1>8, <1>9, <1>10, <1>11 DEF Next

THEOREM IInvHolds == Spec => []IInv
  BY InitIInv, NextIInv, PTL DEF Spec

\* Every variable of the client keeps its type.
THEOREM TypeCorrect == Spec => []TypeOK
<1>1. IInv => TypeOK
  BY DEF IInv
<1> QED
  BY IInvHolds, <1>1, PTL

\* The exported gauge and the client's instant never disagree.
THEOREM GaugeCorrect == Spec => []GaugeFollowsInstant
<1>1. IInv => GaugeFollowsInstant
  BY DEF IInv
<1> QED
  BY IInvHolds, <1>1, PTL

-----------------------------------------------------------------------------
(* The client implements CircuitBreaker.                                   *)

\* Steps that leave the breaker alone and neither start nor end an evaluation
\* are stuttering steps of CircuitBreaker.
LEMMA StutterStep ==
    ASSUME UNCHANGED <<consecutive_failures, circuit_open_until>>,
           InEvaluation' <=> InEvaluation
    PROVE  UNCHANGED Breaker!vars
<1>1. Phase' = Phase
  BY DEF Phase, CircuitOpen
<1>2. InEvaluation' = InEvaluation
  BY DEF InEvaluation
<1> QED
  BY <1>1, <1>2 DEF Breaker!vars

LEMMA InitImplements == Init => Breaker!Init
<1> SUFFICES ASSUME Init PROVE Breaker!Init
  OBVIOUS
<1>1. Phase = "closed" /\ AtMost(consecutive_failures, circuit_breaker_threshold) = 0
  BY SettingsType DEF Init, Phase, CircuitOpen, AtMost
<1>2. InEvaluation = FALSE
  BY DEF Init, InEvaluation
<1> QED
  BY <1>1, <1>2 DEF Breaker!Init

LEMMA NextImplements == IInv /\ IInv' /\ [Next]_vars => [Breaker!Next]_(Breaker!vars)
<1> SUFFICES ASSUME IInv, IInv', [Next]_vars PROVE [Breaker!Next]_(Breaker!vars)
  OBVIOUS
<1> DEFINE fails == AtMost(consecutive_failures, circuit_breaker_threshold)
<1> USE ConfigAssumption, SettingsType
<1>1. CASE Refuse
  BY <1>1, StutterStep DEF Refuse, RefuseOpen, Return, InEvaluation
<1>2. CASE Reject
  <2>1. Phase' = Phase
    BY <1>2 DEF Reject, PassBreaker, Phase, CircuitOpen
  <2>2. fails' = fails
    BY <1>2 DEF Reject, PassBreaker
  <2>3. InEvaluation' = InEvaluation
    BY <1>2 DEF Reject, Return, InEvaluation
  <2> QED
    BY <2>1, <2>2, <2>3 DEF Breaker!vars
<1>3. CASE Begin
  <2>1. Phase' = Phase /\ Phase # "open"
    BY <1>3 DEF Begin, PassBreaker, Phase, CircuitOpen
  <2>2. fails' = fails
    BY <1>3 DEF Begin, PassBreaker
  <2>3. ~InEvaluation /\ InEvaluation' = TRUE
    BY <1>3 DEF Begin, Send, InEvaluation
  <2>4. Breaker!Admit
    BY <2>1, <2>2, <2>3 DEF Breaker!Admit
  <2> QED
    BY <2>4 DEF Breaker!Next
<1>4. CASE \E r \in Replies : ServerReply(r)
  BY <1>4, StutterStep DEF ServerReply, InEvaluation
<1>5. CASE Answered
  <2>1. Phase' = "closed" /\ fails' = 0
    BY <1>5 DEF Answered, mark_success, Phase, CircuitOpen, AtMost
  <2>2. InEvaluation /\ InEvaluation' = FALSE
    BY <1>5 DEF Answered, Return, InEvaluation
  <2>3. Breaker!Succeed
    BY <2>1, <2>2 DEF Breaker!Succeed
  <2> QED
    BY <2>3 DEF Breaker!Next
<1>6. CASE Retry
  BY <1>6, StutterStep DEF Retry, CanRetry, TimedOut, InEvaluation
<1>7. CASE Resend
  BY <1>7, StutterStep DEF Resend, Send, breakerVars, InEvaluation
<1>8. CASE Fail
  <2>1. InEvaluation /\ InEvaluation' = FALSE
    BY <1>8 DEF Fail, TimedOut, Return, InEvaluation
  <2>2. circuit_open_until = None
    BY <2>1 DEF IInv, InstantOnlyWhenTripped
  <2>3. CASE consecutive_failures + 1 < circuit_breaker_threshold
    <3>1. /\ consecutive_failures' = consecutive_failures + 1
          /\ circuit_open_until' = None
      BY <1>8, <2>2, <2>3 DEF IInv, TypeOK, Fail, mark_failure, AtMost
    <3>2. fails' = fails + 1 /\ fails + 1 < circuit_breaker_threshold
      BY <2>3, <3>1 DEF IInv, TypeOK, AtMost
    <3>3. Phase' = Phase
      BY <2>2, <2>3, <3>1 DEF IInv, TypeOK, Phase, CircuitOpen
    <3>4. Breaker!FailBelow
      BY <2>1, <3>2, <3>3 DEF Breaker!FailBelow
    <3> QED
      BY <3>4 DEF Breaker!Next
  <2>4. CASE consecutive_failures + 1 >= circuit_breaker_threshold
    <3>1. consecutive_failures' >= circuit_breaker_threshold
      BY <1>8, <2>4 DEF IInv, TypeOK, Fail, mark_failure, AtMost
    <3>2. circuit_open_until' = Cooldown
      BY <1>8, <3>1 DEF Fail, mark_failure
    <3>3. /\ fails + 1 >= circuit_breaker_threshold
          /\ fails' = circuit_breaker_threshold
      BY <2>4, <3>1 DEF IInv, TypeOK, AtMost
    <3>4. Phase' = IF Cooldown = 0 THEN "trial" ELSE "open"
      BY <3>1, <3>2 DEF Phase, CircuitOpen
    <3>5. Breaker!Trip
      BY <2>1, <3>3, <3>4 DEF Breaker!Trip
    <3> QED
      BY <3>5 DEF Breaker!Next
  <2> QED
    BY <2>3, <2>4 DEF IInv, TypeOK
<1>9. CASE Done
  BY <1>9, StutterStep DEF Done, InEvaluation
<1>10. CASE Tick
  <2>1. InEvaluation' = InEvaluation /\ fails' = fails
    BY <1>10 DEF Tick, InEvaluation
  <2>2. CASE Phase' = Phase
    BY <2>1, <2>2 DEF Breaker!vars
  <2>3. CASE Phase' # Phase
    <3>1. Phase = "open" /\ Phase' = "trial"
      BY <1>10, <2>3 DEF IInv, TypeOK, InstantOnlyWhenTripped, Tick, Phase, CircuitOpen, CountDown
    <3>2. Breaker!CoolDown
      BY <2>1, <3>1 DEF Breaker!CoolDown
    <3> QED
      BY <3>2 DEF Breaker!Next
  <2> QED
    BY <2>2, <2>3
<1>11. CASE UNCHANGED vars
  BY <1>11, StutterStep DEF vars, InEvaluation
<1> QED
  BY <1>1, <1>2, <1>3, <1>4, <1>5, <1>6, <1>7, <1>8, <1>9, <1>10, <1>11 DEF Next

\* The client, its retries, timeouts and clock included, implements the circuit
\* breaker that CircuitBreaker specifies, whatever its configuration.
THEOREM BreakerImplemented == Spec => ImplementsBreaker
<1>1. Init => Breaker!Init
  BY InitImplements
<1>2. IInv /\ IInv' /\ [Next]_vars => [Breaker!Next]_(Breaker!vars)
  BY NextImplements
<1> QED
  BY <1>1, <1>2, IInvHolds, PTL DEF Spec, ImplementsBreaker, Breaker!Spec

-----------------------------------------------------------------------------
(* llmd uses the client as PolicyClient says: what is proved of Spec holds *)
(* of LlmdSpec.                                                            *)

LEMMA LlmdStepIsClientStep == [LlmdNext]_llmdVars => [Next]_vars
<1> SUFFICES ASSUME [LlmdNext]_llmdVars PROVE [Next]_vars
  OBVIOUS
<1>1. CASE UNCHANGED llmdVars
  BY <1>1 DEF llmdVars
<1>2. CASE LlmdNext
  BY <1>2 DEF LlmdNext, Next, CallRefused, CallRejected, CallBegins, ServiceAnswers,
      CallAnswered, CallRetries, CallResends, CallFails, Deny, ExecutorWorks, Execute,
      ExecuteFails, ExecutePanics, NextRequest, ModelChanges, LlmdTick
<1> QED
  BY <1>1, <1>2

LEMMA LlmdUsesClient == LlmdSpec => Spec
  BY LlmdStepIsClientStep, PTL DEF LlmdSpec, LlmdInit, Spec

\* The circuit breaker's promise holds for the requests llmd processes.
THEOREM LlmdBreakerImplemented == LlmdSpec => ImplementsBreaker
  BY LlmdUsesClient, BreakerImplemented, PTL

-----------------------------------------------------------------------------
(* Fail closed.                                                            *)

\* Where an "allow" is on its way to the executor, the service gave it to the
\* request in progress; what is done was granted earlier.
GrantedInv ==
    /\ reply = "allow" => current \in granted
    /\ stage = "returned" /\ verdict = "allow" => current \in granted
    /\ executed \in Seq(Nat)
    /\ \A i \in 1..Len(executed) : executed[i] \in granted
    /\ aborted \subseteq granted

\* Only "calling" has a reply.
ReplyInv == reply # None => stage = "calling"

\* Requests are executed in the order they come in, before the next one.
OrderInv ==
    /\ current \in Nat
    /\ \A i \in 1..Len(executed) : executed[i] < current
    /\ \A i, j \in 1..Len(executed) : i < j => executed[i] < executed[j]

ExecInv == GrantedInv /\ ReplyInv /\ OrderInv

LEMMA NoneIsNoEffect == None # "allow"
  BY NoneAssumption DEF Verdicts

LEMMA InitExecInv == LlmdInit => ExecInv
  BY NoneIsNoEffect DEF LlmdInit, Init, ExecInv, GrantedInv, ReplyInv, OrderInv

\* What ExecInv speaks of, apart from the reply.
execVars == <<current, granted, executed, aborted>>

\* Steps inside evaluate that answer nothing keep it.
LEMMA ExecInvKept ==
    ASSUME ExecInv, UNCHANGED execVars,
           reply' = None,
           stage' = "returned" => verdict' # "allow"
    PROVE  ExecInv'
  BY NoneIsNoEffect DEF ExecInv, GrantedInv, ReplyInv, OrderInv, execVars

LEMMA NextExecInv == IInv /\ ExecInv /\ [LlmdNext]_llmdVars => ExecInv'
<1> SUFFICES ASSUME IInv, ExecInv, [LlmdNext]_llmdVars PROVE ExecInv'
  OBVIOUS
<1> USE NoneIsNoEffect
<1>1. CASE CallRefused
  BY <1>1, ExecInvKept DEF CallRefused, Refuse, Return, history, execVars
<1>2. CASE CallRejected
  BY <1>2, ExecInvKept DEF CallRejected, Reject, Return, history, execVars
<1>3. CASE CallBegins
  BY <1>3, ExecInvKept DEF CallBegins, Begin, Send, history, execVars
<1>4. ASSUME NEW r \in Replies, ServiceAnswers(r) PROVE ExecInv'
  BY <1>4 DEF ServiceAnswers, ServerReply, ExecInv, GrantedInv, ReplyInv, OrderInv
<1>5. CASE CallAnswered
  BY <1>5 DEF CallAnswered, Answered, Return, map_grpc_decision,
      ExecInv, GrantedInv, ReplyInv, OrderInv
<1>6. CASE CallRetries
  BY <1>6, ExecInvKept DEF CallRetries, Retry, history, execVars
<1>7. CASE CallResends
  BY <1>7, ExecInvKept DEF CallResends, Resend, Send, history, execVars
<1>8. CASE CallFails
  BY <1>8, ExecInvKept DEF CallFails, Fail, Return, execVars
<1>9. CASE Deny
  BY <1>9 DEF Deny, NextRequest, Done, history, ExecInv, GrantedInv, ReplyInv, OrderInv
<1>10. CASE Execute
  <2>1. current \in granted /\ current \in Nat /\ reply = None
    BY <1>10 DEF Execute, Executing, ExecInv, GrantedInv, ReplyInv, OrderInv
  <2>2. /\ executed' = Append(executed, current)
        /\ current' = current + 1
        /\ UNCHANGED <<granted, aborted, reply>>
        /\ stage' = "idle"
    BY <1>10 DEF Execute, NextRequest, Done
  <2>3. /\ executed' \in Seq(Nat)
        /\ Len(executed') = Len(executed) + 1
        /\ \A i \in 1..Len(executed) : executed'[i] = executed[i]
        /\ executed'[Len(executed) + 1] = current
    BY <2>1, <2>2 DEF ExecInv, GrantedInv
  <2>4. GrantedInv'
    BY <2>1, <2>2, <2>3 DEF ExecInv, GrantedInv
  <2>5. OrderInv'
    BY <2>1, <2>2, <2>3 DEF ExecInv, OrderInv, GrantedInv
  <2> QED
    BY <2>1, <2>2, <2>4, <2>5 DEF ExecInv, ReplyInv
<1>11. CASE ExecuteFails
  BY <1>11 DEF ExecuteFails, Invoking, Executing, NextRequest, Done, ExecInv, GrantedInv, ReplyInv, OrderInv
<1>12. CASE ExecutorWorks \/ ExecutePanics \/ ModelChanges \/ UNCHANGED llmdVars
  BY <1>12 DEF ExecutorWorks, ExecutePanics, ModelChanges, llmdVars, vars, history,
      ExecInv, GrantedInv, ReplyInv, OrderInv
<1>13. CASE LlmdTick
  BY <1>13 DEF LlmdTick, Tick, ExecInv, GrantedInv, ReplyInv, OrderInv
<1> QED
  BY <1>1, <1>2, <1>3, <1>4, <1>5, <1>6, <1>7, <1>8, <1>9, <1>10, <1>11, <1>12, <1>13
  DEF LlmdNext

THEOREM ExecInvHolds == LlmdSpec => []ExecInv
  BY InitExecInv, NextExecInv, LlmdUsesClient, IInvHolds, PTL DEF LlmdSpec

\* Nothing is executed, or handed to the executor, that the policy service did
\* not allow for that very request.
THEOREM FailClosedHolds == LlmdSpec => []FailClosed
<1>1. ExecInv => FailClosed
  BY DEF ExecInv, GrantedInv, FailClosed, ExecutedSet
<1> QED
  BY <1>1, ExecInvHolds, PTL

\* The executor completes a request at most once, in the order of arrival.
THEOREM ExecutedOnceHolds == LlmdSpec => []ExecutedOnce
<1>1. ExecInv => ExecutedOnce
  BY DEF ExecInv, GrantedInv, OrderInv, ExecutedOnce
<1> QED
  BY <1>1, ExecInvHolds, PTL

-----------------------------------------------------------------------------
(* The breaker refuses exactly when the history says so.                   *)

\* consecutive_failures is the length of the run of failures that ends the
\* history, exactly so below the threshold.
StreakInv ==
    /\ attempted \in Seq([result : {"ok", "failed"}, tries : Nat])
    /\ consecutive_failures <= Len(attempted)
    /\ \A j \in (Len(attempted) - consecutive_failures + 1)..Len(attempted) :
           attempted[j].result = "failed"
    /\ consecutive_failures < circuit_breaker_threshold
          /\ consecutive_failures < Len(attempted)
       => attempted[Len(attempted) - consecutive_failures].result = "ok"

\* The instant and the time since the last failure add up to the cooldown; a
\* tripped breaker that keeps no instant has had its cooldown.
CooldownInv ==
    /\ quiet \in 0..Cooldown
    /\ circuit_open_until # None => circuit_open_until + quiet = Cooldown
    /\ circuit_open_until = None /\ consecutive_failures >= circuit_breaker_threshold
       => quiet = Cooldown

\* The threshold is reached if and only if the last evaluations all failed.
LEMMA StreakTrips ==
    ASSUME IInv, StreakInv
    PROVE  consecutive_failures >= circuit_breaker_threshold <=> TripsAt(Len(attempted))
<1> DEFINE n == Len(attempted)
<1>1. n \in Nat /\ consecutive_failures \in Nat /\ circuit_breaker_threshold \in Nat
      /\ circuit_breaker_threshold >= 1
  BY SettingsType, ConfigAssumption DEF IInv, TypeOK, StreakInv
<1>2. CASE consecutive_failures >= circuit_breaker_threshold
  BY <1>1, <1>2 DEF StreakInv, TripsAt
<1>3. CASE consecutive_failures < circuit_breaker_threshold
  <2>1. CASE consecutive_failures = n
    BY <1>1, <1>3, <2>1 DEF TripsAt
  <2>2. CASE consecutive_failures < n
    <3>1. attempted[n - consecutive_failures].result = "ok"
      BY <1>3, <2>2 DEF StreakInv
    <3>2. n >= circuit_breaker_threshold =>
          n - consecutive_failures \in (n - circuit_breaker_threshold + 1)..n
      BY <1>1, <1>3, <2>2
    <3> QED
      BY <1>1, <1>3, <3>1, <3>2 DEF TripsAt
  <2> QED
    BY <1>1, <2>1, <2>2 DEF StreakInv
<1> QED
  BY <1>1, <1>2, <1>3

LEMMA InitHistory == LlmdInit => StreakInv /\ CooldownInv
  BY ConfigAssumption, SettingsType DEF LlmdInit, Init, StreakInv, CooldownInv

LEMMA NextStreak == IInv /\ StreakInv /\ [LlmdNext]_llmdVars => StreakInv'
<1> SUFFICES ASSUME IInv, StreakInv, [LlmdNext]_llmdVars PROVE StreakInv'
  OBVIOUS
<1> DEFINE n == Len(attempted)
<1>0. n \in Nat /\ consecutive_failures \in Nat /\ attempt \in Nat
  BY SettingsType, ConfigAssumption DEF IInv, TypeOK, StreakInv
<1>1. CASE CallAnswered
  <2>1. /\ attempted' = Append(attempted, [result |-> "ok", tries |-> attempt])
        /\ consecutive_failures' = 0
    BY <1>1 DEF CallAnswered, Answered, mark_success
  <2>2. /\ attempted' \in Seq([result : {"ok", "failed"}, tries : Nat])
        /\ Len(attempted') = n + 1
        /\ attempted'[n + 1].result = "ok"
    BY <1>0, <2>1 DEF StreakInv
  <2> QED
    BY <1>0, <2>1, <2>2 DEF StreakInv
<1>2. CASE CallFails
  <2>1. /\ attempted' = Append(attempted, [result |-> "failed", tries |-> attempt])
        /\ consecutive_failures' = AtMost(consecutive_failures + 1, U32Max)
    BY <1>2 DEF CallFails, Fail, mark_failure
  <2>2. /\ attempted' \in Seq([result : {"ok", "failed"}, tries : Nat])
        /\ Len(attempted') = n + 1
        /\ \A j \in 1..n : attempted'[j] = attempted[j]
        /\ attempted'[n + 1].result = "failed"
    BY <1>0, <2>1 DEF StreakInv
  <2>3. /\ consecutive_failures' \in Nat
        /\ consecutive_failures' <= consecutive_failures + 1
        /\ consecutive_failures' < circuit_breaker_threshold =>
               consecutive_failures' = consecutive_failures + 1
    BY <1>0, <2>1, SettingsType, ConfigAssumption DEF AtMost
  <2>4. consecutive_failures' <= Len(attempted')
    BY <1>0, <2>2, <2>3 DEF StreakInv
  <2>5. ASSUME NEW j \in (Len(attempted') - consecutive_failures' + 1)..Len(attempted')
        PROVE  attempted'[j].result = "failed"
    <3>1. CASE j = n + 1
      BY <2>2, <3>1
    <3>2. CASE j # n + 1
      <4>1. j \in (n - consecutive_failures + 1)..n /\ j \in 1..n
        BY <1>0, <2>2, <2>3, <2>4, <2>5, <3>2
      <4> QED
        BY <2>2, <4>1 DEF StreakInv
    <3> QED
      BY <3>1, <3>2
  <2>6. ASSUME consecutive_failures' < circuit_breaker_threshold,
               consecutive_failures' < Len(attempted')
        PROVE  attempted'[Len(attempted') - consecutive_failures'].result = "ok"
    <3>1. Len(attempted') - consecutive_failures' = n - consecutive_failures
      BY <1>0, <2>2, <2>3, <2>6
    <3>2. consecutive_failures < circuit_breaker_threshold /\ consecutive_failures < n
      BY <1>0, <2>2, <2>3, <2>6, SettingsType
    <3>3. n - consecutive_failures \in 1..n
      BY <1>0, <3>2
    <3> QED
      BY <2>2, <3>1, <3>2, <3>3 DEF StreakInv
  <2> QED
    BY <2>2, <2>4, <2>5, <2>6 DEF StreakInv
<1>3. CASE UNCHANGED <<attempted, consecutive_failures>>
  BY <1>3 DEF StreakInv
<1>4. [LlmdNext]_llmdVars =>
      CallAnswered \/ CallFails \/ UNCHANGED <<attempted, consecutive_failures>>
  BY DEF LlmdNext, CallRefused, Refuse, RefuseOpen, CallRejected, Reject, CallBegins, Begin,
      PassBreaker, ServiceAnswers, ServerReply, CallRetries, Retry, CallResends, Resend,
      breakerVars, Deny, ExecutorWorks, Execute, ExecuteFails, ExecutePanics, NextRequest,
      Done, ModelChanges, LlmdTick, Tick, llmdVars, vars, history
<1> QED
  BY <1>1, <1>2, <1>3, <1>4

LEMMA NextCooldown == IInv /\ CooldownInv /\ [LlmdNext]_llmdVars => CooldownInv'
<1> SUFFICES ASSUME IInv, CooldownInv, [LlmdNext]_llmdVars PROVE CooldownInv'
  OBVIOUS
<1> USE ConfigAssumption, SettingsType
<1>0. /\ consecutive_failures \in Nat
      /\ circuit_open_until \in 0..Cooldown \cup {None}
      /\ circuit_open_until # None => consecutive_failures >= circuit_breaker_threshold
  BY DEF IInv, TypeOK, InstantOnlyWhenTripped
<1>1. CASE CallAnswered
  BY <1>1 DEF CallAnswered, Answered, mark_success, CooldownInv
<1>2. CASE CallFails
  <2>1. quiet' = 0 /\ circuit_open_until = None
    BY <1>2 DEF CallFails, Fail, TimedOut, IInv, InstantOnlyWhenTripped, InEvaluation
  <2> QED
    BY <1>0, <1>2, <2>1 DEF CallFails, Fail, mark_failure, CooldownInv
<1>3. CASE LlmdTick
  BY <1>0, <1>3 DEF LlmdTick, Tick, CountDown, AtMost, CooldownInv
<1>4. CASE CallRejected \/ CallBegins
  BY <1>0, <1>4 DEF CallRejected, CallBegins, Reject, Begin, PassBreaker, CircuitOpen,
      history, CooldownInv
<1>5. CASE UNCHANGED <<consecutive_failures, circuit_open_until, quiet>>
  BY <1>5 DEF CooldownInv
<1>6. [LlmdNext]_llmdVars =>
      \/ CallAnswered \/ CallFails \/ LlmdTick \/ CallRejected \/ CallBegins
      \/ UNCHANGED <<consecutive_failures, circuit_open_until, quiet>>
  BY DEF LlmdNext, CallRefused, Refuse, RefuseOpen, ServiceAnswers, ServerReply,
      CallRetries, Retry, CallResends, Resend, breakerVars, Deny, ExecutorWorks, Execute,
      ExecuteFails, ExecutePanics, NextRequest, Done, ModelChanges, llmdVars, vars, history
<1> QED
  BY <1>1, <1>2, <1>3, <1>4, <1>5, <1>6

THEOREM HistoryHolds == LlmdSpec => [](StreakInv /\ CooldownInv)
  BY InitHistory, NextStreak, NextCooldown, LlmdUsesClient, IInvHolds, PTL DEF LlmdSpec

\* Between requests the breaker is open if and only if the history says so.
LEMMA OpenIffTripped ==
    ASSUME IInv, StreakInv, CooldownInv
    PROVE  CircuitOpen <=> Tripped
<1>1. consecutive_failures >= circuit_breaker_threshold <=> TripsAt(Len(attempted))
  BY StreakTrips
<1>2. /\ circuit_open_until \in 0..Cooldown \cup {None}
      /\ circuit_open_until # None => consecutive_failures >= circuit_breaker_threshold
  BY DEF IInv, TypeOK, InstantOnlyWhenTripped
<1> QED
  BY <1>1, <1>2, ConfigAssumption DEF CircuitOpen, Tripped, CooldownInv

\* A request is refused without a call of the policy service if and only if the
\* last evaluations that called it, threshold of them, all failed and the latest
\* failed less than a cooldown ago.
THEOREM RefusedIffTrippedHolds == LlmdSpec => RefusedIffTripped
<1>1. ASSUME IInv, StreakInv, CooldownInv, [LlmdNext]_llmdVars,
             stage = "idle", stage' # "idle"
      PROVE  verdict' = "refused" <=> Tripped
  <2>1. CallRefused \/ CallRejected \/ CallBegins
    BY <1>1 DEF LlmdNext, ServiceAnswers, ServerReply, CallAnswered, Answered, CallRetries,
        Retry, CanRetry, TimedOut, CallResends, Resend, CallFails, Fail, Deny, ExecutorWorks,
        Execute, ExecuteFails, ExecutePanics, NextRequest, Done, ModelChanges, LlmdTick, Tick,
        llmdVars, vars
  <2>2. CASE CallRefused
    BY <1>1, <2>2, OpenIffTripped DEF CallRefused, Refuse, RefuseOpen, Return
  <2>3. CASE CallRejected
    BY <1>1, <2>3, OpenIffTripped DEF CallRejected, Reject, PassBreaker, Return
  <2>4. CASE CallBegins
    BY <1>1, <2>4, OpenIffTripped, NoneAssumption
    DEF CallBegins, Begin, PassBreaker, Send, Verdicts, ErrVerdicts
  <2> QED
    BY <2>1, <2>2, <2>3, <2>4
<1>2. IInv /\ StreakInv /\ CooldownInv /\ [LlmdNext]_llmdVars =>
      [stage = "idle" /\ stage' # "idle" => (verdict' = "refused" <=> Tripped)]_llmdVars
  BY <1>1
<1> QED
  BY <1>2, HistoryHolds, LlmdUsesClient, IInvHolds, PTL DEF LlmdSpec, RefusedIffTripped
-----------------------------------------------------------------------------
(* The model under a running inference.                                    *)

\* What a step of llmd may do to the backend.
LEMMA BackendSteps ==
    [LlmdNext]_llmdVars =>
      \/ UNCHANGED backendVars
      \/ FindsNoModel \/ InferEnds \/ InferFails \/ \E p \in PromptTokens : InferRefuses(p)
      \/ ReadLock \/ FindsModel \/ InferSamples \/ InferDecodes \/ BackendChanges
      \/ \E p \in PromptTokens : InferBegins(p)
  BY DEF LlmdNext, CallRefused, CallRejected, CallBegins, ServiceAnswers, CallAnswered,
      CallRetries, CallResends, CallFails, Deny, ExecutorWorks, Execute, ExecutorSucceeds,
      ExecuteFails, ExecutorFails, ExecutePanics, ModelChanges, LlmdTick, llmdVars

LEMMA NextBackendTypes == BackendTypeOK /\ [LlmdNext]_llmdVars => BackendTypeOK'
<1> SUFFICES ASSUME BackendTypeOK, [LlmdNext]_llmdVars PROVE BackendTypeOK'
  OBVIOUS
<1> USE BackendAssumption DEF BackendTypeOK
<1>1. CASE UNCHANGED backendVars
  BY <1>1 DEF backendVars
<1>2. CASE FindsNoModel \/ InferEnds \/ InferFails \/ \E p \in PromptTokens : InferRefuses(p)
  BY <1>2 DEF FindsNoModel, InferEnds, InferFails, InferRefuses, Unlock
<1>3. CASE ReadLock
  BY <1>3 DEF ReadLock
<1>4. CASE FindsModel
  BY <1>4 DEF FindsModel, is_loaded
<1>5. CASE InferSamples
  <2>1. PICK n \in 0..MaxTokens : n = inference.completion /\ n < MaxTokens
    BY <1>5 DEF InferSamples, At
  <2>2. n + 1 \in 0..MaxTokens
    BY <2>1
  <2>3. inference' = [inference EXCEPT !.stage = "sampled", !.completion = n + 1]
    BY <1>5, <2>1 DEF InferSamples
  <2>4. inference \in [model : ContextLengths, completion : 0..MaxTokens,
                       stage : {"found", "decoded", "sampled"}]
    BY <1>5 DEF InferSamples, At
  <2>5. inference' \in [model : ContextLengths, completion : 0..MaxTokens,
                        stage : {"found", "decoded", "sampled"}]
    BY <2>2, <2>3, <2>4
  <2> QED
    BY <1>5, <2>5 DEF InferSamples
<1>6. CASE InferDecodes \/ \E p \in PromptTokens : InferBegins(p)
  BY <1>6 DEF InferDecodes, InferBegins, At
<1>7. CASE BackendChanges
  BY <1>7 DEF BackendChanges, LoadBegins, LoadFails, UnloadModel, LoadEnds
<1> QED
  BY <1>1, <1>2, <1>3, <1>4, <1>5, <1>6, <1>7, BackendSteps

\* The model stays because loads and unloads wait for the guard that an invocation
\* holds.
GuardHeld == inference # Nothing => lock = "read"

LEMMA NextKeepsModel ==
    /\ BackendTypeOK /\ GuardHeld /\ InvocationKeepsModel
    /\ [LlmdNext]_llmdVars
    => GuardHeld' /\ InvocationKeepsModel'
<1> SUFFICES ASSUME BackendTypeOK, GuardHeld, InvocationKeepsModel, [LlmdNext]_llmdVars
             PROVE  GuardHeld' /\ InvocationKeepsModel'
  OBVIOUS
<1> USE BackendAssumption DEF GuardHeld, InvocationKeepsModel
<1>1. CASE UNCHANGED backendVars
  BY <1>1 DEF backendVars
<1>2. CASE FindsNoModel \/ InferEnds \/ InferFails \/ \E p \in PromptTokens : InferRefuses(p)
  BY <1>2 DEF FindsNoModel, InferEnds, InferFails, InferRefuses, Unlock
<1>3. CASE ReadLock
  BY <1>3 DEF ReadLock
<1>4. CASE FindsModel
  BY <1>4 DEF FindsModel, is_loaded
<1>5. CASE InferSamples \/ InferDecodes \/ \E p \in PromptTokens : InferBegins(p)
  <2>1. /\ inference # Nothing
        /\ inference'.model = inference.model
        /\ UNCHANGED <<model, lock>>
    BY <1>5 DEF InferSamples, InferDecodes, InferBegins, At, BackendTypeOK
  <2> QED
    BY <2>1
<1>6. CASE BackendChanges
  BY <1>6 DEF BackendChanges, LoadBegins, LoadFails, UnloadModel, LoadEnds
<1> QED
  BY <1>1, <1>2, <1>3, <1>4, <1>5, <1>6, BackendSteps

\* No load and no unload comes between the check for a model and the end of the
\* invocation that it was made for.
THEOREM InvocationKeepsModelHolds == LlmdSpec => []InvocationKeepsModel
<1>1. LlmdInit => BackendTypeOK /\ GuardHeld /\ InvocationKeepsModel
  BY DEF LlmdInit, BackendInit, BackendTypeOK, GuardHeld, InvocationKeepsModel
<1> QED
  BY <1>1, NextBackendTypes, NextKeepsModel, PTL DEF LlmdSpec

-----------------------------------------------------------------------------
(* The audit stream.                                                       *)

\* What has been audited by now, and in which order.
AuditInv ==
    /\ current >= 1
    /\ audit \in Seq([req : Nat, effect : {"Allow", "Deny"}, outcome : {"Executed", "Denied"}])
    /\ aborted \subseteq 1..(current - 1)
    /\ \A i \in 1..Len(audit) : audit[i].req \in (1..(current - 1)) \ aborted
    /\ \A r \in (1..(current - 1)) \ aborted : \E i \in 1..Len(audit) : audit[i].req = r
    /\ \A i, j \in 1..Len(audit) : i < j => audit[i].req < audit[j].req
    /\ \A i \in 1..Len(audit) :
           audit[i].outcome = "Executed" <=> \E k \in 1..Len(executed) : executed[k] = audit[i].req

\* Steps that finish no request keep it.
LEMMA AuditInvKept ==
    ASSUME AuditInv, UNCHANGED <<current, audit, aborted, executed>>
    PROVE  AuditInv'
  BY DEF AuditInv

\* A request that is audited as it is finished keeps it.
LEMMA AuditInvAppends ==
    ASSUME AuditInv, ExecInv,
           NEW e \in {"Allow", "Deny"}, NEW o \in {"Executed", "Denied"},
           audit' = Append(audit, build_audit_event(e, o)),
           current' = current + 1,
           aborted' = aborted,
           executed' = IF o = "Executed" THEN Append(executed, current) ELSE executed
    PROVE  AuditInv'
<1> DEFINE n == Len(audit)
<1> DEFINE l == Len(executed)
<1>1. current \in Nat /\ current >= 1 /\ n \in Nat /\ l \in Nat
  BY DEF AuditInv, ExecInv, OrderInv, GrantedInv
<1>2. /\ audit' \in Seq([req : Nat, effect : {"Allow", "Deny"},
                         outcome : {"Executed", "Denied"}])
      /\ Len(audit') = n + 1
      /\ \A i \in 1..n : audit'[i] = audit[i]
      /\ audit'[n + 1].req = current
      /\ audit'[n + 1].outcome = o
  BY <1>1 DEF AuditInv, build_audit_event
<1>3. \A k \in 1..l : executed[k] # current
  BY <1>1 DEF ExecInv, OrderInv
<1>4. \A r \in Nat : (\E k \in 1..Len(executed') : executed'[k] = r)
          <=> (\E k \in 1..l : executed[k] = r) \/ (o = "Executed" /\ r = current)
  <2>1. CASE o = "Executed"
    <3>1. /\ Len(executed') = l + 1
          /\ \A k \in 1..l : executed'[k] = executed[k]
          /\ executed'[l + 1] = current
      BY <1>1, <2>1 DEF ExecInv, GrantedInv
    <3> QED
      BY <1>1, <2>1, <3>1
  <2>2. CASE o # "Executed"
    BY <2>2
  <2> QED
    BY <2>1, <2>2
<1>5. 1..(current' - 1) = (1..(current - 1)) \cup {current}
  BY <1>1
<1>6. current \notin aborted
  BY <1>1 DEF AuditInv
<1>7. \A i \in 1..Len(audit') : audit'[i].req \in (1..(current' - 1)) \ aborted'
  BY <1>1, <1>2, <1>5, <1>6 DEF AuditInv
<1>8. \A r \in (1..(current' - 1)) \ aborted' : \E i \in 1..Len(audit') : audit'[i].req = r
  <2>1. \A r \in (1..(current - 1)) \ aborted : \E i \in 1..n : audit'[i].req = r
    BY <1>2 DEF AuditInv
  <2> QED
    BY <1>1, <1>2, <1>5, <2>1
<1>9. \A i, j \in 1..Len(audit') : i < j => audit'[i].req < audit'[j].req
  BY <1>1, <1>2 DEF AuditInv
<1>10. ASSUME NEW i \in 1..Len(audit')
       PROVE  audit'[i].outcome = "Executed"
              <=> \E k \in 1..Len(executed') : executed'[k] = audit'[i].req
  <2>1. CASE i = n + 1
    BY <1>1, <1>2, <1>3, <1>4, <2>1
  <2>2. CASE i # n + 1
    <3>1. i \in 1..n /\ audit'[i] = audit[i]
      BY <1>1, <1>2, <2>2
    <3>2. audit[i].req \in Nat /\ audit[i].req # current
      BY <1>1, <3>1 DEF AuditInv
    <3> QED
      BY <1>4, <3>1, <3>2 DEF AuditInv
  <2> QED
    BY <2>1, <2>2
<1>11. aborted' \subseteq 1..(current' - 1) /\ current' >= 1
  BY <1>1, <1>5 DEF AuditInv
<1> QED
  BY <1>2, <1>7, <1>8, <1>9, <1>10, <1>11 DEF AuditInv

LEMMA NextAuditInv == ExecInv /\ AuditInv /\ [LlmdNext]_llmdVars => AuditInv'
<1> SUFFICES ASSUME ExecInv, AuditInv, [LlmdNext]_llmdVars PROVE AuditInv'
  OBVIOUS
<1>1. CASE Deny
  <2>1. /\ audit' = Append(audit, build_audit_event("Deny", "Denied"))
        /\ current' = current + 1 /\ aborted' = aborted /\ executed' = executed
    BY <1>1 DEF Deny, NextRequest, history
  <2> QED
    BY <2>1, AuditInvAppends
<1>2. CASE Execute
  <2>1. /\ audit' = Append(audit, build_audit_event("Allow", "Executed"))
        /\ current' = current + 1 /\ aborted' = aborted
        /\ executed' = Append(executed, current)
    BY <1>2 DEF Execute, NextRequest
  <2> QED
    BY <2>1, AuditInvAppends
<1>3. CASE ExecuteFails
  <2>1. /\ aborted' = aborted \cup {current} /\ current' = current + 1
        /\ UNCHANGED <<audit, executed>>
    BY <1>3 DEF ExecuteFails, NextRequest
  <2>2. current \in Nat /\ current >= 1
    BY DEF AuditInv, ExecInv, OrderInv
  <2>3. (1..(current' - 1)) \ aborted' = (1..(current - 1)) \ aborted
    BY <2>1, <2>2 DEF AuditInv
  <2> QED
    BY <2>1, <2>2, <2>3 DEF AuditInv
<1>4. CASE UNCHANGED <<current, audit, aborted, executed>>
  BY <1>4, AuditInvKept
<1>5. [LlmdNext]_llmdVars =>
      Deny \/ Execute \/ ExecuteFails \/ UNCHANGED <<current, audit, aborted, executed>>
  BY DEF LlmdNext, CallRefused, CallRejected, CallBegins, ServiceAnswers, CallAnswered,
      CallRetries, CallResends, CallFails, ExecutorWorks, ExecutePanics, ModelChanges,
      LlmdTick, llmdVars, history
<1> QED
  BY <1>1, <1>2, <1>3, <1>4, <1>5

\* Every finished request but those the executor failed on has one event, in the
\* order of the requests, and it says whether the request was executed.
THEOREM AuditTruthfulHolds == LlmdSpec => []AuditTruthful
<1>1. LlmdInit => AuditInv
  BY DEF LlmdInit, AuditInv
<1>2. ASSUME ExecInv, AuditInv PROVE AuditTruthful
  <2>1. DOMAIN audit = 1..Len(audit) /\ DOMAIN executed = 1..Len(executed)
    BY <1>2 DEF AuditInv, ExecInv, GrantedInv
  <2>2. {audit[i].req : i \in DOMAIN audit} = Finished \ aborted
    BY <1>2, <2>1 DEF AuditInv, Finished
  <2>3. \A i \in DOMAIN audit : audit[i].outcome = "Executed" <=> audit[i].req \in ExecutedSet
    BY <1>2, <2>1 DEF AuditInv, ExecutedSet
  <2> QED
    BY <1>2, <2>1, <2>2, <2>3 DEF AuditInv, AuditTruthful
<1> QED
  BY <1>1, <1>2, NextAuditInv, ExecInvHolds, PTL DEF LlmdSpec
-----------------------------------------------------------------------------
(* Types.                                                                  *)

\* A request is in progress while evaluate runs and until its verdict is dealt
\* with.
RequestInv == stage # "idle" => current \in Requests

LEMMA InitLlmdTypes == LlmdInit => LlmdTypeOK /\ RequestInv
<1> SUFFICES ASSUME LlmdInit PROVE LlmdTypeOK /\ RequestInv
  OBVIOUS
<1>1. TypeOK
  BY InitIInv DEF LlmdInit, IInv
<1>2. BackendTypeOK
  BY DEF LlmdInit, BackendInit, BackendTypeOK
<1>3. /\ current \in 1..(NumRequests + 1)
      /\ quiet \in 0..Cooldown
  BY RequestAssumption, ConfigAssumption DEF LlmdInit
<1>4. m \in [{"requests", "retries", "allows", "denies",
              "latency_count", "breaker_open_total"} -> Nat]
  BY DEF LlmdInit
<1>5. /\ audit = <<>> /\ executed = <<>> /\ attempted = <<>>
      /\ granted = {} /\ aborted = {} /\ panicked = FALSE
      /\ stage = "idle"
  BY DEF LlmdInit, Init
<1>6. panicked \in BOOLEAN
  BY <1>5, Zenon
<1> QED
  BY <1>1, <1>2, <1>3, <1>4, <1>5, <1>6 DEF LlmdTypeOK, RequestInv

LEMMA AppendType ==
    ASSUME NEW S, NEW s \in Seq(S), NEW e \in S
    PROVE  Append(s, e) \in Seq(S)
  OBVIOUS

LEMMA NextLlmdTypes ==
    IInv /\ LlmdTypeOK /\ RequestInv /\ [LlmdNext]_llmdVars => LlmdTypeOK' /\ RequestInv'
<1> SUFFICES ASSUME IInv, LlmdTypeOK, RequestInv, [LlmdNext]_llmdVars
             PROVE  LlmdTypeOK' /\ RequestInv'
  OBVIOUS
<1>1. TypeOK' /\ BackendTypeOK'
  BY LlmdStepIsClientStep, NextIInv, NextBackendTypes DEF IInv, LlmdTypeOK
<1>2. /\ (stage # "idle" => current \in Requests)'
      /\ current' \in 1..(NumRequests + 1)
  <2>1. \/ UNCHANGED <<stage, current>>
        \/ stage # "idle" /\ current' = current
        \/ current \in Requests /\ current' = current
        \/ stage = "returned" /\ stage' = "idle" /\ current' = current + 1
    BY RequestAssumption DEF LlmdNext, CallRefused, CallRejected, CallBegins, ServiceAnswers,
        ServerReply, CallAnswered, Answered, CallRetries, Retry, CanRetry, TimedOut, CallResends,
        Resend, CallFails, Fail, Deny, ExecutorWorks, Execute, ExecuteFails, ExecutePanics,
        NextRequest, Done, ModelChanges, LlmdTick, Tick, llmdVars, vars
  <2> QED
    BY <2>1, RequestAssumption DEF LlmdTypeOK, RequestInv, Requests
<1>3. audit' \in Seq([req : Requests, effect : {"Allow", "Deny"}, outcome : {"Executed", "Denied"}])
  <2>1. \/ audit' = audit
        \/ stage = "returned" /\ audit' = Append(audit, build_audit_event("Deny", "Denied"))
        \/ stage = "returned" /\ audit' = Append(audit, build_audit_event("Allow", "Executed"))
    BY DEF LlmdNext, CallRefused, CallRejected, CallBegins, ServiceAnswers, CallAnswered,
        CallRetries, CallResends, CallFails, Deny, ExecutorWorks, Execute, Executing,
        ExecuteFails, ExecutePanics, ModelChanges, LlmdTick, llmdVars
  <2>2. stage = "returned" =>
            \A e \in {"Allow", "Deny"}, o \in {"Executed", "Denied"} :
                build_audit_event(e, o) \in [req : Requests, effect : {"Allow", "Deny"},
                                             outcome : {"Executed", "Denied"}]
    BY DEF RequestInv, build_audit_event
  <2> QED
    <3>1. audit \in Seq([req : Requests, effect : {"Allow", "Deny"},
                          outcome : {"Executed", "Denied"}])
      BY DEF LlmdTypeOK
    <3>2. \A e \in [req : Requests, effect : {"Allow", "Deny"}, outcome : {"Executed", "Denied"}] :
              Append(audit, e) \in Seq([req : Requests, effect : {"Allow", "Deny"},
                                        outcome : {"Executed", "Denied"}])
      BY <3>1, AppendType
    <3> QED
      <4>1. CASE stage = "returned"
        <5>1. /\ Append(audit, build_audit_event("Deny", "Denied")) \in
                     Seq([req : Requests, effect : {"Allow", "Deny"},
                          outcome : {"Executed", "Denied"}])
              /\ Append(audit, build_audit_event("Allow", "Executed")) \in
                     Seq([req : Requests, effect : {"Allow", "Deny"},
                          outcome : {"Executed", "Denied"}])
          BY <2>2, <3>2, <4>1
        <5> QED
          BY <2>1, <3>1, <5>1
      <4> QED
        BY <2>1, <3>1, <4>1
<1>4. m' \in [{"requests", "retries", "allows", "denies",
               "latency_count", "breaker_open_total"} -> Nat]
  <2>1. \/ m' = m
        \/ \E c \in DOMAIN m : m' = [m EXCEPT ![c] = @ + 1]
        \/ \E n \in Nat : m' = [[m EXCEPT !.latency_count = @ + 1]
                                   EXCEPT !.breaker_open_total = n]
    <3> USE DEF LlmdTypeOK
    <3>1. CASE CallRefused \/ CallRejected \/ CallBegins
      BY <3>1 DEF CallRefused, CallRejected, CallBegins, inc_policy_requests
    <3>2. CASE CallAnswered
      BY <3>2 DEF CallAnswered
    <3>3. CASE CallRetries
      BY <3>3 DEF CallRetries
    <3>4. CASE CallFails
      <4>1. m.breaker_open_total \in Nat /\ m.breaker_open_total + 1 \in Nat
        OBVIOUS
      <4>2. \E n \in {m.breaker_open_total, m.breaker_open_total + 1} :
                m' = [m EXCEPT !.latency_count = @ + 1, !.breaker_open_total = n]
        BY <3>4 DEF CallFails
      <4> QED
        BY <4>1, <4>2
    <3>5. CASE Deny
      BY <3>5 DEF Deny
    <3>6. CASE Execute
      BY <3>6 DEF Execute
    <3>7. CASE \/ \E r \in Replies : ServiceAnswers(r)
               \/ CallResends \/ ExecutorWorks \/ ExecuteFails \/ ExecutePanics
               \/ ModelChanges \/ LlmdTick \/ UNCHANGED llmdVars
      BY <3>7 DEF ServiceAnswers, CallResends, ExecutorWorks, ExecuteFails, ExecutePanics,
          ModelChanges, LlmdTick, llmdVars
    <3> QED
      BY <3>1, <3>2, <3>3, <3>4, <3>5, <3>6, <3>7 DEF LlmdNext
  <2>2. m \in [{"requests", "retries", "allows", "denies",
                "latency_count", "breaker_open_total"} -> Nat]
    BY DEF LlmdTypeOK
  <2>3. CASE \E c \in DOMAIN m : m' = [m EXCEPT ![c] = @ + 1]
    BY <2>2, <2>3
  <2> DEFINE observed == [m EXCEPT !.latency_count = @ + 1]
  <2>4. observed \in [{"requests", "retries", "allows", "denies",
                      "latency_count", "breaker_open_total"} -> Nat]
    BY <2>2
  <2>5. CASE \E n \in Nat : m' = [observed EXCEPT !.breaker_open_total = n]
    <3> HIDE DEF observed
    <3> QED
      BY <2>4, <2>5
  <2> QED
    BY <2>1, <2>2, <2>3, <2>4, <2>5
<1>5. /\ panicked' \in BOOLEAN
      /\ granted' \subseteq Requests
      /\ aborted' \subseteq Requests
      /\ executed' \in Seq(Requests)
  <2>1. /\ \/ granted' = granted
           \/ stage = "calling" /\ granted' = granted \cup {current}
        /\ \/ aborted' = aborted
           \/ stage = "returned" /\ aborted' = aborted \cup {current}
        /\ \/ executed' = executed
           \/ stage = "returned" /\ executed' = Append(executed, current)
    BY DEF LlmdNext, CallRefused, CallRejected, CallBegins, ServiceAnswers, ServerReply,
        CallAnswered, CallRetries, CallResends, CallFails, Deny, ExecutorWorks, Execute,
        Executing, Invoking, ExecuteFails, ExecutePanics, ModelChanges, LlmdTick, llmdVars, history
  <2>2. stage # "idle" => current \in Requests
    BY DEF RequestInv
  <2>3. executed' \in Seq(Requests)
    <3>1. executed \in Seq(Requests)
      BY DEF LlmdTypeOK
    <3>2. \A r \in Requests : Append(executed, r) \in Seq(Requests)
      BY <3>1, AppendType
    <3> QED
      BY <2>1, <2>2, <3>1, <3>2
  <2>4. ExecutePanics \/ UNCHANGED panicked
    BY DEF LlmdNext, CallRefused, CallRejected, CallBegins, ServiceAnswers, CallAnswered,
        CallRetries, CallResends, CallFails, Deny, ExecutorWorks, Execute, ExecuteFails,
        ModelChanges, LlmdTick, llmdVars
  <2>5. panicked' \in BOOLEAN
    BY <2>4, Zenon DEF ExecutePanics, LlmdTypeOK
  <2> QED
    BY <2>1, <2>2, <2>3, <2>5 DEF LlmdTypeOK
<1>6. attempted' \in Seq([result : {"ok", "failed"}, tries : Nat])
  <2>1. \/ attempted' = attempted
        \/ attempted' = Append(attempted, [result |-> "ok", tries |-> attempt])
        \/ attempted' = Append(attempted, [result |-> "failed", tries |-> attempt])
    BY DEF LlmdNext, CallRefused, CallRejected, CallBegins, ServiceAnswers, CallAnswered,
        CallRetries, CallResends, CallFails, Deny, ExecutorWorks, Execute, ExecuteFails,
        ExecutePanics, ModelChanges, LlmdTick, llmdVars, history
  <2>2. \A x \in {"ok", "failed"} :
            [result |-> x, tries |-> attempt] \in [result : {"ok", "failed"}, tries : Nat]
    BY SettingsType DEF IInv, TypeOK
  <2> QED
    <3>1. attempted \in Seq([result : {"ok", "failed"}, tries : Nat])
      BY DEF LlmdTypeOK
    <3>2. \A e \in [result : {"ok", "failed"}, tries : Nat] :
              Append(attempted, e) \in Seq([result : {"ok", "failed"}, tries : Nat])
      BY <3>1, AppendType
    <3> QED
      BY <2>1, <2>2, <3>1, <3>2, Zenon
<1>7. quiet' \in 0..Cooldown
  <2>1. quiet' \in {0, quiet} \/ LlmdTick
    BY Zenon DEF LlmdNext, CallRefused, CallRejected, CallBegins, ServiceAnswers, CallAnswered,
        CallRetries, CallResends, CallFails, Deny, ExecutorWorks, Execute, ExecuteFails,
        ExecutePanics, ModelChanges, llmdVars, history
  <2>2. quiet \in 0..Cooldown /\ Cooldown \in Nat
    BY ConfigAssumption DEF LlmdTypeOK
  <2>3. CASE LlmdTick
    BY <2>2, <2>3 DEF LlmdTick, AtMost
  <2> QED
    BY <2>1, <2>2, <2>3
<1> QED
  BY <1>1, <1>2, <1>3, <1>4, <1>5, <1>6, <1>7 DEF LlmdTypeOK, RequestInv

\* Every variable of the daemon keeps its type, and it only works on requests
\* there are.
THEOREM LlmdTypeCorrect == LlmdSpec => []LlmdTypeOK
  BY InitLlmdTypes, NextLlmdTypes, LlmdUsesClient, IInvHolds, PTL DEF LlmdSpec
-----------------------------------------------------------------------------
(* The counters.                                                           *)

\* The attempts beyond the first of a list of evaluations, as RetriesMade counts them.
Repeats(s) == {p \in (DOMAIN s) \X (2..max_attempts) : p[2] <= s[p[1]].tries}
InHand == CASE stage = "calling" -> attempt - 1
            [] stage = "backoff" -> attempt
            [] OTHER -> 0

\* One more evaluation adds its own.
LEMMA RepeatsAppend ==
    ASSUME NEW s, s \in Seq([result : {"ok", "failed"}, tries : Nat]),
           IsFiniteSet(Repeats(s)),
           NEW e \in [result : {"ok", "failed"}, tries : Nat], e.tries \in 1..max_attempts
    PROVE  /\ IsFiniteSet(Repeats(Append(s, e)))
           /\ Cardinality(Repeats(Append(s, e))) = Cardinality(Repeats(s)) + (e.tries - 1)
<1> DEFINE n == Len(s) + 1
           New == {<<n, a>> : a \in 2..e.tries}
           s2 == Append(s, e)
<1>1. /\ n \in Nat /\ n >= 1 /\ DOMAIN s = 1..(n - 1) /\ DOMAIN s2 = 1..n
      /\ \A i \in 1..(n - 1) : s2[i] = s[i]
      /\ s2[n] = e
  OBVIOUS
<1>2. max_attempts \in Nat /\ e.tries \in Nat /\ e.tries >= 1 /\ e.tries <= max_attempts
  BY SettingsType
<1> HIDE DEF n, s2
<1>3. Repeats(s2) = Repeats(s) \cup New
  <2>1. ASSUME NEW i \in 1..n, NEW a \in 2..max_attempts
        PROVE  <<i, a>> \in Repeats(s2) <=> <<i, a>> \in Repeats(s) \cup New
    <3>1. <<i, a>> \in Repeats(s2) <=> a <= s2[i].tries
      BY <1>1 DEF Repeats
    <3>2. CASE i = n
      BY <1>1, <1>2, <3>1, <3>2 DEF Repeats
    <3>3. CASE i # n
      <4>1. i \in 1..(n - 1)
        BY <1>1, <3>3
      <4>2. <<i, a>> \in Repeats(s) <=> a <= s[i].tries
        BY <1>1, <4>1 DEF Repeats
      <4>3. <<i, a>> \notin New
        BY <3>3
      <4> QED
        BY <1>1, <3>1, <4>1, <4>2, <4>3
    <3> QED
      BY <3>2, <3>3
  <2>2. Repeats(s2) \subseteq (1..n) \X (2..max_attempts)
    BY <1>1 DEF Repeats
  <2>3. Repeats(s) \cup New \subseteq (1..n) \X (2..max_attempts)
    <3>1. Repeats(s) \subseteq (1..n) \X (2..max_attempts)
      BY <1>1 DEF Repeats
    <3>2. New \subseteq (1..n) \X (2..max_attempts)
      <4> SUFFICES ASSUME NEW a \in 2..e.tries
                   PROVE  n \in 1..n /\ a \in 2..max_attempts
        OBVIOUS
      <4> QED
        BY <1>1, <1>2
    <3> QED
      BY <3>1, <3>2
  <2> HIDE DEF New
  <2>4. \A p \in (1..n) \X (2..max_attempts) : p = <<p[1], p[2]>> /\ p[1] \in 1..n /\ p[2] \in 2..max_attempts
    OBVIOUS
  <2> QED
    BY <2>1, <2>2, <2>3, <2>4
<1>4. IsFiniteSet(New) /\ Cardinality(New) = e.tries - 1
  <2> DEFINE f == [a \in 2..e.tries |-> <<n, a>>]
  <2>1. f \in Bijection(2..e.tries, New)
    <3>1. DOMAIN f = 2..e.tries /\ \A a \in 2..e.tries : f[a] = <<n, a>> /\ f[a] \in New
      OBVIOUS
    <3>2. \A x \in New : \E a \in 2..e.tries : f[a] = x
      OBVIOUS
    <3>3. f \in [2..e.tries -> New]
      BY <3>1, Zenon
    <3>4. \A a, b \in 2..e.tries : f[a] = f[b] => a = b
      BY <3>1
    <3> HIDE DEF f, New
    <3> QED
      BY <3>2, <3>3, <3>4, Zenon DEF Bijection, Injection, Surjection, IsInjective
  <2>2. IsFiniteSet(2..e.tries) /\ Cardinality(2..e.tries) = e.tries - 1
    <3>1. 2 \in Int /\ e.tries \in Int /\ e.tries >= 1
      BY <1>2
    <3> QED
      BY <3>1, FS_Interval
  <2> HIDE DEF New
  <2> QED
    BY <2>1, <2>2, FS_Bijection DEF ExistsBijection
<1>5. Repeats(s) \cap New = {}
  BY <1>1 DEF Repeats
<1> HIDE DEF New
<1>6. Cardinality(Repeats(s)) \in Nat
  BY FS_CardinalityType
<1>7. /\ IsFiniteSet(Repeats(s2))
      /\ Cardinality(Repeats(s2)) = Cardinality(Repeats(s)) + Cardinality(New) - Cardinality({})
  <2>1. /\ IsFiniteSet(Repeats(s) \cup New)
        /\ Cardinality(Repeats(s) \cup New)
               = Cardinality(Repeats(s)) + Cardinality(New) - Cardinality(Repeats(s) \cap New)
    BY <1>4, FS_Union, Zenon
  <2> QED
    BY <1>3, <1>5, <2>1
<1>8. Cardinality({}) = 0
  BY FS_EmptySet
<1>9. Cardinality(Repeats(s2)) = Cardinality(Repeats(s)) + (e.tries - 1)
  BY <1>2, <1>4, <1>6, <1>7, <1>8
<1> QED
  BY <1>7, <1>9 DEF s2

\* What has been counted, also while a request is in progress.
CountersInv ==
    /\ IsFiniteSet(Repeats(attempted))
    /\ m.retries = Cardinality(Repeats(attempted)) + InHand
    /\ m.latency_count = Len(attempted)
    /\ m.requests = IF stage = "idle" THEN current - 1 ELSE current
    /\ m.allows = Len(executed)
    /\ m.allows + m.denies = Len(audit)
    /\ IsFiniteSet(aborted)
    /\ m.allows + m.denies + Cardinality(aborted) = current - 1

LEMMA InitCounters == LlmdInit => CountersInv
<1> SUFFICES ASSUME LlmdInit PROVE CountersInv
  OBVIOUS
<1>1. Repeats(attempted) = {} /\ aborted = {} /\ InHand = 0
  BY DEF LlmdInit, Init, Repeats, InHand
<1> QED
  BY <1>1, FS_EmptySet DEF CountersInv, LlmdInit, Init

LEMMA OneMore ==
    ASSUME NEW a \in Nat, NEW b \in Nat, NEW c \in Nat, NEW n \in Nat, a + b + c = n - 1
    PROVE  (a + b) + 1 + c = (n + 1) - 1
  OBVIOUS

\* A part of the counters that a step leaves alone.
retryVars == <<attempted, m.retries, InHand>>
requestVars == <<current, m.requests, m.allows, m.denies, executed, audit, aborted>>

LEMMA CountersKept ==
    ASSUME CountersInv, UNCHANGED <<retryVars, m.latency_count, requestVars>>,
           stage' = "idle" <=> stage = "idle"
    PROVE  CountersInv'
  BY DEF CountersInv, retryVars, requestVars, Repeats

LEMMA NextCounters ==
    IInv /\ LlmdTypeOK /\ RequestInv /\ AuditInv /\ CountersInv /\ [LlmdNext]_llmdVars => CountersInv'
<1> SUFFICES ASSUME IInv, LlmdTypeOK, RequestInv, AuditInv, CountersInv, [LlmdNext]_llmdVars
             PROVE  CountersInv'
  OBVIOUS
<1>0. /\ m \in [{"requests", "retries", "allows", "denies",
                 "latency_count", "breaker_open_total"} -> Nat]
      /\ attempted \in Seq([result : {"ok", "failed"}, tries : Nat])
      /\ executed \in Seq(Requests) /\ current \in Nat /\ attempt \in Nat
      /\ stage \in {"calling", "backoff"} => attempt \in 1..max_attempts
      /\ Cardinality(Repeats(attempted)) \in Nat /\ Cardinality(aborted) \in Nat
      /\ audit \in Seq([req : Requests, effect : {"Allow", "Deny"}, outcome : {"Executed", "Denied"}])
  BY SettingsType, FS_CardinalityType
  DEF IInv, TypeOK, LoopInRange, InEvaluation, LlmdTypeOK, CountersInv, Requests
<1> DEFINE counters == {"requests", "retries", "allows", "denies", "latency_count", "breaker_open_total"}
\* A request begins.
<1>1. CASE CallRefused \/ CallRejected \/ CallBegins
  <2>1. /\ stage = "idle" /\ stage' \in {"calling", "returned"} /\ (stage' = "calling" => attempt' = 1)
        /\ m' = [m EXCEPT !.requests = @ + 1]
        /\ UNCHANGED <<attempted, current, executed, audit, aborted>>
    BY <1>1 DEF CallRefused, CallRejected, CallBegins, Refuse, Reject, Begin, Return, Send,
        inc_policy_requests, history
  <2>2. /\ m'.requests = m.requests + 1
        /\ \A c \in counters \ {"requests"} : m'[c] = m[c]
    BY <1>0, <2>1
  <2>3. InHand = 0 /\ InHand' = 0
    BY <2>1 DEF InHand
  <2> QED
    BY <1>0, <2>1, <2>2, <2>3 DEF CountersInv, Repeats
\* An evaluation is over.
<1>2. CASE CallAnswered \/ CallFails
  <2>1. PICK e \in [result : {"ok", "failed"}, tries : Nat] :
            attempted' = Append(attempted, e) /\ e.tries = attempt
    <3>1. \A x \in {"ok", "failed"} : [result |-> x, tries |-> attempt] \in [result : {"ok", "failed"}, tries : Nat]
      BY <1>0
    <3> QED
      BY <1>2, <3>1 DEF CallAnswered, CallFails
  <2>2. /\ stage = "calling" /\ stage' = "returned"
        /\ UNCHANGED <<current, executed, audit, aborted>>
    BY <1>2 DEF CallAnswered, CallFails, Answered, Fail, TimedOut, Return
  <2>3. /\ m'.latency_count = m.latency_count + 1
        /\ \A c \in counters \ {"latency_count", "breaker_open_total"} : m'[c] = m[c]
    <3>1. CASE CallAnswered
      BY <1>0, <3>1 DEF CallAnswered
    <3>2. CASE CallFails
      <4>1. PICK b : m' = [m EXCEPT !.latency_count = @ + 1, !.breaker_open_total = b]
        BY <3>2 DEF CallFails
      <4> QED
        BY <1>0, <4>1
    <3> QED
      BY <1>2, <3>1, <3>2
  <2>4. InHand = attempt - 1 /\ InHand' = 0
    BY <2>2 DEF InHand
  <2>5. /\ IsFiniteSet(Repeats(attempted'))
        /\ Cardinality(Repeats(attempted')) = Cardinality(Repeats(attempted)) + (attempt - 1)
    BY <1>0, <2>1, <2>2, RepeatsAppend DEF CountersInv
  <2>6. Len(attempted') = Len(attempted) + 1
    BY <1>0, <2>1
  <2>7. UNCHANGED <<m.requests, m.retries, m.allows, m.denies>>
    BY <2>3
  <2>8. m'.retries = Cardinality(Repeats(attempted')) + InHand'
    <3> DEFINE old == Cardinality(Repeats(attempted))
               new == Cardinality(Repeats(attempted'))
    <3>1. m'.retries = old + (attempt - 1) /\ new = old + (attempt - 1) /\ InHand' = 0
      BY <2>4, <2>5, <2>7 DEF CountersInv
    <3>2. old \in Nat /\ attempt \in Nat
      BY <1>0, Zenon
    <3> HIDE DEF old, new
    <3>3. m'.retries = new + InHand'
      BY <3>1, <3>2
    <3> QED
      BY <3>3, Zenon DEF new
  <2>9. m'.latency_count = Len(attempted') /\ m'.requests = current'
    BY <2>2, <2>3, <2>6, <2>7 DEF CountersInv
  <2> QED
    BY <2>2, <2>5, <2>7, <2>8, <2>9 DEF CountersInv
<1>3. CASE CallRetries
  <2>1. /\ stage = "calling" /\ stage' = "backoff" /\ attempt' = attempt
        /\ m' = [m EXCEPT !.retries = @ + 1]
        /\ UNCHANGED <<attempted, current, executed, audit, aborted>>
    BY <1>3 DEF CallRetries, Retry, CanRetry, TimedOut, history
  <2>2. m'.retries = m.retries + 1 /\ \A c \in counters \ {"retries"} : m'[c] = m[c]
    BY <1>0, <2>1
  <2>3. InHand = attempt - 1 /\ InHand' = attempt
    BY <2>1 DEF InHand
  <2> QED
    BY <1>0, <2>1, <2>2, <2>3 DEF CountersInv, Repeats
<1>4. CASE CallResends
  <2>1. /\ stage = "backoff" /\ stage' = "calling" /\ attempt' = attempt + 1 /\ m' = m
        /\ UNCHANGED <<attempted, current, executed, audit, aborted>>
    BY <1>4 DEF CallResends, Resend, Send, history
  <2>2. InHand = attempt /\ InHand' = attempt
    BY <1>0, <2>1 DEF InHand
  <2> QED
    BY <2>1, <2>2, CountersKept DEF retryVars, requestVars
\* A request is finished.
<1>5. CASE Deny \/ Execute \/ ExecuteFails
  <2>1. /\ stage = "returned" /\ stage' = "idle" /\ current' = current + 1
        /\ attempted' = attempted
    BY <1>5 DEF Deny, Execute, ExecuteFails, Invoking, Executing, NextRequest, Done, history
  <2>2. InHand = 0 /\ InHand' = 0
    BY <2>1 DEF InHand
  <2>3. CASE Deny
    <3>1. /\ m'.denies = m.denies + 1 /\ \A c \in counters \ {"denies"} : m'[c] = m[c]
          /\ executed' = executed /\ aborted' = aborted
      BY <1>0, <2>3 DEF Deny, history
    <3>2. Len(audit') = Len(audit) + 1
      BY <1>0, <2>3 DEF Deny
    <3> QED
      BY <1>0, <2>1, <2>2, <3>1, <3>2 DEF CountersInv, Repeats
  <2>4. CASE Execute
    <3>1. /\ m'.allows = m.allows + 1 /\ \A c \in counters \ {"allows"} : m'[c] = m[c]
          /\ aborted' = aborted
      BY <1>0, <2>4 DEF Execute
    <3>2. Len(audit') = Len(audit) + 1 /\ Len(executed') = Len(executed) + 1
      BY <1>0, <2>4 DEF Execute
    <3>3. UNCHANGED <<m.requests, m.retries, m.denies, m.latency_count>>
      BY <3>1
    <3>4. UNCHANGED Repeats(attempted)
      BY <2>1 DEF Repeats
    <3>5. /\ m'.allows = Len(executed') /\ m'.allows + m'.denies = Len(audit')
          /\ m'.allows + m'.denies + Cardinality(aborted') = current' - 1
      <4>1. /\ m.allows \in Nat /\ m.denies \in Nat /\ current \in Nat
            /\ Cardinality(aborted) \in Nat
        BY <1>0
      <4>2. /\ m.allows = Len(executed) /\ m.allows + m.denies = Len(audit)
            /\ m.allows + m.denies + Cardinality(aborted) = current - 1
        BY Zenon DEF CountersInv
      <4>3. m'.allows = m.allows + 1 /\ m'.denies = m.denies /\ current' = current + 1 /\ aborted' = aborted
        BY <2>1, <3>1, <3>3, Zenon
      <4>4. m'.allows = Len(executed')
        BY <3>2, <4>2, <4>3, Zenon
      <4>5. (m.allows + 1) + m.denies = (m.allows + m.denies) + 1
        BY <4>1
      <4>6. m'.allows + m'.denies = (m.allows + m.denies) + 1
        BY <4>3, <4>5, Zenon
      <4>7. m'.allows + m'.denies = Len(audit')
        BY <3>2, <4>2, <4>6, Zenon
      <4>8. (m.allows + m.denies) + 1 + Cardinality(aborted) = (current + 1) - 1
        <5> DEFINE a == m.allows
                   b == m.denies
                   c == Cardinality(aborted)
        <5>1. a \in Nat /\ b \in Nat /\ c \in Nat /\ a + b + c = current - 1
          BY <4>1, <4>2, Zenon
        <5> HIDE DEF a, b, c
        <5>2. (a + b) + 1 + c = (current + 1) - 1
          BY <4>1, <5>1, OneMore
        <5> QED
          BY <5>2, Zenon DEF a, b, c
      <4>9. m'.allows + m'.denies + Cardinality(aborted') = current' - 1
        BY <4>3, <4>6, <4>8
      <4> QED
        BY <4>4, <4>7, <4>9, Zenon
    <3>6. m.requests = current /\ m'.requests = current' - 1
      BY <1>0, <2>1, <3>3 DEF CountersInv
    <3> QED
      BY <2>1, <2>2, <3>1, <3>3, <3>4, <3>5, <3>6 DEF CountersInv
  <2>5. CASE ExecuteFails
    <3>1. aborted' = aborted \cup {current} /\ UNCHANGED <<m, executed, audit>>
      BY <2>5 DEF ExecuteFails
    <3>2. current \notin aborted
      BY <1>0 DEF AuditInv
    <3>3. IsFiniteSet(aborted') /\ Cardinality(aborted') = Cardinality(aborted) + 1
      BY <3>1, <3>2, FS_AddElement DEF CountersInv
    <3>4. m.allows \in Nat /\ m.denies \in Nat
      BY <1>0
    <3>5. m.allows + m.denies + Cardinality(aborted') = current' - 1
      <4>1. m.allows + m.denies + Cardinality(aborted) = current - 1
        BY DEF CountersInv
      <4>2. Cardinality(aborted) \in Nat /\ current \in Nat
        BY <1>0
      <4> QED
        BY <2>1, <3>3, <3>4, <4>1, <4>2
    <3>6. m.requests = current' - 1
      BY <1>0, <2>1 DEF CountersInv
    <3> QED
      BY <2>1, <2>2, <3>1, <3>3, <3>5, <3>6 DEF CountersInv, Repeats
  <2> QED
    BY <1>5, <2>3, <2>4, <2>5
\* Nothing is counted.
<1>6. CASE \/ \E r \in Replies : ServiceAnswers(r)
           \/ ExecutorWorks \/ ExecutePanics \/ ModelChanges \/ LlmdTick \/ UNCHANGED llmdVars
  <2>1. UNCHANGED <<attempted, m, stage, attempt, current, executed, audit, aborted>>
    BY <1>6 DEF ServiceAnswers, ServerReply, ExecutorWorks, ExecutePanics, ModelChanges,
        LlmdTick, Tick, llmdVars, vars, history
  <2> QED
    BY <2>1, CountersKept DEF retryVars, requestVars, InHand
<1> QED
  BY <1>1, <1>2, <1>3, <1>4, <1>5, <1>6 DEF LlmdNext

\* CountersAddUp: the counters process_action and evaluate keep in RuntimeMetrics add
\* up with what happened, for any number of requests and retries.
THEOREM CountersAddUpHolds == LlmdSpec => []CountersAddUp
<1>1. CountersInv => CountersAddUp
  BY DEF CountersInv, CountersAddUp, RetriesMade, Repeats, InHand
<1>2. LlmdInit => AuditInv
  BY DEF LlmdInit, AuditInv
<1> QED
  BY <1>1, <1>2, InitCounters, NextCounters, InitLlmdTypes, NextLlmdTypes, NextAuditInv,
     ExecInvHolds, LlmdUsesClient, IInvHolds, PTL DEF LlmdSpec
=============================================================================
