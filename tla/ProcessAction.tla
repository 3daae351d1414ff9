---------------------------- MODULE ProcessAction ----------------------------
(***************************************************************************)
(* process_action of services/llmd/src/lib.rs on top of PolicyClient and   *)
(* ModelBackend: the daemon takes requests one at a time, asks the policy  *)
(* client, executes what is allowed with ModelExecutor, and keeps the      *)
(* audit stream and the counters of RuntimeMetrics.                        *)
(*                                                                         *)
(* granted, executed, aborted, attempted and quiet are history variables:  *)
(* the code has no such state and no action depends on them.               *)
(***************************************************************************)
EXTENDS PolicyClient, ModelBackend, Sequences, FiniteSets

CONSTANTS NumRequests,   \* bound: how many requests are processed
          BadIds,        \* requests whose ids are not valid gRPC metadata
          Invokes        \* requests whose action is "model:invoke"

Requests == 1..NumRequests

ASSUME RequestAssumption ==
    /\ NumRequests \in Nat
    /\ BadIds \subseteq Requests
    /\ Invokes \subseteq Requests

VARIABLES current,    \* the request in progress, or the next one
          audit,      \* the events emitted, in order
          m,          \* the counters of RuntimeMetrics
          panicked,   \* process_action panicked and ended the daemon
          granted,    \* requests the policy service answered with "allow"
          executed,   \* requests the executor completed, in order
          aborted,    \* requests the executor failed on
          attempted,  \* what became of each evaluation that sent an attempt
          quiet       \* ticks since the last failed evaluation, up to Cooldown

history == <<granted, executed, aborted, attempted, quiet>>
llmdVars == <<vars, backendVars, current, audit, m, panicked, history>>

LlmdInit == /\ Init
            /\ current = 1
            /\ audit = <<>>
            /\ m = [requests |-> 0, retries |-> 0, allows |-> 0, denies |-> 0,
                    latency_count |-> 0, breaker_open_total |-> 0]
            /\ BackendInit
            /\ panicked = FALSE
            /\ granted = {}
            /\ executed = <<>>
            /\ aborted = {}
            /\ attempted = <<>>
            /\ quiet = Cooldown

build_audit_event(effect, outcome) ==
    [req |-> current, effect |-> effect, outcome |-> outcome]
-----------------------------------------------------------------------------
(* evaluate, with its counters.                                            *)

\* Every call of evaluate counts as a request, refused or not.
inc_policy_requests == m' = [m EXCEPT !.requests = @ + 1]

CallRefused == /\ current \in Requests
               /\ Refuse
               /\ inc_policy_requests
               /\ UNCHANGED <<current, audit, backendVars, panicked, history>>

CallRejected == /\ current \in BadIds
                /\ Reject
                /\ inc_policy_requests
                /\ UNCHANGED <<current, audit, backendVars, panicked, history>>

CallBegins == /\ current \in Requests \ BadIds
              /\ Begin
              /\ inc_policy_requests
              /\ UNCHANGED <<current, audit, backendVars, panicked, history>>

\* External: the service answers.
ServiceAnswers(r) ==
    /\ ServerReply(r)
    /\ granted' = IF r = "allow" THEN granted \cup {current} ELSE granted
    /\ UNCHANGED <<current, audit, m, backendVars, panicked, executed, aborted, attempted, quiet>>

CallAnswered == /\ Answered
                /\ m' = [m EXCEPT !.latency_count = @ + 1]
                /\ attempted' = Append(attempted, [result |-> "ok", tries |-> attempt])
                /\ UNCHANGED <<current, audit, backendVars, panicked, granted, executed, aborted, quiet>>

CallRetries == /\ Retry
               /\ m' = [m EXCEPT !.retries = @ + 1]
               /\ UNCHANGED <<current, audit, backendVars, panicked, history>>

CallResends == /\ Resend
               /\ UNCHANGED <<current, audit, m, backendVars, panicked, history>>

\* mark_failure counts an opening each time it sets the instant.
CallFails ==
    /\ Fail
    /\ m' = [m EXCEPT !.latency_count = @ + 1,
                      !.breaker_open_total =
                          IF consecutive_failures' >= circuit_breaker_threshold
                          THEN @ + 1 ELSE @]
    /\ attempted' = Append(attempted, [result |-> "failed", tries |-> attempt])
    /\ quiet' = 0
    /\ UNCHANGED <<current, audit, backendVars, panicked, granted, executed, aborted>>
-----------------------------------------------------------------------------
(* What process_action does with the verdict, to the end of the request.   *)

\* A mutant: a model invocation is left where it is, to be tried again.
MutNextRequestAgain == Done /\ current' = IF current \in Invokes THEN current ELSE current + 1

NextRequest == Done /\ current' = current + 1

\* A mutant: the error path of evaluate is not audited.
MutDenyAuditsDecisionsOnly ==
        /\ stage = "returned"
        /\ verdict \in {"deny"} \cup ErrVerdicts
        /\ audit' = IF verdict \in ErrVerdicts THEN audit
                    ELSE Append(audit, build_audit_event("Deny", "Denied"))
        /\ m' = [m EXCEPT !.denies = @ + 1]
        /\ NextRequest
        /\ UNCHANGED <<backendVars, panicked, history>>

\* A denial and an error of evaluate: audited, then counted.
Deny == /\ stage = "returned"
        /\ verdict \in {"deny"} \cup ErrVerdicts
        /\ audit' = Append(audit, build_audit_event("Deny", "Denied"))
        /\ m' = [m EXCEPT !.denies = @ + 1]
        /\ NextRequest
        /\ UNCHANGED <<backendVars, panicked, history>>

\* The verdict lets the executor go to work, with the model or without.
Executing == stage = "returned" /\ verdict = "allow" /\ ~panicked
Invoking == Executing /\ current \in Invokes

ExecutorWorks == /\ Invoking
                 /\ \/ ReadLock \/ FindsModel
                    \/ \E p \in PromptTokens : InferBegins(p)
                    \/ InferSamples \/ InferDecodes
                 /\ UNCHANGED <<vars, current, audit, m, panicked, history>>

\* Only a model invocation of a loaded model is more than a pass-through.
ExecutorSucceeds == \/ current \notin Invokes /\ UNCHANGED backendVars
                    \/ current \in Invokes /\ (FindsNoModel \/ InferEnds)

Execute == /\ Executing
           /\ ExecutorSucceeds
           /\ executed' = Append(executed, current)
           /\ m' = [m EXCEPT !.allows = @ + 1]
           /\ audit' = Append(audit, build_audit_event("Allow", "Executed"))
           /\ NextRequest
           /\ UNCHANGED <<panicked, granted, aborted, attempted, quiet>>

\* infer returns an error.
ExecutorFails == InferFails \/ \E p \in PromptTokens : InferRefuses(p)

\* A mutant: the failure is counted as a denial.
MutExecuteFailsCounted == /\ Invoking
                /\ ExecutorFails
                /\ aborted' = aborted \cup {current}
                /\ m' = [m EXCEPT !.denies = @ + 1]
                /\ NextRequest
                /\ UNCHANGED <<audit, panicked, granted, executed, attempted, quiet>>

\* The `?` after execute leaves process_action with no event and no counter.
ExecuteFails == /\ Invoking
                /\ ExecutorFails
                /\ aborted' = aborted \cup {current}
                /\ NextRequest
                /\ UNCHANGED <<audit, m, panicked, granted, executed, attempted, quiet>>

\* truncate_text cuts the text of the response at byte 200, which may lie inside
\* a character: main's task panics.  MockBackend's text is short.
ExecutePanics == /\ Invoking
                 /\ kind = "llama" /\ InferEnds
                 /\ panicked' = TRUE
                 /\ UNCHANGED <<vars, current, audit, m, history>>

\* Models come and go, whatever the daemon does.
ModelChanges == /\ BackendChanges
                /\ UNCHANGED <<vars, current, audit, m, panicked, history>>

LlmdTick == /\ Tick
            /\ quiet' = AtMost(quiet + 1, Cooldown)
            /\ UNCHANGED <<current, audit, m, backendVars, panicked, granted, executed, aborted, attempted>>

LlmdNext == \/ CallRefused \/ CallRejected \/ CallBegins
            \/ \E r \in Replies : ServiceAnswers(r)
            \/ CallAnswered \/ CallRetries \/ CallResends \/ CallFails
            \/ Deny \/ ExecutorWorks \/ Execute \/ ExecuteFails \/ ExecutePanics
            \/ ModelChanges
            \/ LlmdTick

LlmdSpec == LlmdInit /\ [][LlmdNext]_llmdVars

\* llmd works through its requests (the loop of main.rs), its task is scheduled
\* and the clock runs.  A load comes to its end, and the lock is fair: its queue
\* is in order of arrival.  Nothing is assumed of the policy service.
LlmdFairness == /\ WF_llmdVars(CallRefused \/ CallRejected \/ CallBegins)
                /\ WF_llmdVars(CallAnswered \/ CallRetries \/ CallResends \/ CallFails)
                /\ WF_llmdVars(Deny \/ ExecutorWorks \/ Execute \/ ExecuteFails \/ ExecutePanics)
                /\ SF_llmdVars(Invoking /\ lock = "free" /\ ExecutorWorks)
                /\ WF_llmdVars(lock = "write" /\ ModelChanges)
                /\ WF_llmdVars(LlmdTick)
LlmdFairSpec == LlmdSpec /\ LlmdFairness
-----------------------------------------------------------------------------
Finished == 1..(current - 1)

LlmdTypeOK == /\ TypeOK
              /\ current \in 1..(NumRequests + 1)
              /\ audit \in Seq([req : Requests, effect : {"Allow", "Deny"},
                                outcome : {"Executed", "Denied"}])
              /\ m \in [{"requests", "retries", "allows", "denies",
                         "latency_count", "breaker_open_total"} -> Nat]
              /\ BackendTypeOK
              /\ panicked \in BOOLEAN
              /\ granted \subseteq Requests
              /\ executed \in Seq(Requests)
              /\ aborted \subseteq Requests
              /\ attempted \in Seq([result : {"ok", "failed"}, tries : Nat])
              /\ quiet \in 0..Cooldown

ExecutedSet == {executed[i] : i \in DOMAIN executed}

\* Fail closed: whatever is executed, or handed to the executor, was allowed by
\* an answer of the policy service to that very request; a refused, failed,
\* timed-out or rejected evaluation and an unknown effect never lead there.
FailClosed == ExecutedSet \cup aborted \subseteq granted

\* The executor completes a request at most once: retries of the policy call
\* never turn into a second execution, and a denied request stays denied.
ExecutedOnce == \A i, j \in DOMAIN executed : i < j => executed[i] < executed[j]

\* The audit stream tells the truth, in the order of the requests: a finished
\* request has one event, Executed if and only if the executor completed it;
\* only a request the executor failed on has none.
AuditTruthful ==
    /\ \A i, j \in DOMAIN audit : i < j => audit[i].req < audit[j].req
    /\ {audit[i].req : i \in DOMAIN audit} = Finished \ aborted
    /\ \A i \in DOMAIN audit :
           audit[i].outcome = "Executed" <=> audit[i].req \in ExecutedSet

\* The attempts beyond the first, of the evaluations that are over and of the
\* one in progress.
RetriesMade ==
    Cardinality({p \in (DOMAIN attempted) \X (2..max_attempts) :
                     p[2] <= attempted[p[1]].tries})
    + CASE stage = "calling" -> attempt - 1
        [] stage = "backoff" -> attempt
        [] OTHER -> 0

\* Between requests the counters add up: each request was allowed, denied or
\* aborted by the executor, each evaluation that sent an attempt has a latency
\* observation and the others have none.  Retries are exact at all times.
CountersAddUp ==
    /\ m.retries = RetriesMade
    /\ m.latency_count = Len(attempted)
    /\ stage = "idle" =>
           /\ m.requests = current - 1
           /\ m.requests = m.allows + m.denies + Cardinality(aborted)
           /\ m.allows = Len(executed)
           /\ m.allows + m.denies = Len(audit)

\* Evaluation i of attempted was the last of circuit_breaker_threshold failed
\* ones in a row.
TripsAt(i) == /\ i >= circuit_breaker_threshold
              /\ \A j \in (i - circuit_breaker_threshold + 1)..i : attempted[j].result = "failed"

\* The last evaluations tripped the breaker, less than a cooldown ago.
Tripped == TripsAt(Len(attempted)) /\ quiet < Cooldown

\* A request is refused without a call of the policy service if and only if the
\* last evaluations that did call it all failed, threshold of them, the latest
\* less than a cooldown ago.  Refused and malformed requests in between neither
\* extend nor shorten that time and count neither way.
RefusedIffTripped ==
    [][stage = "idle" /\ stage' # "idle" => (verdict' = "refused" <=> Tripped)]_llmdVars

\* llmd gets through all of its requests, even when the policy service never
\* answers a single call and models are loaded all the time; only the panic in
\* truncate_text can keep it from that.
AllRequestsFinish == <>[](current = NumRequests + 1 \/ panicked)
=============================================================================
