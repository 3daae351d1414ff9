--------------------------- MODULE PolicyPipeline ---------------------------
(***************************************************************************)
(* llmd's policy client and the policy engine together: each attempt of    *)
(* evaluate is a call that travels to the engine, takes a snapshot of the  *)
(* shared policy there and travels back, while the engine reloads its      *)
(* document and the client times out, backs off, sends again or trips its  *)
(* breaker.                                                                *)
(*                                                                         *)
(* PolicyReload is extended, PolicyClient is an instance over this         *)
(* module's variables.  A document decides by Allows (PolicyEval says how).*)
(* The call of attempt a has slot a; sending attempt a again, for the next *)
(* request, takes the slot from a call nobody waits for any more.          *)
(* sent_at is a history variable.                                          *)
(***************************************************************************)
EXTENDS PolicyReload

CONSTANTS Requests,  \* what can be asked
          Allows,    \* Allows[d]: the requests document d allows
          CfgMaxAttempts, CfgThreshold, Cooldown, Timeout,
          InitialBackoff, MaxBackoff, U32Max

VARIABLES consecutive_failures, circuit_open_until, breaker_open,
          phase,     \* PolicyClient's stage
          attempt, timer, reply, verdict,
          req,       \* the request in progress
          asks,      \* asks[c]: the request that call c carries, None without a call
          sent_at    \* how many policies had been current when the call in progress was sent

clientVars == <<consecutive_failures, circuit_open_until, breaker_open,
                phase, attempt, timer, reply, verdict>>
pipelineVars == <<vars, clientVars, req, asks, sent_at>>

Client == INSTANCE PolicyClient WITH stage <- phase

ASSUME PipelineAssumption ==
    /\ CfgMaxAttempts \in Nat
    /\ Calls = 1..Client!max_attempts
    /\ Allows \in [0..MaxEdits -> SUBSET Requests]
    /\ None \notin Requests \cup Client!Replies \cup Client!Verdicts

NoCall == [stage |-> "none", since |-> 0, snapshot |-> None]

PipelineInit == /\ Init
                /\ Client!Init
                /\ req = None
                /\ asks = [c \in Calls |-> None]
                /\ sent_at = 0
-----------------------------------------------------------------------------
(* The client: evaluate, from process_action.                              *)

\* A call for request r leaves the client in the slot of the attempt.
Sent(r) == /\ asks' = [asks EXCEPT ![attempt'] = r]
           /\ call' = [call EXCEPT ![attempt'] = NoCall]
           /\ sent_at' = Len(active)
           /\ UNCHANGED <<fileVars, pollVars, active, raced>>

Ask(r) == /\ Client!Begin
          /\ req' = r
          /\ Sent(r)

AskAgain == /\ Client!Resend
            /\ Sent(req)
            /\ UNCHANGED req

\* The request never leaves the client: breaker open, or malformed.
Refuse == /\ Client!Refuse \/ Client!Reject
          /\ UNCHANGED <<vars, req, asks, sent_at>>

\* An answer is taken, an attempt given up, the request given up, time passes.
ClientStep == /\ Client!Answered \/ Client!Retry \/ Client!Fail \/ Client!Tick
              /\ sent_at' = IF Client!InEvaluation' THEN sent_at ELSE 0
              /\ UNCHANGED <<vars, req, asks>>

\* process_action has acted on the verdict.
Acted == /\ Client!Done
         /\ req' = None
         /\ UNCHANGED <<vars, asks, sent_at>>

\* External: the channel fails the call, whatever the engine makes of it; the
\* client takes the status for one worth a retry or not.
ChannelFails == /\ \E r \in {"Unavailable", "Internal"} : Client!ServerReply(r)
                /\ UNCHANGED <<vars, req, asks, sent_at>>
-----------------------------------------------------------------------------
(* The calls in the engine.                                                *)

\* evaluate_policy under the document of the snapshot.
Decision(c) == IF asks[c] \in Allows[call[c].snapshot] THEN "allow" ELSE "deny"

Arrives(c) == /\ asks[c] # None
              /\ Arrive(c)
              /\ UNCHANGED <<clientVars, req, asks, sent_at>>

Evaluates(c) == /\ Snapshot(c) \/ Respond(c)
                /\ UNCHANGED <<clientVars, req, asks, sent_at>>

\* A mutant: whatever answer comes in is taken for that of the current call.
MutAwaited(c) == phase = "calling"

\* The client awaits this very call: a stream of its own, dropped on timeout.
Awaited(c) == phase = "calling" /\ c = attempt

Delivered(c) == /\ Awaited(c)
                /\ call[c].stage = "responded"
                /\ Client!ServerReply(Decision(c))
                /\ Forget(c)
                /\ asks' = [asks EXCEPT ![c] = None]
                /\ UNCHANGED <<req, sent_at>>

\* An answer nobody awaits, or a call dropped with its stream.
Dropped(c) == /\ ~Awaited(c)
              /\ Forget(c)
              /\ asks' = [asks EXCEPT ![c] = None]
              /\ UNCHANGED <<clientVars, req, sent_at>>
-----------------------------------------------------------------------------
(* The engine's own steps and the operator's.                              *)
EngineStep(A) == A /\ UNCHANGED <<clientVars, req, asks, sent_at>>

Edits == EngineStep((\E ok \in BOOLEAN : Edit(ok)) \/ Delete)
Boots == EngineStep(Boot \/ BootFails)
Polls == EngineStep(FirstStat \/ Poll)
Loads == EngineStep(Load)
LoadsNot == EngineStep(LoadFails)
Swaps == EngineStep(Swap)

PipelineNext ==
    \/ \E r \in Requests : Ask(r)
    \/ AskAgain \/ Refuse \/ ClientStep \/ Acted \/ ChannelFails
    \/ \E c \in Calls : Arrives(c) \/ Evaluates(c) \/ Delivered(c) \/ Dropped(c)
    \/ Edits \/ Boots \/ Polls \/ Loads \/ LoadsNot \/ Swaps

PipelineSpec == PipelineInit /\ [][PipelineNext]_pipelineVars

\* The tasks of both programs are scheduled and the clock runs.  The caller need
\* not ask, and no call need arrive.
PipelineFairness ==
    /\ WF_pipelineVars(AskAgain) /\ WF_pipelineVars(ClientStep)
    /\ WF_pipelineVars(Acted)
    /\ WF_pipelineVars(Polls) /\ WF_pipelineVars(Loads \/ LoadsNot)
    /\ SF_pipelineVars(Loads) /\ WF_pipelineVars(Swaps)
PipelineFairSpec == PipelineSpec /\ PipelineFairness
-----------------------------------------------------------------------------
\* What was in force when k policies had been current; before the first, nothing.
PolicyOf(k) == IF k = 0 THEN {} ELSE Allows[active[k]]

AbstractVerdict == IF phase # "returned" THEN None
                   ELSE IF verdict = "allow" THEN "allow" ELSE "deny"

Contract == INSTANCE Authoriser WITH
    policy <- PolicyOf(Len(active)),
    asked <- IF Client!InEvaluation THEN req ELSE None,
    seen <- IF Client!InEvaluation THEN {PolicyOf(k) : k \in sent_at..Len(active)} ELSE {},
    verdict <- AbstractVerdict

\* End to end, nothing is granted but under a document that was current after
\* the attempt that brought the answer was sent: not by an answer to an earlier
\* attempt or to another request, not by a snapshot taken before, not by the
\* client on its own.
ImplementsAuthoriser == Contract!Spec

\* When a document stays in the file and can be loaded, there is a moment after
\* which no request is granted that this document does not allow: answers under
\* older documents, late or repeated, die out.
RevocationTakesEffect ==
    [](stage # "exited") =>
        \A d \in 0..MaxEdits :
            <>[](doc = d /\ Loadable /\ ~raced /\ stage # "boot")
            => <>[](phase = "returned" /\ verdict = "allow" => req \in Allows[d])
=============================================================================
