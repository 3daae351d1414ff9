------------------------ MODULE PolicyPipelineProofs ------------------------
(***************************************************************************)
(* Proofs about PolicyReload and, from them, about PolicyPipeline, for any *)
(* documents, calls, requests and edits and every configuration.           *)
(***************************************************************************)
EXTENDS PolicyPipeline, TLAPS

-----------------------------------------------------------------------------
(* The reload by itself.                                                   *)

Running == stage \in {"spawned", "sleep", "load", "swap"}

\* The part of the types that the proofs need.
Types == /\ doc \in Nat /\ edits \in Nat
         /\ stage \in Stages
         /\ last_modified \in Nat \cup {None}
         /\ current_modified \in Nat \cup {None}
         /\ incoming \in Nat \cup {None}
         /\ active \in Seq(Nat)
         /\ DOMAIN call = Calls

\* Modification times that were seen lie in the past.
SeenBefore == /\ last_modified # None => last_modified <= edits
              /\ current_modified # None => current_modified <= edits
              /\ doc <= edits

\* main has loaded a document before anything else runs.
Loaded == (Running <=> active # <<>>) /\ (stage = "swap" => incoming \in Nat)

\* What is about to be swapped in is the file's document, unless an edit came
\* after the modification time that goes with it.
IncomingMatches ==
    stage = "swap" /\ present /\ edits = current_modified => incoming = doc

\* The same for the current policy and the remembered modification time, during
\* a reload as well.
CurrentMatches ==
    /\ stage = "spawned" /\ present => current = doc \/ raced
    /\ stage \in {"sleep", "load", "swap"} /\ present /\ edits = last_modified
       => current = doc \/ raced

\* Documents are numbered in the order of the edits, and loaded in that order.
Ordered ==
    /\ \A i \in 1..Len(active) : active[i] <= doc
    /\ \A i, j \in 1..Len(active) : i < j => active[i] <= active[j]
    /\ stage = "swap" =>
           incoming <= doc /\ \A i \in 1..Len(active) : active[i] <= incoming

SyncInv == Types /\ SeenBefore /\ Loaded /\ IncomingMatches /\ CurrentMatches /\ Ordered
-----------------------------------------------------------------------------
LEMMA InitSync == Init => SyncInv
  BY ReloadAssumption
  DEF Init, SyncInv, Types, SeenBefore, Loaded, IncomingMatches, CurrentMatches, Ordered,
      Stages, Running

LEMMA NextSync == SyncInv /\ [Next]_vars => SyncInv'
<1> SUFFICES ASSUME SyncInv, [Next]_vars PROVE SyncInv'
  OBVIOUS
<1> USE ReloadAssumption
    DEF SyncInv, Types, SeenBefore, Loaded, IncomingMatches, CurrentMatches, Ordered,
        Stages, Running, fileVars, pollVars
<1>1. ASSUME NEW ok \in BOOLEAN, Edit(ok) PROVE SyncInv'
  <2>1. CASE stage = "spawned"
    <3>1. raced' = TRUE
      BY <1>1, <2>1, Zenon DEF Edit
    <3> QED
      BY <1>1, <2>1, <3>1 DEF Edit, current
  <2>2. CASE stage # "spawned"
    BY <1>1, <2>2 DEF Edit, current
  <2> QED
    BY <2>1, <2>2
<1>2. CASE Delete
  BY <1>2 DEF Delete, current
<1>3. CASE Boot
  BY <1>3 DEF Boot, current, Loadable
<1>4. CASE BootFails
  BY <1>4 DEF BootFails, current
<1>5. CASE FirstStat
  BY <1>5 DEF FirstStat, current, file_modified_time
<1>6. CASE Poll
  BY <1>6 DEF Poll, current, file_modified_time
<1>7. CASE Load
  BY <1>7 DEF Load, current, Loadable
<1>8. CASE LoadFails
  BY <1>8 DEF LoadFails, current
<1>9. CASE Swap
  <2>1. /\ active' = Append(active, incoming)
        /\ incoming \in Nat
        /\ Len(active') = Len(active) + 1
        /\ \A i \in 1..Len(active) : active'[i] = active[i]
        /\ active'[Len(active) + 1] = incoming
        /\ active' \in Seq(Nat)
    BY <1>9 DEF Swap
  <2>2. Ordered'
    BY <1>9, <2>1 DEF Swap
  <2>3. current' = incoming
    BY <2>1 DEF current
  <2>4. Types' /\ SeenBefore' /\ Loaded' /\ IncomingMatches' /\ CurrentMatches'
    BY <1>9, <2>1, <2>3 DEF Swap
  <2> QED
    BY <2>2, <2>4
<1>10. ASSUME NEW c \in Calls, Arrive(c) \/ Snapshot(c) \/ Respond(c) \/ Forget(c)
       PROVE  SyncInv'
  BY <1>10 DEF Arrive, Snapshot, Respond, Forget, current
<1>11. CASE Exited \/ UNCHANGED vars
  BY <1>11 DEF Exited, vars, current
<1> QED
  BY <1>1, <1>2, <1>3, <1>4, <1>5, <1>6, <1>7, <1>8, <1>9, <1>10, <1>11 DEF Next

THEOREM SyncHolds == Spec => []SyncInv
  BY InitSync, NextSync, PTL DEF Spec

\* While the reload task sees the modification time it remembers, the current
\* policy is the file's document, but for an edit during start-up.
THEOREM SkipMeansLoadedHolds == Spec => []SkipMeansLoaded
<1>1. SyncInv => SkipMeansLoaded
  BY DEF SyncInv, Loaded, Running, CurrentMatches, SkipMeansLoaded, UpToDate, file_modified_time
<1> QED
  BY <1>1, SyncHolds, PTL

\* The current policy never goes back to an earlier document.
THEOREM NeverBackwardsHolds == Spec => []NeverBackwards
<1>1. SyncInv => NeverBackwards
  BY DEF SyncInv, Types, Ordered, NeverBackwards
<1> QED
  BY <1>1, SyncHolds, PTL
-----------------------------------------------------------------------------
(* Decisions.                                                              *)

\* Where a call's snapshot sits in the history of the shared policy.
CallInv ==
    \A c \in Calls :
        /\ call[c].stage = "arrived" => call[c].since \in 1..Len(active)
        /\ call[c].stage \in {"snapshot", "responded"} =>
               /\ call[c].since \in 1..Len(active)
               /\ \E k \in call[c].since..Len(active) : active[k] = call[c].snapshot

LEMMA NextCalls == SyncInv /\ CallInv /\ [Next]_vars => CallInv'
<1> SUFFICES ASSUME SyncInv, CallInv, [Next]_vars PROVE CallInv'
  OBVIOUS
<1> USE DEF SyncInv, Types, fileVars, pollVars
<1>1. CASE UNCHANGED <<active, call>>
  BY <1>1 DEF CallInv
<1>2. CASE Boot
  <2>1. active = <<>> /\ UNCHANGED call
    BY <1>2 DEF Boot, Loaded, Running
  <2> QED
    BY <2>1 DEF CallInv
<1>3. CASE Swap
  <2>1. /\ Len(active') = Len(active) + 1
        /\ \A i \in 1..Len(active) : active'[i] = active[i]
        /\ UNCHANGED call
    BY <1>3 DEF Swap, Loaded
  <2> QED
    BY <2>1 DEF CallInv
<1>4. ASSUME NEW c \in Calls, Arrive(c) PROVE CallInv'
  <2>1. Len(active) \in Nat \ {0} /\ UNCHANGED active
    BY <1>4 DEF Arrive, Loaded, Running, Stages
  <2> QED
    BY <1>4, <2>1 DEF Arrive, CallInv
<1>5. ASSUME NEW c \in Calls, Snapshot(c) PROVE CallInv'
  <2>1. /\ UNCHANGED active
        /\ call' = [call EXCEPT ![c].stage = "snapshot", ![c].snapshot = active[Len(active)]]
        /\ call[c].since \in 1..Len(active)
    BY <1>5 DEF Snapshot, current, CallInv
  <2> QED
    BY <2>1 DEF CallInv
<1>6. ASSUME NEW c \in Calls, Respond(c) PROVE CallInv'
  <2>1. /\ call[c].stage = "snapshot"
        /\ call' = [call EXCEPT ![c].stage = "responded"]
        /\ UNCHANGED active
    BY <1>6 DEF Respond
  <2>2. \A b \in Calls : /\ call'[b].since = call[b].since
                         /\ call'[b].snapshot = call[b].snapshot
                         /\ b # c => call'[b].stage = call[b].stage
                         /\ call'[c].stage = "responded"
    BY <2>1
  <2> QED
    BY <2>1, <2>2 DEF CallInv
<1>7. ASSUME NEW c \in Calls, Forget(c) PROVE CallInv'
  <2>1. UNCHANGED active /\ \A b \in Calls : b # c => call'[b] = call[b]
    BY <1>7 DEF Forget
  <2>2. call'[c].stage = "none"
    BY <1>7 DEF Forget
  <2> QED
    BY <2>1, <2>2 DEF CallInv
<1> QED
  BY <1>1, <1>2, <1>3, <1>4, <1>5, <1>6, <1>7
  DEF Next, Edit, Delete, BootFails, FirstStat, Poll, Load, LoadFails, Exited, vars

\* Every call is decided by a document that was current between its arrival and
\* its response.
THEOREM DecisionFreshHolds == Spec => []DecisionFresh
<1>1. Init => CallInv
  <2>1. Init => \A c \in Calls : call[c].stage = "none"
    <3> SUFFICES ASSUME Init, NEW c \in Calls PROVE call[c].stage = "none"
      OBVIOUS
    <3>1. call[c] = [stage |-> "none", since |-> 0, snapshot |-> None]
      BY Zenon DEF Init
    <3> QED
      BY <3>1
  <2> QED
    BY <2>1 DEF CallInv
<1>2. CallInv => DecisionFresh
  BY DEF CallInv, DecisionFresh
<1> QED
  BY <1>1, <1>2, NextCalls, SyncHolds, PTL DEF Spec

-----------------------------------------------------------------------------
(* What is proved of PolicyReload by itself holds in the pipeline.         *)

\* Sending an attempt drops the call that has its slot, and is otherwise nothing
\* to the engine.
Takes == /\ call' = [call EXCEPT ![attempt'] = NoCall]
         /\ UNCHANGED <<fileVars, pollVars, active, raced>>

LEMMA EngineSteps == [PipelineNext]_pipelineVars => [Next]_vars \/ Takes
<1> SUFFICES ASSUME [PipelineNext]_pipelineVars PROVE [Next]_vars \/ Takes
  OBVIOUS
<1>1. CASE UNCHANGED vars
  BY <1>1
<1>2. ASSUME NEW r \in Requests, Ask(r) PROVE Takes
  BY <1>2 DEF Ask, Sent, Takes
<1>3. CASE AskAgain
  BY <1>3 DEF AskAgain, Sent, Takes
<1>4. CASE Refuse \/ ClientStep \/ Acted \/ ChannelFails
  BY <1>4 DEF Refuse, ClientStep, Acted, ChannelFails
<1>5. ASSUME NEW c \in Calls, Arrives(c) \/ Evaluates(c) \/ Delivered(c) \/ Dropped(c)
      PROVE  Next
  BY <1>5 DEF Arrives, Evaluates, Delivered, Dropped, Next
<1>6. CASE Edits
  BY <1>6 DEF Edits, EngineStep, Next
<1>7. CASE Boots \/ Polls \/ Loads \/ LoadsNot \/ Swaps
  BY <1>7 DEF Boots, Polls, Loads, LoadsNot, Swaps, EngineStep, Next
<1>8. CASE UNCHANGED pipelineVars
  BY <1>8 DEF pipelineVars
<1> QED
  BY <1>1, <1>2, <1>3, <1>4, <1>5, <1>6, <1>7, <1>8 DEF PipelineNext

LEMMA TakesKeeps ==
    ASSUME SyncInv, CallInv, Takes
    PROVE  SyncInv' /\ CallInv'
<1>1. SyncInv'
  BY DEF Takes, SyncInv, Types, SeenBefore, Loaded, IncomingMatches, CurrentMatches, Ordered,
      Running, current, fileVars, pollVars
<1>2. CallInv'
  <2> SUFFICES ASSUME NEW c \in Calls
               PROVE  /\ call'[c].stage = "arrived" => call'[c].since \in 1..Len(active')
                      /\ call'[c].stage \in {"snapshot", "responded"} =>
                             /\ call'[c].since \in 1..Len(active')
                             /\ \E k \in call'[c].since..Len(active') : active'[k] = call'[c].snapshot
    BY DEF CallInv
  <2>1. UNCHANGED active
    BY DEF Takes
  <2>2. call'[c] = NoCall \/ call'[c] = call[c]
    BY DEF Takes, SyncInv, Types
  <2> QED
    BY <2>1, <2>2 DEF CallInv, NoCall
<1> QED
  BY <1>1, <1>2

LEMMA InitCalls == Init => CallInv
<1> SUFFICES ASSUME Init, NEW c \in Calls PROVE call[c].stage = "none"
  BY DEF CallInv
<1>1. call[c] = [stage |-> "none", since |-> 0, snapshot |-> None]
  BY Zenon DEF Init
<1> QED
  BY <1>1

LEMMA EngineInvHolds == PipelineSpec => [](SyncInv /\ CallInv)
<1>1. PipelineInit => SyncInv /\ CallInv
  BY InitSync, InitCalls DEF PipelineInit
<1>2. SyncInv /\ CallInv /\ [PipelineNext]_pipelineVars => SyncInv' /\ CallInv'
  BY EngineSteps, TakesKeeps, NextSync, NextCalls
<1> QED
  BY <1>1, <1>2, PTL DEF PipelineSpec
-----------------------------------------------------------------------------
(* The request in progress and the call that is awaited.                   *)

EditsBounded == edits <= MaxEdits

\* There is a request and an attempt as long as evaluate runs.
RequestInv ==
    /\ DOMAIN asks = Calls
    /\ Client!InEvaluation =>
           req \in Requests /\ attempt \in Calls /\ sent_at \in 0..Len(active)
    /\ phase = "backoff" => attempt < Client!max_attempts

\* The call that is awaited carries that request, and reached the engine after the
\* attempt was sent.
AwaitedInv ==
    phase = "calling" =>
        /\ asks[attempt] \in {req, None}
        /\ call[attempt].stage # "none" =>
               asks[attempt] = req /\ call[attempt].since >= sent_at

\* An answer that allows goes back to a document that was current since.
ReplyInv ==
    phase = "calling" /\ reply = "allow" =>
        \E k \in 1..Len(active) : k >= sent_at /\ req \in Allows[active[k]]

PipeInv == EditsBounded /\ RequestInv /\ AwaitedInv /\ ReplyInv

LEMMA InitPipe == PipelineInit => PipeInv
  BY ReloadAssumption
  DEF PipelineInit, Init, Client!Init, Client!InEvaluation, PipeInv, EditsBounded, RequestInv,
      AwaitedInv, ReplyInv

\* The engine's part, for as long as the client and its calls stay as they are.
LEMMA PipeInvKept ==
    ASSUME PipeInv, SyncInv, UNCHANGED <<clientVars, req, asks, sent_at, call>>,
           EditsBounded', Len(active') \in Nat, Len(active') >= Len(active),
           \A k \in 1..Len(active) : active'[k] = active[k]
    PROVE  PipeInv'
<1>1. Len(active) \in Nat
  BY DEF SyncInv, Types
<1> QED
  BY <1>1 DEF PipeInv, RequestInv, AwaitedInv, ReplyInv, Client!InEvaluation, clientVars

\* The end of an evaluation leaves nothing to be said.
LEMMA PipeInvOver ==
    ASSUME PipeInv, phase' \notin {"calling", "backoff"}, UNCHANGED <<asks, edits>>
    PROVE  PipeInv'
  BY DEF PipeInv, EditsBounded, RequestInv, AwaitedInv, ReplyInv, Client!InEvaluation

LEMMA SendKeeps ==
    ASSUME PipeInv, SyncInv, NEW r \in Requests, NEW a \in Calls,
           Client!Send(a), Sent(r), req' = r
    PROVE  PipeInv'
<1>1. /\ phase' = "calling" /\ attempt' = a /\ reply' = None
      /\ asks' = [asks EXCEPT ![a] = r] /\ DOMAIN asks = Calls
      /\ call' = [call EXCEPT ![a] = NoCall] /\ DOMAIN call = Calls
      /\ sent_at' = Len(active) /\ UNCHANGED <<active, edits>>
      /\ Len(active) \in Nat
  BY DEF PipeInv, RequestInv, SyncInv, Types, Client!Send, Sent, fileVars
<1>2. asks'[a] = r /\ call'[a].stage = "none"
  BY <1>1 DEF NoCall
<1>3. None # "allow"
  BY PipelineAssumption DEF Client!Verdicts
<1> QED
  BY <1>1, <1>2, <1>3 DEF PipeInv, EditsBounded, RequestInv, AwaitedInv, ReplyInv
LEMMA NextClient ==
    ASSUME PipeInv, SyncInv,
           (\E r \in Requests : Ask(r)) \/ AskAgain \/ Refuse \/ ClientStep \/ Acted \/ ChannelFails
    PROVE  PipeInv'
<1>1. ASSUME NEW r \in Requests, Ask(r) PROVE PipeInv'
  <2>1. 1 \in Calls
    BY PipelineAssumption DEF Client!max_attempts, Client!AtLeastOne
  <2>2. Client!Send(1) /\ Sent(r) /\ req' = r
    BY <1>1 DEF Ask, Client!Begin
  <2> QED
    BY <2>1, <2>2, SendKeeps
<1>2. CASE AskAgain
  <2>1. /\ Client!Send(attempt + 1) /\ Sent(req) /\ req' = req
        /\ phase = "backoff"
    BY <1>2 DEF AskAgain, Client!Resend
  <2>2. req \in Requests /\ attempt + 1 \in Calls
    BY <2>1, PipelineAssumption
    DEF PipeInv, RequestInv, Client!InEvaluation, Client!max_attempts, Client!AtLeastOne
  <2> QED
    BY <2>1, <2>2, SendKeeps
<1>3. CASE Refuse
  BY <1>3, PipeInvOver DEF Refuse, Client!Refuse, Client!Reject, Client!Return, vars, fileVars
<1>4. CASE ClientStep
  <2>1. CASE Client!Answered \/ Client!Fail
    BY <1>4, <2>1, PipeInvOver
    DEF ClientStep, Client!Answered, Client!Fail, Client!Return, vars, fileVars
  <2>2. CASE Client!Retry
    <3>1. /\ phase = "calling" /\ phase' = "backoff" /\ attempt < Client!max_attempts
          /\ UNCHANGED <<attempt, req, asks, sent_at, active, edits>>
      BY <1>4, <2>2 DEF ClientStep, Client!Retry, Client!CanRetry, Client!TimedOut,
          Client!InEvaluation, vars, fileVars
    <3> QED
      BY <3>1 DEF PipeInv, EditsBounded, RequestInv, AwaitedInv, ReplyInv, Client!InEvaluation
  <2>3. CASE Client!Tick
    <3>1. /\ UNCHANGED <<phase, attempt, reply, req, asks, active, edits, call>>
          /\ Client!InEvaluation => UNCHANGED sent_at
      BY <1>4, <2>3 DEF ClientStep, Client!Tick, Client!InEvaluation, vars, fileVars
    <3> QED
      BY <3>1 DEF PipeInv, EditsBounded, RequestInv, AwaitedInv, ReplyInv, Client!InEvaluation
  <2> QED
    BY <1>4, <2>1, <2>2, <2>3 DEF ClientStep
<1>5. CASE Acted
  BY <1>5, PipeInvOver DEF Acted, Client!Done, vars, fileVars
<1>6. CASE ChannelFails
  <2>1. /\ reply' # "allow"
        /\ UNCHANGED <<phase, attempt, req, asks, sent_at, active, edits, call>>
    BY <1>6 DEF ChannelFails, Client!ServerReply, vars, fileVars
  <2> QED
    BY <2>1 DEF PipeInv, EditsBounded, RequestInv, AwaitedInv, ReplyInv, Client!InEvaluation
<1> QED
  BY <1>1, <1>2, <1>3, <1>4, <1>5, <1>6

LEMMA NextCall ==
    ASSUME PipeInv, SyncInv, CallInv, NEW c \in Calls,
           Arrives(c) \/ Evaluates(c) \/ Delivered(c) \/ Dropped(c)
    PROVE  PipeInv'
<1> USE DEF PipeInv, EditsBounded, RequestInv, AwaitedInv, ReplyInv, Client!InEvaluation
<1>1. DOMAIN call = Calls /\ Len(active) \in Nat
  BY DEF SyncInv, Types
<1>2. UNCHANGED <<phase, attempt, req, sent_at, active, edits>>
  BY DEF Arrives, Evaluates, Delivered, Dropped, Arrive, Snapshot, Respond, Forget, clientVars,
      Client!ServerReply, fileVars
<1>3. CASE Arrives(c)
  <2>1. /\ asks[c] # None /\ UNCHANGED <<asks, reply>>
        /\ call'[c].since = Len(active)
        /\ \A b \in Calls \ {c} : call'[b] = call[b]
    BY <1>1, <1>3 DEF Arrives, Arrive, clientVars
  <2> QED
    BY <1>1, <1>2, <2>1
<1>4. CASE Evaluates(c)
  <2>1. /\ UNCHANGED <<asks, reply>>
        /\ call[c].stage # "none" /\ call'[c].since = call[c].since
        /\ \A b \in Calls \ {c} : call'[b] = call[b]
    <3>1. UNCHANGED <<asks, reply>> /\ call[c].stage # "none"
      BY <1>4 DEF Evaluates, Snapshot, Respond, clientVars
    <3>2. CASE Snapshot(c)
      BY <1>1, <3>1, <3>2 DEF Snapshot
    <3>3. CASE Respond(c)
      BY <1>1, <3>1, <3>3 DEF Respond
    <3> QED
      BY <1>4, <3>2, <3>3 DEF Evaluates
  <2> QED
    BY <1>2, <2>1
<1>5. CASE Delivered(c)
  <2>1. /\ phase = "calling" /\ c = attempt
        /\ call[c].stage = "responded"
        /\ reply' = Decision(c)
        /\ asks'[c] = None /\ call'[c].stage = "none"
        /\ DOMAIN asks' = Calls
    BY <1>1, <1>5 DEF Delivered, Awaited, Forget, Client!ServerReply
  <2>2. ASSUME reply' = "allow"
        PROVE  \E k \in 1..Len(active) : k >= sent_at /\ req \in Allows[active[k]]
    <3>1. asks[c] = req /\ call[c].since >= sent_at /\ sent_at \in Nat
      BY <1>1, <2>1
    <3>2. PICK k \in call[c].since..Len(active) : active[k] = call[c].snapshot
      BY <2>1 DEF CallInv
    <3>3. call[c].since \in 1..Len(active)
      BY <2>1 DEF CallInv
    <3>4. req \in Allows[active[k]]
      BY <2>1, <2>2, <3>1, <3>2 DEF Decision
    <3> QED
      BY <1>1, <3>1, <3>2, <3>3, <3>4
  <2> QED
    BY <1>2, <2>1, <2>2
<1>6. CASE Dropped(c)
  <2>1. /\ ~(phase = "calling" /\ c = attempt) /\ UNCHANGED reply
        /\ \A b \in Calls \ {c} : call'[b] = call[b] /\ asks'[b] = asks[b]
        /\ DOMAIN asks' = Calls
    BY <1>1, <1>6 DEF Dropped, Awaited, Forget, clientVars
  <2> QED
    BY <1>2, <2>1
<1> QED
  BY <1>3, <1>4, <1>5, <1>6

LEMMA NextEngine ==
    ASSUME PipeInv, SyncInv,
           Edits \/ Boots \/ Polls \/ Loads \/ LoadsNot \/ Swaps
    PROVE  /\ PipeInv'
           /\ active' = active \/ \E d : active' = Append(active, d)
<1>1. UNCHANGED <<clientVars, req, asks, sent_at>>
  BY DEF Edits, Boots, Polls, Loads, LoadsNot, Swaps, EngineStep
<1>2. Len(active) \in Nat /\ active \in Seq(Nat)
  BY DEF SyncInv, Types
<1>3. CASE Edits
  BY <1>1, <1>2, <1>3, PipeInvKept, ReloadAssumption
  DEF Edits, EngineStep, Edit, Delete, PipeInv, EditsBounded, SyncInv, Types
<1>4. CASE Boots
  <2>1. CASE Boot
    <3>1. /\ active = <<>> /\ active' = Append(active, doc)
          /\ UNCHANGED <<call, edits>>
      BY <2>1 DEF Boot, SyncInv, Loaded, Running, fileVars
    <3> QED
      BY <1>1, <1>2, <3>1, PipeInvKept DEF PipeInv, EditsBounded
  <2>2. CASE BootFails
    BY <1>1, <1>2, <2>2, PipeInvKept DEF BootFails, PipeInv, EditsBounded, fileVars
  <2> QED
    BY <1>4, <2>1, <2>2 DEF Boots, EngineStep
<1>5. CASE Polls \/ Loads \/ LoadsNot
  BY <1>1, <1>2, <1>5, PipeInvKept
  DEF Polls, Loads, LoadsNot, EngineStep, FirstStat, Poll, Load, LoadFails, PipeInv,
      EditsBounded, fileVars
<1>6. CASE Swaps
  <2>1. active' = Append(active, incoming) /\ incoming \in Nat /\ UNCHANGED <<call, edits>>
    BY <1>6 DEF Swaps, EngineStep, Swap, SyncInv, Loaded, fileVars
  <2>2. Len(active') = Len(active) + 1 /\ \A k \in 1..Len(active) : active'[k] = active[k]
    BY <1>2, <2>1
  <2> QED
    BY <1>1, <1>2, <2>1, <2>2, PipeInvKept DEF PipeInv, EditsBounded
<1> QED
  BY <1>3, <1>4, <1>5, <1>6
LEMMA NextPipe == PipeInv /\ SyncInv /\ CallInv /\ [PipelineNext]_pipelineVars => PipeInv'
<1> SUFFICES ASSUME PipeInv, SyncInv, CallInv, [PipelineNext]_pipelineVars PROVE PipeInv'
  OBVIOUS
<1>1. CASE UNCHANGED pipelineVars
  BY <1>1 DEF pipelineVars, vars, fileVars, clientVars, PipeInv, EditsBounded, RequestInv,
      AwaitedInv, ReplyInv, Client!InEvaluation
<1> QED
  BY <1>1, NextClient, NextCall, NextEngine DEF PipelineNext

LEMMA PipeInvHolds == PipelineSpec => [](PipeInv /\ SyncInv /\ CallInv)
  BY InitPipe, NextPipe, EngineInvHolds, PTL DEF PipelineSpec

\* Also with the client's calls, the reload task never takes an unread edit for
\* one it has loaded, and every call is decided by a document that was current
\* while it was in the engine.
THEOREM PipelineReloads == PipelineSpec => [](SkipMeansLoaded /\ DecisionFresh)
<1>1. SyncInv => SkipMeansLoaded
  BY DEF SyncInv, Loaded, Running, CurrentMatches, SkipMeansLoaded, UpToDate, file_modified_time
<1>2. CallInv => DecisionFresh
  BY DEF CallInv, DecisionFresh
<1> QED
  BY <1>1, <1>2, EngineInvHolds, PTL
-----------------------------------------------------------------------------
(* The refinement.                                                         *)

\* What the pipeline is to Authoriser.
Policy == PolicyOf(Len(active))
Asked == IF Client!InEvaluation THEN req ELSE None
Seen == IF Client!InEvaluation THEN {PolicyOf(k) : k \in sent_at..Len(active)} ELSE {}

LEMMA InitAuthoriser == PipelineInit => Contract!Init
  BY DEF PipelineInit, Init, Client!Init, Contract!Init, PolicyOf, AbstractVerdict,
      Client!InEvaluation

PoliciesTyped == \A k \in 0..Len(active) : PolicyOf(k) \in SUBSET Requests

LEMMA PolicyType == PipeInv /\ SyncInv => PoliciesTyped
<1> SUFFICES ASSUME PipeInv, SyncInv, NEW k \in 0..Len(active)
             PROVE  PolicyOf(k) \in SUBSET Requests
  BY DEF PoliciesTyped
<1>1. CASE k = 0
  BY <1>1 DEF PolicyOf
<1>2. CASE k # 0
  <2>1. k \in 1..Len(active) /\ active[k] \in Nat
    BY <1>2 DEF SyncInv, Types
  <2>2. active[k] <= doc /\ doc <= edits /\ edits <= MaxEdits
    BY <2>1 DEF PipeInv, EditsBounded, SyncInv, SeenBefore, Ordered
  <2>3. active[k] \in 0..MaxEdits
    BY <2>1, <2>2, ReloadAssumption DEF SyncInv, Types
  <2> QED
    BY <1>2, <2>3, PipelineAssumption DEF PolicyOf
<1> QED
  BY <1>1, <1>2

\* Neither the policy nor the evaluation nor its outcome changes.
LEMMA AuthoriserStutters ==
    ASSUME UNCHANGED active, Client!InEvaluation' <=> Client!InEvaluation,
           Client!InEvaluation => UNCHANGED <<req, sent_at>>,
           AbstractVerdict' = AbstractVerdict
    PROVE  UNCHANGED Contract!vars
<1>1. Policy' = Policy /\ \A k : PolicyOf(k)' = PolicyOf(k)
  BY DEF Policy, PolicyOf
<1>2. Asked' = Asked /\ Seen' = Seen
  BY <1>1 DEF Asked, Seen
<1> QED
  BY <1>1, <1>2 DEF Contract!vars, Policy, Asked, Seen
\* An evaluation ends without a grant, or a request is refused before it began.
LEMMA AuthoriserDenies ==
    ASSUME UNCHANGED active, phase # "returned", phase' = "returned", verdict' # "allow"
    PROVE  Contract!Deny
<1>1. AbstractVerdict = None /\ AbstractVerdict' = "deny"
  BY DEF AbstractVerdict
<1>2. Policy' = Policy /\ Asked' = None /\ Seen' = {}
  BY DEF Policy, PolicyOf, Asked, Seen, Client!InEvaluation
<1> QED
  BY <1>1, <1>2 DEF Contract!Deny, Policy, Asked, Seen

\* An attempt is sent.
LEMMA AuthoriserAsks ==
    ASSUME PipeInv, SyncInv, NEW r \in Requests, NEW a, Client!Send(a), Sent(r), req' = r,
           phase \in {"idle", "backoff"}, phase = "backoff" => req = r
    PROVE  Contract!Ask \/ Contract!AskAgain
<1>1. AbstractVerdict = None /\ AbstractVerdict' = None
  BY DEF AbstractVerdict, Client!Send
<1>2. UNCHANGED active /\ Len(active) \in Nat /\ sent_at' = Len(active)
  BY DEF Sent, SyncInv, Types
<1>3. Policy' = Policy /\ Seen' = {Policy}
  <2>1. Seen' = {PolicyOf(k)' : k \in Len(active)..Len(active)}
    BY <1>2 DEF Seen, Client!InEvaluation, Client!Send
  <2>2. \A k : PolicyOf(k)' = PolicyOf(k)
    BY <1>2 DEF PolicyOf
  <2> QED
    BY <1>2, <2>1, <2>2 DEF Policy
<1>4. Asked' = r /\ r # None
  BY PipelineAssumption DEF Asked, Client!InEvaluation, Client!Send
<1>5. CASE phase = "idle"
  <2>1. Asked = None
    BY <1>5 DEF Asked, Client!InEvaluation
  <2> QED
    BY <1>1, <1>3, <1>4, <2>1 DEF Contract!Ask, Policy, Asked, Seen
<1>6. CASE phase = "backoff"
  <2>1. Asked = r
    BY <1>6 DEF Asked, Client!InEvaluation
  <2> QED
    BY <1>1, <1>3, <1>4, <2>1 DEF Contract!AskAgain, Policy, Asked, Seen
<1> QED
  BY <1>5, <1>6

LEMMA ClientImplements ==
    ASSUME PipeInv, SyncInv,
           (\E r \in Requests : Ask(r)) \/ AskAgain \/ Refuse \/ ClientStep \/ Acted \/ ChannelFails
    PROVE  [Contract!Next]_(Contract!vars)
<1> USE DEF Contract!Next
<1>1. ASSUME NEW r \in Requests, Ask(r) PROVE Contract!Next
  BY <1>1, AuthoriserAsks DEF Ask, Client!Begin
<1>2. CASE AskAgain
  <2>1. req \in Requests
    BY <1>2 DEF AskAgain, Client!Resend, PipeInv, RequestInv, Client!InEvaluation
  <2> QED
    BY <1>2, <2>1, AuthoriserAsks DEF AskAgain, Client!Resend
<1>3. CASE Refuse
  BY <1>3, AuthoriserDenies DEF Refuse, Client!Refuse, Client!Reject, Client!Return, vars
<1>4. CASE ClientStep
  <2>1. CASE Client!Answered
    <3>1. /\ phase = "calling" /\ phase' = "returned" /\ UNCHANGED active
          /\ verdict' = IF reply = "allow" THEN "allow" ELSE "deny"
      BY <1>4, <2>1 DEF ClientStep, Client!Answered, Client!Return, Client!map_grpc_decision, vars
    <3>2. CASE reply # "allow"
      BY <3>1, <3>2, AuthoriserDenies
    <3>3. CASE reply = "allow"
      <4>1. Asked = req /\ Asked # None
        BY <3>1, PipelineAssumption DEF Asked, PipeInv, RequestInv, Client!InEvaluation
      <4>2. \E p \in Seen : req \in p
        <5>1. PICK k \in 1..Len(active) : k >= sent_at /\ req \in Allows[active[k]]
          BY <3>1, <3>3 DEF PipeInv, ReplyInv
        <5>2. k \in sent_at..Len(active) /\ k # 0
          BY <3>1, <5>1 DEF PipeInv, RequestInv, Client!InEvaluation
        <5> QED
          BY <3>1, <5>1, <5>2 DEF Seen, PolicyOf, Client!InEvaluation
      <4>3. Policy' = Policy /\ Asked' = None /\ Seen' = {} /\ AbstractVerdict' = "allow"
        BY <3>1, <3>3 DEF Policy, PolicyOf, Asked, Seen, AbstractVerdict, Client!InEvaluation
      <4>4. Contract!Grant
        BY <4>1, <4>2, <4>3 DEF Contract!Grant, Policy, Asked, Seen
      <4> QED
        BY <4>4
    <3> QED
      BY <3>2, <3>3
  <2>2. CASE Client!Fail
    BY <1>4, <2>2, AuthoriserDenies DEF ClientStep, Client!Fail, Client!TimedOut, Client!Return, vars
  <2>3. CASE Client!Retry \/ Client!Tick
    <3>1. /\ UNCHANGED <<active, req>> /\ Client!InEvaluation' = Client!InEvaluation
          /\ Client!InEvaluation => UNCHANGED sent_at
          /\ AbstractVerdict' = AbstractVerdict
      BY <1>4, <2>3 DEF ClientStep, Client!Retry, Client!CanRetry, Client!TimedOut, Client!Tick,
          Client!InEvaluation, AbstractVerdict, vars
    <3> QED
      BY <3>1, AuthoriserStutters
  <2> QED
    BY <1>4, <2>1, <2>2, <2>3 DEF ClientStep
<1>5. CASE Acted
  <2>1. phase = "returned" /\ phase' = "idle" /\ UNCHANGED active
    BY <1>5 DEF Acted, Client!Done, vars
  <2>2. /\ AbstractVerdict # None /\ AbstractVerdict' = None
        /\ Policy' = Policy /\ Asked' = Asked /\ Seen' = Seen
    BY <2>1, PipelineAssumption
    DEF AbstractVerdict, Policy, PolicyOf, Asked, Seen, Client!InEvaluation, Client!Verdicts
  <2>3. Contract!Finish
    BY <2>2 DEF Contract!Finish, Policy, Asked, Seen
  <2> QED
    BY <2>3
<1>6. CASE ChannelFails
  <2>1. UNCHANGED <<active, req, sent_at, phase, verdict>>
    BY <1>6 DEF ChannelFails, Client!ServerReply, vars
  <2> QED
    BY <2>1, AuthoriserStutters DEF AbstractVerdict, Client!InEvaluation
<1> QED
  BY <1>1, <1>2, <1>3, <1>4, <1>5, <1>6

LEMMA EngineImplements ==
    ASSUME PipeInv, SyncInv, PipeInv', SyncInv',
           UNCHANGED <<clientVars, req, asks, sent_at>>,
           active' = active \/ \E d : active' = Append(active, d)
    PROVE  [Contract!Next]_(Contract!vars)
<1>1. UNCHANGED <<phase, verdict>>
  BY DEF clientVars
<1>2. CASE active' = active
  BY <1>1, <1>2, AuthoriserStutters DEF AbstractVerdict, Client!InEvaluation
<1>3. ASSUME NEW d, active' = Append(active, d) PROVE Contract!Change
  <2>1. /\ Len(active) \in Nat /\ Len(active') = Len(active) + 1
        /\ \A k \in 1..Len(active) : active'[k] = active[k]
    BY <1>3 DEF SyncInv, Types
  <2>2. AbstractVerdict' = AbstractVerdict /\ Asked' = Asked
    BY <1>1 DEF AbstractVerdict, Asked, Client!InEvaluation
  <2> DEFINE Then(k) == IF k = 0 THEN {} ELSE Allows[active'[k]]
  <2>3. \A k \in 0..Len(active) : PolicyOf(k) = Then(k)
    BY <2>1 DEF PolicyOf
  <2>4. Policy' \in SUBSET Requests
    <3>1. PoliciesTyped'
      BY PolicyType, PTL
    <3> QED
      BY <2>1, <3>1 DEF PoliciesTyped, Policy, PolicyOf
  <2>5. CASE ~Client!InEvaluation
    <3>1. Asked = None /\ Seen = {} /\ Seen' = {}
      BY <1>1, <2>5 DEF Asked, Seen, Client!InEvaluation
    <3> QED
      BY <2>2, <2>4, <3>1 DEF Contract!Change, Policy, Asked, Seen
  <2>6. CASE Client!InEvaluation
    <3>1. Asked # None
      BY <2>6, PipelineAssumption DEF Asked, PipeInv, RequestInv
    <3>2. sent_at \in 0..Len(active)
      BY <2>6 DEF PipeInv, RequestInv
    <3>3. Seen' = {Then(k) : k \in sent_at..(Len(active) + 1)}
      BY <1>1, <2>1, <2>6 DEF Seen, PolicyOf, Client!InEvaluation
    <3>4. Seen = {Then(k) : k \in sent_at..Len(active)}
      <4> HIDE DEF Then
      <4>1. \A k \in sent_at..Len(active) : PolicyOf(k) = Then(k)
        BY <2>1, <2>3, <3>2
      <4> QED
        BY <2>6, <4>1 DEF Seen
    <3>5. Policy' = Then(Len(active) + 1)
      BY <2>1 DEF Policy, PolicyOf
    <3>6. sent_at..(Len(active) + 1) = (sent_at..Len(active)) \cup {Len(active) + 1}
      BY <2>1, <3>2
    <3> HIDE DEF Then
    <3>7. Seen' = Seen \cup {Policy'}
      BY <3>3, <3>4, <3>5, <3>6
    <3> QED
      BY <2>2, <2>4, <3>1, <3>7 DEF Contract!Change, Policy, Asked, Seen
  <2> QED
    BY <2>5, <2>6
<1> QED
  BY <1>2, <1>3 DEF Contract!Next
LEMMA CallsImplement ==
    ASSUME NEW c \in Calls, Arrives(c) \/ Evaluates(c) \/ Delivered(c) \/ Dropped(c)
    PROVE  UNCHANGED Contract!vars
<1>1. UNCHANGED <<active, req, sent_at, phase, verdict>>
  BY DEF Arrives, Evaluates, Delivered, Dropped, Arrive, Snapshot, Respond, Forget, clientVars,
      Client!ServerReply
<1> QED
  BY <1>1, AuthoriserStutters DEF AbstractVerdict, Client!InEvaluation

\* llmd's client and the engine together, with their attempts, late answers, reloads
\* and breaker, grant a request only under a policy that was in force after it was
\* last sent, for any documents and any configuration.
THEOREM AuthoriserImplemented == PipelineSpec => ImplementsAuthoriser
<1>1. PipelineInit => Contract!Init
  BY InitAuthoriser
<1>2. /\ PipeInv /\ SyncInv /\ PipeInv' /\ SyncInv'
      /\ [PipelineNext]_pipelineVars
      => [Contract!Next]_(Contract!vars)
  <2> SUFFICES ASSUME PipeInv, SyncInv, PipeInv', SyncInv', [PipelineNext]_pipelineVars
               PROVE  [Contract!Next]_(Contract!vars)
    OBVIOUS
  <2>1. CASE Edits \/ Boots \/ Polls \/ Loads \/ LoadsNot \/ Swaps
    <3>1. UNCHANGED <<clientVars, req, asks, sent_at>>
      BY <2>1 DEF Edits, Boots, Polls, Loads, LoadsNot, Swaps, EngineStep
    <3> QED
      BY <2>1, <3>1, NextEngine, EngineImplements
  <2>2. CASE UNCHANGED pipelineVars
    BY <2>2, AuthoriserStutters
    DEF pipelineVars, vars, clientVars, AbstractVerdict, Client!InEvaluation
  <2> QED
    BY <2>1, <2>2, ClientImplements, CallsImplement DEF PipelineNext
<1> QED
  BY <1>1, <1>2, PipeInvHolds, PTL
  DEF PipelineSpec, ImplementsAuthoriser, Contract!Spec
=============================================================================
