-------------------------- MODULE DeploymentProofs --------------------------
(***************************************************************************)
(* Proofs about Deployment: what a command shows is true, whatever starts, *)
(* ends, hangs and takes an address while it runs.                         *)
(***************************************************************************)
EXTENDS Deployment, TLAPS

Waiting == {"get", "body", "connect", "call"}

Types == /\ stage \in {"idle", "done"} \cup Waiting
         /\ DOMAIN rows = Services
         /\ served \subseteq Services /\ faulted \subseteq Services

\* While a command runs, the history has what is the case now.
History == stage \in Waiting => Up \subseteq served /\ Services \ Up \subseteq faulted

\* A connection is lost only when the program at its other end went down.
LostIsFaulted == broken => /\ stage = "body" => "llmd" \in faulted
                           /\ stage = "call" => "policy-engine" \in faulted

\* What is shown up was up.
ShownWasUp == stage # "idle" => /\ rows["llmd"] = "healthy" => "llmd" \in served
                                /\ rows["policy-engine"] = "answered" => "policy-engine" \in served

\* What was up all the time until its row was made is shown up.
UpIsShown ==
    patient /\ valid =>
        /\ stage \in {"connect", "call", "done"} /\ command = "modules" /\ "llmd" \notin faulted
              => rows["llmd"] = "healthy"
        /\ stage = "done" /\ "policy-engine" \notin faulted
              => rows["policy-engine"] = "answered"

StatusInv == Types /\ History /\ LostIsFaulted /\ ShownWasUp /\ UpIsShown

LEMMA InitStatus == Init => StatusInv
  BY DeploymentAssumption
  DEF Init, StatusInv, Types, History, LostIsFaulted, ShownWasUp, UpIsShown, Waiting, Services

\* A new command has shown nothing, and its history begins with it.
LEMMA BeginsKeeps == StatusInv /\ Begins => StatusInv'
<1> SUFFICES ASSUME StatusInv, Begins PROVE StatusInv'
  OBVIOUS
<1>1. /\ stage' \in {"get", "connect"}
      /\ stage' = "connect" => command' # "modules"
      /\ rows' = [s \in Services |-> None]
      /\ broken' = FALSE
      /\ served' = Up' /\ faulted' = Services \ Up'
  BY DEF Begins, CommandStarts, Watch, Commands
<1>2. Up' \subseteq Services
  BY DEF Up
<1> QED
  BY <1>1, <1>2, DeploymentAssumption
  DEF StatusInv, Types, History, LostIsFaulted, ShownWasUp, UpIsShown, Waiting, Services

LEMMA OthersKeepCli ==
    World \/ MetricsBind \/ LlmdProgress \/ ProbeProgress => UNCHANGED cli
<1>1. World => UNCHANGED cli
  BY DEF World, EngineChanges, PortChanges, HolderHangs, LlmdStarts, LlmdKilled, LlmdGone
<1>2. MetricsBind => UNCHANGED cli
  BY DEF MetricsBind
<1>3. LlmdProgress => UNCHANGED cli
  BY DEF LlmdProgress, SinkOpens, SinkFails, LlmdGone, Connects, ConnectFails, Preflight, RequestEnds
<1>4. ProbeProgress => UNCHANGED cli
  BY DEF ProbeProgress, ProbeTicks, ProbeConnects, ProbeEnds
<1> QED
  BY <1>1, <1>2, <1>3, <1>4

\* What happens around a command that waits is written into its history.
LEMMA OthersKeep ==
    ASSUME StatusInv, UNCHANGED cli, Watched
    PROVE  StatusInv'
<1>0. UNCHANGED <<command, stage, patient, valid, rows>>
  BY DEF cli
<1>1. CASE stage \notin Waiting
  <2>1. UNCHANGED <<broken, served, faulted>>
    BY <1>1 DEF Watched, StatusInv, Types
  <2> QED
    BY <1>0, <1>1, <2>1
    DEF StatusInv, Types, History, LostIsFaulted, ShownWasUp, UpIsShown, Waiting
<1>2. CASE stage \in Waiting
  <2>1. /\ broken' = (broken \/ Lost)
        /\ served' = served \cup Up'
        /\ faulted' = faulted \cup (Services \ Up')
    BY <1>0, <1>2 DEF Watched, Watch, Waiting
  <2>2. Up' \subseteq Services
    BY DEF Up
  <2>3. LostIsFaulted'
    <3>1. ASSUME stage = "body", port' # port PROVE "llmd" \in faulted'
      BY <1>2, <2>1, <3>1 DEF StatusInv, History, Up, Services
    <3>2. ASSUME stage = "call", engine' = "down" PROVE "policy-engine" \in faulted'
      BY <2>1, <3>2 DEF Up, Services
    <3> QED
      BY <1>0, <2>1, <3>1, <3>2 DEF Lost, StatusInv, LostIsFaulted
  <2>4. Types' /\ History' /\ ShownWasUp' /\ UpIsShown'
    BY <1>0, <1>2, <2>1, <2>2
    DEF StatusInv, Types, History, ShownWasUp, UpIsShown, Waiting
  <2> QED
    BY <2>3, <2>4 DEF StatusInv
<1> QED
  BY <1>1, <1>2

\* A command changes nothing but what it shows.
LEMMA CliKeepsWorld == CliProgress => UNCHANGED <<engine, port, hung, command, patient, valid>>
  BY DEF CliProgress, InvalidEndpoint, Unreachable, GetTimesOut, Get, Body, BodyFails, Connected,
     ConnectionFails, Answered, CallFails, CallTimesOut, Goes, world

\* One row is shown, the other stays.
LEMMA ShowsRow ==
    ASSUME DOMAIN rows = Services, NEW s \in Services, NEW status, Shows(s, status)
    PROVE  /\ DOMAIN rows' = Services
           /\ rows'[s] = status
           /\ \A t \in Services \ {s} : rows'[t] = rows[t]
  BY DEF Shows

\* Every step of a command leaves the rows or shows the one of the service that it
\* has waited for, and what it shows follows from what is the case or was.
LEMMA Steps ==
    ASSUME StatusInv, CliProgress
    PROVE  \/ /\ stage = "get" /\ stage' = "body"
              /\ UNCHANGED rows
           \/ /\ stage = "connect" /\ stage' = "call"
              /\ UNCHANGED rows
           \/ \E status : /\ stage \in {"get", "body"} /\ stage' = "connect"
                          /\ Shows("llmd", status)
                          /\ status = "healthy" => "llmd" \in served
                          /\ patient /\ valid /\ "llmd" \notin faulted => status = "healthy"
           \/ \E status : /\ stage \in {"connect", "call"} /\ stage' = "done"
                          /\ Shows("policy-engine", status)
                          /\ status = "answered" => "policy-engine" \in served
                          /\ patient /\ valid /\ "policy-engine" \notin faulted => status = "answered"
<1> USE DEF StatusInv, History, Waiting, Up, Services, Goes
<1>1. ASSUME InvalidEndpoint \/ Unreachable \/ GetTimesOut
      PROVE  \E status : /\ stage = "get" /\ stage' = "connect"
                         /\ Shows("llmd", status)
                         /\ status # "healthy"
                         /\ ~(patient /\ valid /\ "llmd" \notin faulted)
  BY <1>1 DEF InvalidEndpoint, Unreachable, GetTimesOut
<1>2. ASSUME Get
      PROVE  \/ stage = "get" /\ stage' = "body" /\ UNCHANGED rows
             \/ /\ stage = "get" /\ stage' = "connect"
                /\ Shows("llmd", "unhealthy") /\ "llmd" \in faulted
  BY <1>2 DEF Get
<1>3. ASSUME Body
      PROVE  /\ stage = "body" /\ stage' = "connect"
             /\ Shows("llmd", PageStatus)
             /\ PageStatus = "healthy" => "llmd" \in served
             /\ "llmd" \notin faulted => PageStatus = "healthy"
  BY <1>3 DEF Body, PageStatus
<1>4. ASSUME BodyFails
      PROVE  /\ stage = "body" /\ stage' = "connect"
             /\ Shows("llmd", "unhealthy") /\ "llmd" \in faulted
  BY <1>4 DEF BodyFails, LostIsFaulted
<1>5. ASSUME Connected PROVE stage = "connect" /\ stage' = "call" /\ UNCHANGED rows
  BY <1>5 DEF Connected
<1>6. ASSUME ConnectionFails
      PROVE  /\ stage = "connect" /\ stage' = "done"
             /\ Shows("policy-engine", "error")
             /\ ~valid \/ "policy-engine" \in faulted
  BY <1>6 DEF ConnectionFails
<1>7. ASSUME Answered
      PROVE  /\ stage = "call" /\ stage' = "done"
             /\ Shows("policy-engine", "answered") /\ "policy-engine" \in served
  BY <1>7 DEF Answered
<1>8. ASSUME CallFails \/ CallTimesOut
      PROVE  /\ stage = "call" /\ stage' = "done"
             /\ Shows("policy-engine", "error")
             /\ ~patient \/ "policy-engine" \in faulted
  BY <1>8 DEF CallFails, CallTimesOut, LostIsFaulted
<1> QED
  BY <1>1, <1>2, <1>3, <1>4, <1>5, <1>6, <1>7, <1>8 DEF CliProgress

LEMMA CliKeeps ==
    ASSUME StatusInv, CliProgress, Watched
    PROVE  StatusInv'
<1>0. UNCHANGED <<engine, port, hung, command, patient, valid>>
  BY CliKeepsWorld
<1>1. stage \in Waiting /\ stage' # stage
  BY Steps DEF Waiting
<1>2. Up' = Up /\ Up \subseteq Services
  BY <1>0 DEF Up
<1>3. broken' = FALSE
  BY <1>1 DEF Watched, Waiting
<1>4. UNCHANGED <<served, faulted>>
  <2>1. served' = served \cup Up /\ faulted' = faulted \cup (Services \ Up)
    BY <1>1, <1>2 DEF Watched, Watch, Waiting
  <2> QED
    BY <1>1, <2>1 DEF StatusInv, History
<1>5. DOMAIN rows = Services
  BY DEF StatusInv, Types
<1>6. ASSUME UNCHANGED rows,
             \/ stage = "get" /\ stage' = "body"
             \/ stage = "connect" /\ stage' = "call"
      PROVE  StatusInv'
  BY <1>0, <1>2, <1>3, <1>4, <1>6
  DEF StatusInv, Types, History, LostIsFaulted, ShownWasUp, UpIsShown, Waiting
<1>7. ASSUME NEW status, stage \in {"get", "body"}, stage' = "connect",
             Shows("llmd", status),
             status = "healthy" => "llmd" \in served,
             patient /\ valid /\ "llmd" \notin faulted => status = "healthy"
      PROVE  StatusInv'
  <2>1. /\ DOMAIN rows' = Services
        /\ rows'["llmd"] = status /\ rows'["policy-engine"] = rows["policy-engine"]
    BY <1>5, <1>7, ShowsRow DEF Services
  <2> QED
    BY <1>0, <1>2, <1>3, <1>4, <1>7, <2>1
    DEF StatusInv, Types, History, LostIsFaulted, ShownWasUp, UpIsShown, Waiting
<1>8. ASSUME NEW status, stage \in {"connect", "call"}, stage' = "done",
             Shows("policy-engine", status),
             status = "answered" => "policy-engine" \in served,
             patient /\ valid /\ "policy-engine" \notin faulted => status = "answered"
      PROVE  StatusInv'
  <2>1. /\ DOMAIN rows' = Services
        /\ rows'["policy-engine"] = status /\ rows'["llmd"] = rows["llmd"]
    BY <1>5, <1>8, ShowsRow DEF Services
  <2> QED
    BY <1>0, <1>2, <1>3, <1>4, <1>8, <2>1
    DEF StatusInv, Types, History, LostIsFaulted, ShownWasUp, UpIsShown, Waiting
<1> QED
  BY Steps, <1>6, <1>7, <1>8

LEMMA NextStatus == StatusInv /\ [Next]_vars => StatusInv'
<1> SUFFICES ASSUME StatusInv, [Next]_vars PROVE StatusInv'
  OBVIOUS
<1>1. CASE Begins
  BY <1>1, BeginsKeeps
<1>2. CASE (World \/ MetricsBind \/ LlmdProgress \/ ProbeProgress) /\ Watched
  BY <1>2, OthersKeepCli, OthersKeep
<1>3. CASE CliProgress /\ Watched
  BY <1>3, CliKeeps
<1>4. CASE UNCHANGED vars
  <2>1. UNCHANGED <<engine, port, hung, command, stage, patient, valid, rows, broken, served, faulted>>
    BY <1>4 DEF vars, world, cli
  <2> QED
    BY <2>1 DEF StatusInv, Types, History, LostIsFaulted, ShownWasUp, UpIsShown, Up
<1> QED
  BY <1>1, <1>2, <1>3, <1>4 DEF Next, Continues

\* The inductive invariant of a command and the programs it asks.
THEOREM StatusInvHolds == Spec => []StatusInv
  BY InitStatus, NextStatus, PTL DEF Spec

\* llmos modules, policy check and policy health show the truth.
THEOREM StatusTruthfulHolds == Spec => []StatusTruthful
<1>1. StatusInv => StatusTruthful
  BY DEF StatusInv, ShownWasUp, UpIsShown, StatusTruthful
<1> QED
  BY <1>1, StatusInvHolds, PTL
=============================================================================
