----------------------------- MODULE Deployment -----------------------------
(***************************************************************************)
(* The programs of a deployment: the policy engine, llmd from the start of *)
(* its main (services/llmd/src/main.rs) with the task that serves its      *)
(* metrics and the one that probes the engine, and the operator's llmos    *)
(* commands that ask both (tools/llmos-cli: modules.rs, policy.rs).        *)
(*                                                                         *)
(* Each program is started, ended and hung from outside at any time.  What *)
(* is inside them is in modules of its own: here an engine that is up      *)
(* answers, and a request of llmd ends (BreakerRecovers, AllRequestsFinish).*)
(*                                                                         *)
(* A connect is made by the system: it is refused when nobody listens,     *)
(* succeeds on a hung program too, and ends by itself.  A call after it is *)
(* under the program's own timeout, which can also be zero.                *)
(***************************************************************************)
EXTENDS Naturals, FiniteSets

CONSTANTS StartupRequests,  \* how many requests llmd makes, 3 in the code
          None

ASSUME DeploymentAssumption == /\ StartupRequests \in Nat
                               /\ None \notin {"healthy", "answered"}

Services == {"policy-engine", "llmd"}
\* "policy" is policy check and policy health, which wait for the same things.
Commands == {"modules", "policy"}

VARIABLES engine,    \* the policy engine: "down", "up" or "hung"
          port,      \* who holds the address of llmd's metrics: "free", "llmd" or "other"
          hung,      \* its holder does not answer
          llmd,      \* where llmd's main is: see below
          server,    \* llmd's task that serves the metrics
          asked,     \* startup requests that have ended
          probe,     \* llmd's task that probes the engine
          interval,  \* LLMOS_POLICY_HEALTH_INTERVAL_SECS, 0 or more
          command,   \* the llmos command given last
          stage,     \* where it is: see below
          patient,   \* --timeout-secs is not zero
          valid,     \* its endpoints are well-formed
          broken,    \* the connection it waits on is lost
          rows,      \* the status it shows of each service, None before it has one
          served,    \* history: services that were up at some moment since it began
          faulted    \* services that were not: one that is up all the time answers in time

world == <<engine, port, hung>>
daemon == <<llmd, server, asked, probe, interval>>
cli == <<command, stage, patient, valid, rows>>
vars == <<world, daemon, cli, broken, served, faulted>>

\* llmd is "off", at the "sink" (before the audit sink is opened), at "connect",
\* "preflight", "requests" or "running".
\* A command is "idle", waits for the head of the metrics page ("get"), reads the page
\* ("body"), waits for the connection to the engine ("connect"), for its answer
\* ("call"), or is "done".

Up == {s \in Services : IF s = "llmd" THEN port = "llmd" /\ ~hung ELSE engine = "up"}

Init == /\ engine = "down"
        /\ port \in {"free", "other"}
        /\ hung = FALSE
        /\ llmd = "off" /\ server = "none" /\ probe = "none" /\ asked = 0
        /\ interval \in {0, 1}
        /\ command = None /\ stage = "idle" /\ patient = TRUE /\ valid = TRUE
        /\ rows = [s \in Services |-> None]
        /\ broken = FALSE
        /\ served = {} /\ faulted = {}
-----------------------------------------------------------------------------
(* The world around the commands.                                          *)

\* Also a restart, a crash, a stop by Ctrl-C, a pause and its end.
EngineChanges == /\ engine' \in {"down", "up", "hung"} \ {engine}
                 /\ engine = "down" => engine' = "up"
                 /\ UNCHANGED <<port, hung, daemon, cli>>

\* Another program takes the address, or lets go of it.
PortChanges == /\ \/ port = "free" /\ port' = "other"
                  \/ port = "other" /\ port' = "free"
               /\ hung' = FALSE
               /\ UNCHANGED <<engine, daemon, cli>>

HolderHangs == /\ port # "free"
               /\ hung' = ~hung
               /\ UNCHANGED <<engine, port, daemon, cli>>

\* llmd's process is gone, and its tasks and sockets with it.
LlmdGone == /\ llmd' = "off" /\ server' = "none" /\ probe' = "none" /\ asked' = 0
            /\ IF port = "llmd" THEN port' = "free" /\ hung' = FALSE ELSE UNCHANGED <<port, hung>>
            /\ UNCHANGED <<engine, interval, cli>>

\* Ctrl-C, whether main waits for it already or not, and a crash.
LlmdKilled == llmd # "off" /\ LlmdGone
-----------------------------------------------------------------------------
(* llmd.  A hung process stands still.                                     *)

LlmdRuns == ~(port = "llmd" /\ hung)

LlmdStarts == /\ llmd = "off"
              /\ llmd' = "sink"
              /\ server' = "starting"
              /\ UNCHANGED <<world, asked, probe, interval, cli>>

\* Server::bind panics when the address is taken: the task ends, main goes on.
MetricsBind == /\ server = "starting"
               /\ IF port = "free" THEN server' = "bound" /\ port' = "llmd"
                                   ELSE server' = "dead" /\ UNCHANGED port
               /\ UNCHANGED <<engine, hung, llmd, asked, probe, interval, cli>>

SinkOpens == /\ llmd = "sink" /\ LlmdRuns
             /\ llmd' = "connect"
             /\ UNCHANGED <<world, server, asked, probe, interval, cli>>

\* Only the JSONL sink can fail to open, and main returns the error.
SinkFails == llmd = "sink" /\ LlmdRuns /\ LlmdGone

\* connect_with_config.
Connects == /\ llmd = "connect" /\ LlmdRuns
            /\ engine # "down"
            /\ llmd' = "preflight"
            /\ UNCHANGED <<world, server, asked, probe, interval, cli>>

ConnectFails == llmd = "connect" /\ LlmdRuns /\ engine # "up" /\ LlmdGone

\* A mutant: the check is not under a timeout.
MutTimerExpiresNever == FALSE

\* The timeout around check: however long the engine takes, it comes.
TimerExpires == TRUE

\* check_policy_health ends, answered or not.
CheckEnds == engine # "hung" \/ TimerExpires

\* What the check found is logged only.  The probing task is spawned after it; its
\* first tick is at once, and an interval of zero panics in it.
Preflight == /\ llmd = "preflight" /\ LlmdRuns /\ CheckEnds
             /\ llmd' = "requests"
             /\ probe' = IF interval = 0 THEN "dead" ELSE "waiting"
             /\ UNCHANGED <<world, server, asked, interval, cli>>

\* process_action ends, allowed or not, and llmd goes on with the next request.
RequestEnds == /\ llmd = "requests" /\ LlmdRuns
               /\ IF asked < StartupRequests THEN asked' = asked + 1 /\ UNCHANGED llmd
                                             ELSE llmd' = "running" /\ UNCHANGED asked
               /\ UNCHANGED <<world, server, probe, interval, cli>>

ProbeTicks == /\ probe = "waiting" /\ LlmdRuns
              /\ probe' = "connecting"
              /\ UNCHANGED <<world, llmd, server, asked, interval, cli>>

\* The connection is refused, or made.
ProbeConnects == /\ probe = "connecting" /\ LlmdRuns
                 /\ \/ engine # "up" /\ probe' = "waiting"
                    \/ engine # "down" /\ probe' = "checking"
                 /\ UNCHANGED <<world, llmd, server, asked, interval, cli>>

\* A mutant: an error leaves the loop.
MutProbeEndsOnce == /\ probe = "checking" /\ LlmdRuns /\ CheckEnds
                    /\ probe' = IF engine = "up" THEN "waiting" ELSE "dead"
                    /\ UNCHANGED <<world, llmd, server, asked, interval, cli>>

ProbeEnds == /\ probe = "checking" /\ LlmdRuns /\ CheckEnds
             /\ probe' = "waiting"
             /\ UNCHANGED <<world, llmd, server, asked, interval, cli>>
-----------------------------------------------------------------------------
(* The llmos commands.                                                     *)

CommandStarts == /\ stage \in {"idle", "done"}
                 /\ command' \in Commands
                 /\ stage' = IF command' = "modules" THEN "get" ELSE "connect"
                 /\ patient' \in BOOLEAN /\ valid' \in BOOLEAN
                 /\ rows' = [s \in Services |-> None]
                 /\ UNCHANGED <<world, daemon>>

\* A step of a command.
Goes(from, to) == /\ stage = from /\ stage' = to
                  /\ UNCHANGED <<world, daemon, command, patient, valid>>

Shows(service, status) == rows' = [rows EXCEPT ![service] = status]

\* probe_llmd_metrics up to the head of the response: connecting is under the timeout.
InvalidEndpoint == ~valid /\ Goes("get", "connect") /\ Shows("llmd", "invalid-endpoint")
Unreachable == valid /\ Goes("get", "connect") /\ port = "free" /\ Shows("llmd", "unreachable")

GetTimesOut == /\ valid /\ Goes("get", "connect")
               /\ "llmd" \in faulted \/ ~patient
               /\ Shows("llmd", "timeout")

\* Another program may answer 404, and any page.
Get == /\ valid /\ port # "free" /\ ~hung
       /\ \/ Goes("get", "body") /\ UNCHANGED rows
          \/ port = "other" /\ Goes("get", "connect") /\ Shows("llmd", "unhealthy")

\* A mutant: any page will do.
MutPageStatusOfAny == "healthy"

\* Only llmd's page has the counter that is looked for.
PageStatus == IF port = "llmd" THEN "healthy" ELSE "unhealthy"

\* The rest of the page is read outside the timeout.
Body == /\ Goes("body", "connect")
        /\ ~broken /\ ~hung
        /\ Shows("llmd", PageStatus)

BodyFails == /\ Goes("body", "connect")
             /\ broken
             /\ Shows("llmd", "unhealthy")

\* fetch_policy_health and run_policy_check: modules shows an error as a row, and the
\* other commands end with it.
Connected == valid /\ Goes("connect", "call") /\ engine # "down" /\ UNCHANGED rows

ConnectionFails == /\ Goes("connect", "done")
                   /\ ~valid \/ engine # "up"
                   /\ Shows("policy-engine", "error")

\* A health check is answered SERVING, an evaluation with a decision.
Answered == /\ Goes("call", "done")
            /\ engine = "up"
            /\ Shows("policy-engine", "answered")

CallFails == /\ Goes("call", "done")
             /\ broken
             /\ Shows("policy-engine", "error")

\* A mutant: the call has no timeout.
MutCallTimesOutNever == FALSE

CallTimesOut == /\ Goes("call", "done")
                /\ "policy-engine" \in faulted \/ ~patient
                /\ Shows("policy-engine", "error")

-----------------------------------------------------------------------------
World == EngineChanges \/ PortChanges \/ HolderHangs \/ LlmdStarts \/ LlmdKilled

LlmdProgress == \/ SinkOpens \/ SinkFails \/ Connects \/ ConnectFails
                \/ Preflight \/ RequestEnds

ProbeProgress == ProbeTicks \/ ProbeConnects \/ ProbeEnds

CliProgress == \/ InvalidEndpoint \/ Unreachable \/ GetTimesOut \/ Get
               \/ Body \/ BodyFails \/ Connected \/ ConnectionFails
               \/ Answered \/ CallFails \/ CallTimesOut

\* The history of a command begins with it and ends with it, and so does what the
\* command cannot know of its connection until it reads from it.
Watch(seenUp, seenFaulted) == /\ served' = seenUp \cup Up'
                              /\ faulted' = seenFaulted \cup (Services \ Up')

Lost == \/ stage = "body" /\ port' # port
        \/ stage = "call" /\ engine' = "down"

Watched == IF stage \in {"idle", "done"}
           THEN UNCHANGED <<broken, served, faulted>>
           ELSE /\ broken' = (stage' = stage /\ (broken \/ Lost))
                /\ Watch(served, faulted)

Begins == CommandStarts /\ broken' = FALSE /\ Watch({}, {})
Continues == (World \/ MetricsBind \/ LlmdProgress \/ ProbeProgress \/ CliProgress) /\ Watched

Next == Begins \/ Continues

Spec == Init /\ [][Next]_vars

\* What can go on does, and a program that was hung goes on where it was.  Nothing is
\* assumed of the world.
Fairness == /\ WF_vars(MetricsBind /\ Watched)
            /\ SF_vars(LlmdProgress /\ Watched)
            /\ SF_vars(ProbeProgress /\ Watched)
            /\ WF_vars(CliProgress /\ Watched)
            /\ SF_vars(Body /\ Watched)

FairSpec == Spec /\ Fairness
-----------------------------------------------------------------------------
(* Properties.                                                             *)

\* A status that an operator is shown is true: what is healthy or answered was up while
\* the command ran, and what was up all the time is shown so by a command that waits at
\* all.  llmd is up when it serves its metrics: one that could not bind is not seen.
StatusTruthful ==
    stage = "done" =>
        /\ rows["llmd"] = "healthy" => "llmd" \in served
        /\ rows["policy-engine"] = "answered" => "policy-engine" \in served
        /\ patient /\ valid =>
              /\ command = "modules" /\ "llmd" \notin faulted => rows["llmd"] = "healthy"
              /\ "policy-engine" \notin faulted => rows["policy-engine"] = "answered"

\* Every command ends, whatever hangs: unless the program behind llmd's address hangs
\* for good between the head and the rest of its page (modules.rs:95 has no timeout).
CommandEnds == <>[](stage = "body" /\ hung) \/ [](stage # "idle" => <>(stage = "done"))

\* llmd comes up or exits, also when the engine hangs under its preflight check and
\* its requests: unless it is hung itself.
StartupEnds == <>[](~LlmdRuns) \/ [](llmd = "sink" => <>(llmd \in {"running", "off"}))

\* llmd goes on probing the engine as long as it runs, whatever the engine does: if
\* the interval is not zero, which ends the task with a panic (main.rs:155-156).
ProbeKeepsGoing ==
    \/ <>[](~LlmdRuns)
    \/ [](llmd = "running" /\ interval > 0 =>
              /\ <>(probe = "connecting" \/ llmd = "off")
              /\ <>(probe = "waiting" \/ llmd = "off"))
=============================================================================
