----------------------------- MODULE McpRuntime -----------------------------
(***************************************************************************)
(* services/mcp-runtime: RuntimeManager starts, stops and restarts plugin  *)
(* processes, driven by run_runtime (main.rs) from admin commands, Ctrl-C  *)
(* and the end of its input.                                               *)
(*                                                                         *)
(* run_runtime handles one command at a time and awaits only in            *)
(* stop_process; start has no await.  The processes are on their own: they *)
(* exit when they like, and a killed one exits when the system lets it.    *)
(* A task of its own reads lines and sends them over a bounded channel;    *)
(* what a line says is decided when it is taken from there.                *)
(*                                                                         *)
(* tokio reads standard input with a blocking read on a thread that cannot *)
(* be cancelled, and a program that returns from main waits for it.        *)
(* ctrl_c() is listened to only in select!: one that comes earlier ends    *)
(* the program, one during a command is dropped and does nothing here.     *)
(***************************************************************************)
EXTENDS Naturals, Sequences, FiniteSets, Sandbox

CONSTANTS NumPlugins,  \* manifests loaded; ids are sorted, so numbers
          Declared,    \* the capabilities each manifest declares
          Autostart,   \* the --autostart flag
          MaxSpawns,   \* bound: processes ever spawned
          QueueSize,   \* the capacity of the command channel, 64 in the code
          None

Plugins == 1..NumPlugins
UnknownId == 0
Ids == Plugins \cup {UnknownId}
\* What parse_manifest_json lets through.
Manifests == [Plugins -> SUBSET Capability \ {{}}]

ASSUME McpAssumption == /\ NumPlugins \in Nat
                        /\ MaxSpawns \in Nat /\ MaxSpawns >= NumPlugins
                        /\ QueueSize \in Nat \ {0}
                        /\ Declared \in Manifests
                        /\ Autostart \in BOOLEAN
                        /\ None \notin Nat
                        /\ None \notin {resolve_sandbox(c) : c \in SUBSET Capability}

VARIABLES procs,            \* procs[pid]: the processes ever spawned, see spawn_process
          running,          \* RuntimeManager::running, a plugin's pid or None
          sandbox_configs,  \* RuntimeManager::sandbox_configs, None where it has no entry
          stage,            \* where run_runtime is: see below
          todo,             \* ids left of start_all or stop_all
          target,           \* the id being stopped
          victim,           \* the pid stop_process waits for
          then,             \* where it goes on after the stop
          failed,           \* run_runtime returned an error, or was cut off
          queued,           \* how many lines are in the channel
          reader,           \* what the reading task is doing
          gone              \* the program has ended

manager == <<running, sandbox_configs>>
control == <<stage, todo, target, victim, then, failed>>
input == <<queued, reader, gone>>
vars == <<procs, manager, control, input>>

\* "autostart": in start_all.  "idle": in select!.  "stopping": awaiting the
\* exit of a killed process.  "restart": between the halves of restart.
\* "shutdown": in stop_all.
\* The reader is "none" before it is spawned, "reading" in the blocking read,
\* "sending" when the channel is full, "ended" at the end of the input, or when
\* it was dropped with the runtime.

\* "exited" processes are zombies until try_wait or wait reaps them.
Live == {pid \in DOMAIN procs : procs[pid].status # "exited"}
LiveOf(p) == {pid \in Live : procs[pid].plugin = p}
Least(S) == CHOOSE n \in S : \A k \in S : n <= k

Init == /\ procs = <<>>
        /\ running = [p \in Plugins |-> None]
        /\ sandbox_configs = [p \in Plugins |-> None]
        /\ stage = "autostart"
        /\ todo = IF Autostart THEN Plugins ELSE {}
        /\ target = None
        /\ victim = None
        /\ then = "idle"
        /\ failed = FALSE
        /\ queued = 0
        /\ reader = "none"
        /\ gone = FALSE
-----------------------------------------------------------------------------
(* RuntimeManager.                                                         *)

\* reconcile_exited: running without the processes that have exited.
Reconciled == [p \in Plugins |-> IF running[p] \in Live THEN running[p] ELSE None]

\* What start(id) may come to.
AlreadyRunning(id) == id \in Plugins /\ Reconciled[id] # None
StartRunning(id) == /\ AlreadyRunning(id)
                    /\ running' = Reconciled
                    /\ UNCHANGED <<procs, sandbox_configs>>

\* sandbox_configs after the insert of start.
Configured(id) == [sandbox_configs EXCEPT ![id] = resolve_sandbox(Declared[id])]

\* spawn_process sees the manifest alone and applies no sandbox: a shell with its
\* standard streams set.
spawn_process(id) == [plugin |-> id, status |-> "alive"]

\* A mutant: the second half of a restart takes the configuration for granted.
MutSpawnKeepsConfig(id) == /\ id \in Plugins /\ ~AlreadyRunning(id)
             /\ procs' = Append(procs, spawn_process(id))
             /\ running' = [Reconciled EXCEPT ![id] = Len(procs) + 1]
             /\ sandbox_configs' = IF stage = "restart" THEN sandbox_configs ELSE Configured(id)

Spawn(id) == /\ id \in Plugins /\ ~AlreadyRunning(id)
             /\ procs' = Append(procs, spawn_process(id))
             /\ running' = [Reconciled EXCEPT ![id] = Len(procs) + 1]
             /\ sandbox_configs' = Configured(id)

StartOk(id) == StartRunning(id) \/ Spawn(id)

\* An unknown id, or a process that cannot be spawned; the sandbox was resolved
\* before the attempt.
StartErr(id) == /\ ~AlreadyRunning(id)
                /\ running' = Reconciled
                /\ sandbox_configs' = IF id \in Plugins THEN Configured(id) ELSE sandbox_configs
                /\ UNCHANGED procs

\* stop(id), up to the await in stop_process.
NothingToStop(id) == ~AlreadyRunning(id)
Kill(id) == /\ ~NothingToStop(id)
            /\ running' = [Reconciled EXCEPT ![id] = None]
            /\ victim' = Reconciled[id]
            /\ target' = id
            /\ procs' = [procs EXCEPT ![Reconciled[id]].status = "killed"]
            /\ stage' = "stopping"
            /\ UNCHANGED <<sandbox_configs, failed>>

\* The `?` after the manager's call: run_runtime returns.  Nothing is stopped,
\* and dropping a Child does not kill it.
Abort == /\ stage' = "exited"
         /\ failed' = TRUE
         /\ todo' = {}
         /\ target' = None
         /\ victim' = None
         /\ then' = "idle"
-----------------------------------------------------------------------------
(* run_runtime.                                                            *)

StartAll == /\ stage = "autostart" /\ todo # {}
            /\ StartOk(Least(todo))
            /\ todo' = todo \ {Least(todo)}
            /\ UNCHANGED <<stage, target, victim, then, failed, input>>

StartAllErr == /\ stage = "autostart" /\ todo # {}
               /\ StartErr(Least(todo))
               /\ Abort
               /\ UNCHANGED input

StartAllDone == /\ stage = "autostart" /\ todo = {}
                /\ stage' = "idle"
                /\ reader' = "reading"
                /\ UNCHANGED <<procs, manager, todo, target, victim, then, failed,
                               queued, gone>>

\* Nobody listens to the signal yet.
Interrupted == /\ stage = "autostart"
               /\ Abort
               /\ gone' = TRUE
               /\ UNCHANGED <<procs, manager, queued, reader>>

\* The commands, each with the line it came in; see Command.
Start(id) == /\ stage = "idle"
             /\ Len(procs) < MaxSpawns
             /\ StartOk(id)
             /\ UNCHANGED control

\* Also restart(id) when nothing was there to be stopped.
StartFails(id) == /\ stage = "idle"
                  /\ StartErr(id)
                  /\ Abort

Stop(id) == /\ stage = "idle"
            /\ Kill(id)
            /\ then' = "idle"
            /\ UNCHANGED todo

StopNothing(id) == /\ stage = "idle"
                   /\ NothingToStop(id)
                   /\ running' = Reconciled
                   /\ UNCHANGED <<procs, sandbox_configs, control>>

\* restart is stop followed by start.
Restart(id) == /\ stage = "idle"
               /\ Len(procs) < MaxSpawns
               /\ Kill(id)
               /\ then' = "restart"
               /\ UNCHANGED todo

RestartStopped(id) == /\ stage = "idle"
                      /\ Len(procs) < MaxSpawns
                      /\ NothingToStop(id)
                      /\ Spawn(id)
                      /\ UNCHANGED control

List == /\ stage = "idle"
        /\ running' = Reconciled
        /\ UNCHANGED <<procs, sandbox_configs, control>>

\* help, and a line that parse_admin_command does not take: a warning.
HelpOrMalformed == /\ stage = "idle"
                   /\ UNCHANGED <<procs, manager, control>>

\* The loop is left: stop_all takes the ids of running.
Quit == /\ stage = "idle"
        /\ stage' = "shutdown"
        /\ todo' = {p \in Plugins : running[p] # None}
        /\ UNCHANGED <<procs, manager, target, victim, then, failed>>

StopAll == /\ stage = "shutdown" /\ todo # {}
           /\ Kill(Least(todo))
           /\ todo' = todo \ {Least(todo)}
           /\ then' = "shutdown"
           /\ UNCHANGED input

\* The next id's process has exited by itself since.
StopAllSkip == /\ stage = "shutdown" /\ todo # {}
               /\ NothingToStop(Least(todo))
               /\ running' = Reconciled
               /\ todo' = todo \ {Least(todo)}
               /\ UNCHANGED <<procs, sandbox_configs, stage, target, victim, then, failed,
                              input>>

StopAllDone == /\ stage = "shutdown" /\ todo = {}
               /\ stage' = "exited"
               /\ UNCHANGED <<procs, manager, todo, target, victim, then, failed, input>>

\* stop_process: the killed process is gone in time.
Stopped == /\ stage = "stopping"
           /\ victim \notin Live
           /\ sandbox_configs' = [sandbox_configs EXCEPT ![target] = None]
           /\ stage' = then
           /\ victim' = None
           /\ target' = IF then = "restart" THEN target ELSE None
           /\ UNCHANGED <<procs, running, todo, then, failed, input>>

\* A mutant: the exit of the old process is not awaited.
MutRestartStartsEarly ==
                 /\ stage = "stopping" /\ then = "restart"
                 /\ Spawn(target)
                 /\ stage' = "idle"
                 /\ target' = None
                 /\ UNCHANGED <<todo, victim, then, failed, input>>

RestartStarts == /\ stage = "restart"
                 /\ Spawn(target)
                 /\ stage' = "idle"
                 /\ target' = None
                 /\ UNCHANGED <<todo, victim, then, failed, input>>

RestartFails == /\ stage = "restart"
                /\ StartErr(target)
                /\ Abort
                /\ UNCHANGED input

\* A mutant: the error is only logged, as those of malformed commands are.
MutStopTimesOutLogged == /\ stage = "stopping"
                /\ stage' = then
                /\ victim' = None
                /\ UNCHANGED <<procs, manager, todo, target, then, failed, input>>

\* A mutant: the exit is awaited without a timeout.
MutStopNeverTimesOut == FALSE /\ UNCHANGED vars

\* stop_process: STOP_TIMEOUT is over first (or the signal or the wait fails).
StopTimesOut == /\ stage = "stopping"
                /\ Abort
                /\ UNCHANGED <<procs, manager, input>>

\* External: a process exits, by itself or of the signal.
ProcessExits(pid) == /\ pid \in Live
                     /\ procs' = [procs EXCEPT ![pid].status = "exited"]
                     /\ UNCHANGED <<manager, control, input>>

-----------------------------------------------------------------------------
(* The input.                                                              *)

\* A line is taken from the channel.
Command == /\ queued > 0
           /\ queued' = queued - 1
           /\ \/ \E id \in Ids : \/ Start(id) \/ StartFails(id)
                                  \/ Stop(id) \/ StopNothing(id)
                                  \/ Restart(id) \/ RestartStopped(id)
              \/ List \/ HelpOrMalformed \/ Quit
           /\ UNCHANGED <<reader, gone>>

CtrlC == Quit /\ UNCHANGED input

\* The channel is empty and its sender is gone.
InputOver == /\ reader = "ended" /\ queued = 0
             /\ Quit
             /\ UNCHANGED input

\* A line is there; nobody wants it once run_runtime has returned.
LineRead == /\ reader = "reading"
            /\ \/ stage = "exited" /\ reader' = "ended" /\ UNCHANGED queued
               \/ /\ stage # "exited" /\ queued < QueueSize
                  /\ queued' = queued + 1
                  /\ UNCHANGED reader
               \/ /\ stage # "exited" /\ queued = QueueSize
                  /\ reader' = "sending"
                  /\ UNCHANGED queued
            /\ UNCHANGED <<procs, manager, control, gone>>

Sent == /\ reader = "sending" /\ queued < QueueSize
        /\ reader' = "reading"
        /\ queued' = queued + 1
        /\ UNCHANGED <<procs, manager, control, gone>>

EndOfInput == /\ reader = "reading"
              /\ reader' = "ended"
              /\ UNCHANGED <<procs, manager, control, queued, gone>>

\* A mutant: the program waits for the plugins' processes, too.
MutEndsAfterPlugins == /\ stage = "exited" /\ ~gone
                       /\ reader # "reading" /\ Live = {}
                       /\ gone' = TRUE
                       /\ UNCHANGED <<procs, manager, control, queued, reader>>

\* run_runtime has returned, and no read is in progress.
Ends == /\ stage = "exited" /\ ~gone
        /\ reader # "reading"
        /\ gone' = TRUE
        /\ UNCHANGED <<procs, manager, control, queued, reader>>

Gone == /\ gone
        /\ UNCHANGED vars

Progress == \/ StartAll \/ StartAllErr \/ StartAllDone
            \/ Stopped \/ StopTimesOut \/ RestartStarts \/ RestartFails
            \/ StopAll \/ StopAllSkip \/ StopAllDone
            \/ Ends

Next == \/ Interrupted \/ Progress
        \/ Command \/ CtrlC \/ InputOver
        \/ LineRead \/ Sent \/ EndOfInput
        \/ \E pid \in 1..MaxSpawns : ProcessExits(pid)
        \/ Gone

Spec == Init /\ [][Next]_vars

\* The runtime's tasks are scheduled and STOP_TIMEOUT runs out.  Lines come as
\* they please and no process needs ever exit.
FairSpec == Spec /\ WF_vars(Progress) /\ WF_vars(Command \/ InputOver) /\ WF_vars(Sent)
-----------------------------------------------------------------------------
\* While the runtime is up it loses no process: whatever is alive is the one
\* running holds for its plugin, or is being stopped at this moment.  When it
\* shut down without an error, no process is left.
EveryProcessManaged ==
    /\ stage # "exited" =>
           \A pid \in Live : pid = victim \/ pid = running[procs[pid].plugin]
    /\ stage = "exited" /\ ~failed => Live = {}

\* A plugin never runs twice, not even for a moment of a restart: the old
\* process is gone before the new one is spawned.
OneProcessPerPlugin == stage # "exited" => \A p \in Plugins : Cardinality(LiveOf(p)) <= 1

\* "... resolve ... profiles per plugin before launching" (docs/architecture.md):
\* sandbox_config has an answer for every plugin that runs, through stops, restarts,
\* failed starts and processes that exited by themselves, and it is one that opens
\* a way onto the network only if the manifest asks for it.  It is a record: no
\* process is put under it.
ConfigOnRecord ==
    \A p \in Plugins : running[p] \in Live =>
        /\ sandbox_configs[p] # None
        /\ OpensNetwork(sandbox_configs[p]) => "network:egress" \in Declared[p]

\* Every stop, restart and shutdown comes to an end, though no process may ever
\* obey the signal; and a reader that waits for a place in the channel gets on.
CommandsEnd ==
    /\ stage \in {"stopping", "restart", "shutdown"} ~> stage \in {"idle", "exited"}
    /\ reader = "sending" ~> reader # "sending" \/ stage = "exited"

\* After a shutdown or an error the program ends, if the input does.
ProgramEnds == WF_vars(EndOfInput) => (stage = "exited" ~> gone)

\* The admin commands include quit (runtime/mcp-runtime/README.md): after it, or
\* Ctrl-C, the program ends.
QuitEndsProgram == stage = "exited" ~> gone
=============================================================================
