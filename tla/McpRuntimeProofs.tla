-------------------------- MODULE McpRuntimeProofs --------------------------
(***************************************************************************)
(* Proofs about McpRuntime, for any number of plugins and of spawns, and   *)
(* whatever the manifests declare.                                         *)
(***************************************************************************)
EXTENDS McpRuntime, FiniteSetTheorems, TLAPS

Process == [plugin : Plugins, status : {"alive", "killed", "exited"}]

Types == /\ procs \in Seq(Process)
         /\ running \in [Plugins -> Nat \cup {None}]
         /\ DOMAIN sandbox_configs = Plugins

\* What running says of a plugin is about a process of that plugin, for which the
\* sandbox was resolved.
Holds == \A p \in Plugins : running[p] # None =>
             /\ running[p] \in DOMAIN procs
             /\ procs[running[p]].plugin = p
             /\ sandbox_configs[p] = resolve_sandbox(Declared[p])

ManagerInv == Types /\ Holds

\* No process is out of hand.
Held == \A pid \in Live : pid = victim \/ pid = running[procs[pid].plugin]

\* Only stop_process waits for a process, and the plugin has none besides.
VictimInv == /\ stage = "stopping" => /\ target \in Plugins
                                      /\ running[target] = None
                                      /\ victim \in DOMAIN procs
                                      /\ procs[victim].plugin = target
                                      /\ then \in {"idle", "restart", "shutdown"}
             /\ stage # "stopping" => victim = None

\* stop_all leaves no process out.
ShutdownInv == stage = "shutdown" \/ (stage = "stopping" /\ then = "shutdown") =>
                   \A p \in Plugins : running[p] # None => p \in todo

Clean == stage = "exited" /\ ~failed => Live = {}

RuntimeInv == /\ ManagerInv
              /\ stage # "exited" => Held
              /\ VictimInv
              /\ ShutdownInv
              /\ Clean
-----------------------------------------------------------------------------
(* The manager's operations.                                               *)

LEMMA ReconciledFacts ==
    ASSUME ManagerInv
    PROVE  /\ Reconciled \in [Plugins -> Nat \cup {None}]
           /\ \A p \in Plugins : Reconciled[p] = None \/ (Reconciled[p] = running[p] /\ running[p] \in Live)
           /\ \A p \in Plugins : running[p] \in Live => Reconciled[p] = running[p]
           /\ \A pid \in Live : pid \in Nat /\ procs[pid].plugin \in Plugins /\ pid # None
<1>1. \A pid \in Live : pid \in Nat /\ procs[pid].plugin \in Plugins /\ pid # None
  <2> SUFFICES ASSUME NEW pid \in Live PROVE pid \in Nat /\ procs[pid].plugin \in Plugins /\ pid # None
    OBVIOUS
  <2>1. pid \in 1..Len(procs) /\ procs[pid] \in Process
    BY DEF ManagerInv, Types, Live
  <2>2. None \notin Nat
    BY McpAssumption
  <2> QED
    BY <2>1, <2>2 DEF Process
<1>2. \A p \in Plugins : Reconciled[p] = IF running[p] \in Live THEN running[p] ELSE None
  BY DEF Reconciled
<1>3. Reconciled \in [Plugins -> Nat \cup {None}]
  BY <1>1, <1>2 DEF Reconciled, ManagerInv, Types
<1> QED
  BY <1>1, <1>2, <1>3

\* After a reconciliation, be it the end of the operation.
LEMMA ReconcileKeeps ==
    ASSUME ManagerInv, running' = Reconciled, UNCHANGED <<procs, sandbox_configs>>
    PROVE  ManagerInv' /\ (Held /\ victim' = victim => Held')
<1>1. ManagerInv'
  BY ReconciledFacts DEF ManagerInv, Types, Holds
<1>2. ASSUME Held, victim' = victim PROVE Held'
  BY <1>2, ReconciledFacts DEF Held, Live
<1> QED
  BY <1>1, <1>2

LEMMA SpawnKeeps ==
    ASSUME ManagerInv, Held, victim = None, victim' = None, NEW id \in Ids, Spawn(id)
    PROVE  ManagerInv' /\ Held'
<1> DEFINE new == Len(procs) + 1
<1>1. /\ id \in Plugins /\ Reconciled[id] = None
      /\ procs' = Append(procs, spawn_process(id))
      /\ running' = [Reconciled EXCEPT ![id] = new]
      /\ sandbox_configs' = [sandbox_configs EXCEPT ![id] = resolve_sandbox(Declared[id])]
  BY DEF Spawn, AlreadyRunning, Configured
<1>2. /\ procs' \in Seq(Process)
      /\ new \in Nat /\ DOMAIN procs' = DOMAIN procs \cup {new} /\ new \notin DOMAIN procs
      /\ procs'[new].plugin = id
      /\ \A pid \in DOMAIN procs : procs'[pid] = procs[pid]
  BY <1>1 DEF ManagerInv, Types, Process, spawn_process
<1>3. /\ running' \in [Plugins -> Nat \cup {None}]
      /\ running'[id] = new
      /\ \A p \in Plugins \ {id} : running'[p] = Reconciled[p]
  BY <1>1, <1>2, ReconciledFacts
<1>4. ManagerInv'
  <2>1. Types'
    BY <1>1, <1>2, <1>3 DEF ManagerInv, Types
  <2>2. Holds'
    <3> SUFFICES ASSUME NEW p \in Plugins, running'[p] # None
                 PROVE  /\ running'[p] \in DOMAIN procs'
                        /\ procs'[running'[p]].plugin = p
                        /\ sandbox_configs'[p] = resolve_sandbox(Declared[p])
      BY DEF Holds
    <3>1. CASE p = id
      BY <3>1, <1>1, <1>2, <1>3 DEF ManagerInv, Types
    <3>2. CASE p # id
      BY <3>2, <1>1, <1>2, <1>3, ReconciledFacts DEF ManagerInv, Types, Holds
    <3> QED
      BY <3>1, <3>2
  <2> QED
    BY <2>1, <2>2 DEF ManagerInv
<1>5. Held'
  <2> SUFFICES ASSUME NEW pid \in Live' PROVE pid = running'[procs'[pid].plugin]
    BY DEF Held
  <2>1. CASE pid = new
    BY <2>1, <1>2, <1>3
  <2>2. CASE pid # new
    <3>1. pid \in Live /\ procs'[pid] = procs[pid]
      BY <2>2, <1>2 DEF Live
    <3>2. pid = running[procs[pid].plugin] /\ procs[pid].plugin \in Plugins
      BY <3>1, ReconciledFacts DEF Held
    <3>3. Reconciled[procs[pid].plugin] = pid /\ pid # None
      BY <3>1, <3>2, ReconciledFacts
    <3>4. procs[pid].plugin # id
      BY <3>3, <1>1
    <3> QED
      BY <3>1, <3>2, <3>3, <3>4, <1>3
  <2> QED
    BY <2>1, <2>2
<1> QED
  BY <1>4, <1>5

LEMMA StartOkKeeps ==
    ASSUME ManagerInv, Held, victim = None, victim' = None, NEW id \in Ids, StartOk(id)
    PROVE  ManagerInv' /\ Held'
<1>1. CASE StartRunning(id)
  BY <1>1, ReconcileKeeps DEF StartRunning
<1>2. CASE Spawn(id)
  BY <1>2, SpawnKeeps
<1> QED
  BY <1>1, <1>2 DEF StartOk

LEMMA StartErrKeeps ==
    ASSUME ManagerInv, NEW id, StartErr(id)
    PROVE  ManagerInv'
<1>1. /\ running' = Reconciled /\ procs' = procs
      /\ DOMAIN sandbox_configs' = Plugins
      /\ \A p \in Plugins : sandbox_configs'[p] \in {sandbox_configs[p], resolve_sandbox(Declared[p])}
  BY DEF StartErr, Configured, ManagerInv, Types
<1> QED
  BY <1>1, ReconciledFacts DEF ManagerInv, Types, Holds

\* A kill leaves the plugin without a process but the one that is awaited.
LEMMA KillKeeps ==
    ASSUME ManagerInv, Held, victim = None, NEW id, Kill(id)
    PROVE  /\ ManagerInv' /\ Held'
           /\ target' \in Plugins /\ running'[target'] = None
           /\ victim' \in DOMAIN procs' /\ procs'[victim'].plugin = target'
           /\ \A p \in Plugins : running'[p] # None => p # id /\ running[p] # None
<1>1. /\ id \in Plugins /\ Reconciled[id] # None
      /\ running' = [Reconciled EXCEPT ![id] = None]
      /\ victim' = Reconciled[id] /\ target' = id
      /\ procs' = [procs EXCEPT ![Reconciled[id]].status = "killed"]
      /\ sandbox_configs' = sandbox_configs
  BY DEF Kill, NothingToStop, AlreadyRunning
<1>2. Reconciled[id] = running[id] /\ running[id] \in Live /\ procs[running[id]].plugin = id
  BY <1>1, ReconciledFacts DEF ManagerInv, Holds
<1>3. /\ procs' \in Seq(Process) /\ DOMAIN procs' = DOMAIN procs
      /\ \A pid \in DOMAIN procs : procs'[pid].plugin = procs[pid].plugin
      /\ \A pid \in DOMAIN procs : pid # victim' => procs'[pid] = procs[pid]
  <2> DEFINE old == running[id]
             now == [procs[old] EXCEPT !.status = "killed"]
  <2>1. old \in DOMAIN procs /\ victim' = old /\ procs' = [procs EXCEPT ![old] = now]
    BY <1>1, <1>2 DEF Live
  <2>2. procs[old] \in Process
    BY <2>1 DEF ManagerInv, Types
  <2>3. now \in Process /\ now.plugin = procs[old].plugin
    BY <2>2 DEF Process
  <2> HIDE DEF old, now
  <2> QED
    BY <2>1, <2>3 DEF ManagerInv, Types
<1>4. /\ running' \in [Plugins -> Nat \cup {None}]
      /\ running'[id] = None
      /\ \A p \in Plugins \ {id} : running'[p] = Reconciled[p]
  BY <1>1, ReconciledFacts
<1>5. ManagerInv'
  BY <1>1, <1>3, <1>4, ReconciledFacts DEF ManagerInv, Types, Holds
<1>6. Held'
  <2> SUFFICES ASSUME NEW pid \in Live', pid # victim' PROVE pid = running'[procs'[pid].plugin]
    BY DEF Held
  <2>1. pid \in Live /\ procs'[pid] = procs[pid]
    BY <1>3 DEF Live
  <2>2. pid = running[procs[pid].plugin] /\ procs[pid].plugin \in Plugins
    BY <2>1, ReconciledFacts DEF Held
  <2>3. procs[pid].plugin # id
    BY <2>2, <1>1, <1>2
  <2> QED
    BY <2>1, <2>2, <2>3, <1>4, ReconciledFacts
<1> QED
  BY <1>1, <1>2, <1>3, <1>4, <1>5, <1>6, ReconciledFacts DEF Live
-----------------------------------------------------------------------------
(* The steps of run_runtime.                                               *)

LEMMA InitRuntime == Init => RuntimeInv
  BY McpAssumption
  DEF Init, RuntimeInv, ManagerInv, Types, Holds, Held, Live, VictimInv, ShutdownInv, Clean

\* A return with an error.
LEMMA AbortKeeps ==
    ASSUME ManagerInv', Abort
    PROVE  RuntimeInv'
  BY DEF Abort, RuntimeInv, VictimInv, ShutdownInv, Clean

\* A step of the manager that is no stop, and after which the next command is awaited.
LEMMA IdleKeeps ==
    ASSUME ManagerInv', Held', victim' = None, stage' \in {"autostart", "idle"}
    PROVE  RuntimeInv'
  BY DEF RuntimeInv, VictimInv, ShutdownInv, Clean

LEMMA CommandKeeps ==
    ASSUME RuntimeInv, stage = "idle", NEW id \in Ids,
           \/ Start(id) \/ StartFails(id) \/ Stop(id) \/ StopNothing(id)
           \/ Restart(id) \/ RestartStopped(id)
    PROVE  RuntimeInv'
<1>0. ManagerInv /\ Held /\ victim = None
  BY DEF RuntimeInv, VictimInv
<1>1. CASE Start(id)
  BY <1>0, <1>1, StartOkKeeps, IdleKeeps DEF Start, control
<1>2. CASE StartFails(id)
  BY <1>0, <1>2, StartErrKeeps, AbortKeeps DEF StartFails
<1>3. CASE Stop(id)
  BY <1>0, <1>3, KillKeeps DEF Stop, Kill, RuntimeInv, VictimInv, ShutdownInv, Clean
<1>4. CASE StopNothing(id)
  BY <1>0, <1>4, ReconcileKeeps, IdleKeeps DEF StopNothing, control
<1>5. CASE Restart(id)
  BY <1>0, <1>5, KillKeeps DEF Restart, Kill, RuntimeInv, VictimInv, ShutdownInv, Clean
<1>6. CASE RestartStopped(id)
  BY <1>0, <1>6, SpawnKeeps, IdleKeeps DEF RestartStopped, control
<1> QED
  BY <1>1, <1>2, <1>3, <1>4, <1>5, <1>6

LEMMA QuitKeeps == RuntimeInv /\ Quit => RuntimeInv'
  BY DEF Quit, manager, RuntimeInv, ManagerInv, Types, Holds, Held, Live, VictimInv,
      ShutdownInv, Clean

\* What leaves the processes and the manager alone, and the control too.
LEMMA RuntimeStutters ==
    ASSUME RuntimeInv, UNCHANGED <<procs, manager, control>>
    PROVE  RuntimeInv'
  BY DEF manager, control, RuntimeInv, ManagerInv, Types, Holds, Held, Live, VictimInv,
      ShutdownInv, Clean

LEMMA ExitKeeps ==
    ASSUME RuntimeInv, NEW pid, ProcessExits(pid)
    PROVE  RuntimeInv'
<1> DEFINE now == [procs[pid] EXCEPT !.status = "exited"]
<1>1. /\ pid \in DOMAIN procs /\ procs' = [procs EXCEPT ![pid] = now]
      /\ UNCHANGED <<manager, control>>
  BY DEF ProcessExits, Live
<1>2. procs[pid] \in Process
  BY <1>1 DEF RuntimeInv, ManagerInv, Types
<1>3. now \in Process /\ now.plugin = procs[pid].plugin /\ now.status = "exited"
  BY <1>2 DEF Process
<1> HIDE DEF now
<1>4. /\ procs' \in Seq(Process) /\ DOMAIN procs' = DOMAIN procs
      /\ \A k \in DOMAIN procs : procs'[k].plugin = procs[k].plugin
      /\ Live' \subseteq Live
  BY <1>1, <1>3 DEF RuntimeInv, ManagerInv, Types, Live
<1>5. ManagerInv'
  BY <1>1, <1>4 DEF RuntimeInv, ManagerInv, Types, Holds, manager
<1>6. Held => Held'
  BY <1>1, <1>4 DEF Held, Live, manager, control
<1> QED
  BY <1>1, <1>4, <1>5, <1>6
  DEF RuntimeInv, VictimInv, ShutdownInv, Clean, manager, control

LEMMA NextRuntime == RuntimeInv /\ [Next]_vars => RuntimeInv'
<1> SUFFICES ASSUME RuntimeInv, [Next]_vars PROVE RuntimeInv'
  OBVIOUS
<1>0. /\ ManagerInv /\ VictimInv /\ ShutdownInv
      /\ stage # "exited" => Held
      /\ stage \notin {"stopping", "exited"} => victim = None
  BY DEF RuntimeInv, VictimInv
\* start_all.
<1>1. CASE StartAll
  <2>1. PICK id \in Ids : StartOk(id)
    BY <1>1, <1>0 DEF StartAll, StartOk, StartRunning, AlreadyRunning, Spawn, Ids
  <2> QED
    BY <2>1, <1>1, <1>0, StartOkKeeps, IdleKeeps DEF StartAll
<1>2. CASE StartAllErr
  BY <1>2, <1>0, StartErrKeeps, AbortKeeps DEF StartAllErr
<1>3. CASE StartAllDone
  BY <1>3, <1>0 DEF StartAllDone, manager, RuntimeInv, ManagerInv, Types, Holds, Held, Live,
      VictimInv, ShutdownInv, Clean
<1>4. CASE Interrupted
  <2>1. ManagerInv'
    BY <1>4, <1>0 DEF Interrupted, manager, ManagerInv, Types, Holds
  <2> QED
    BY <2>1, <1>4, AbortKeeps DEF Interrupted
\* The commands.
<1>5. CASE Command
  <2>1. ASSUME NEW id \in Ids,
               \/ Start(id) \/ StartFails(id) \/ Stop(id) \/ StopNothing(id)
               \/ Restart(id) \/ RestartStopped(id)
        PROVE  RuntimeInv'
    <3>1. stage = "idle"
      BY <2>1 DEF Start, StartFails, Stop, StopNothing, Restart, RestartStopped
    <3> QED
      BY <2>1, <3>1, CommandKeeps
  <2>2. CASE List
    BY <2>2, <1>0, ReconcileKeeps, IdleKeeps DEF List, control
  <2>3. CASE HelpOrMalformed
    BY <2>3, RuntimeStutters DEF HelpOrMalformed
  <2>4. CASE Quit
    BY <2>4, QuitKeeps
  <2> QED
    BY <1>5, <2>1, <2>2, <2>3, <2>4 DEF Command
<1>6. CASE CtrlC \/ InputOver
  BY <1>6, QuitKeeps DEF CtrlC, InputOver
\* The end of a stop.
<1>7. CASE Stopped
  <2>1. ManagerInv'
    BY <1>7, <1>0 DEF Stopped, ManagerInv, Types, Holds, VictimInv
  <2>2. Held'
    BY <1>7, <1>0 DEF Stopped, Held, Live
  <2> QED
    BY <2>1, <2>2, <1>7, <1>0 DEF Stopped, RuntimeInv, VictimInv, ShutdownInv, Clean
<1>8. CASE StopTimesOut
  <2>1. ManagerInv'
    BY <1>8, <1>0 DEF StopTimesOut, manager, ManagerInv, Types, Holds
  <2> QED
    BY <2>1, <1>8, AbortKeeps DEF StopTimesOut
<1>9. CASE RestartStarts
  <2>1. target \in Ids
    BY <1>9 DEF RestartStarts, Spawn, Ids
  <2> QED
    BY <2>1, <1>9, <1>0, SpawnKeeps, IdleKeeps DEF RestartStarts
<1>10. CASE RestartFails
  BY <1>10, <1>0, StartErrKeeps, AbortKeeps DEF RestartFails
\* stop_all.
<1>11. CASE StopAll
  BY <1>11, <1>0, KillKeeps DEF StopAll, Kill, RuntimeInv, VictimInv, ShutdownInv, Clean
<1>12. CASE StopAllSkip
  <2> DEFINE id == Least(todo)
  <2>1. /\ stage = "shutdown" /\ NothingToStop(id) /\ running' = Reconciled
        /\ todo' = todo \ {id}
        /\ UNCHANGED <<procs, sandbox_configs, stage, target, victim, then, failed>>
    BY <1>12 DEF StopAllSkip
  <2> HIDE DEF id
  <2>2. ManagerInv' /\ Held' /\ victim = None
    BY <2>1, <1>0, ReconcileKeeps
  <2>3. \A p \in Plugins : running'[p] # None => p \in todo'
    BY <2>1, <1>0, ReconciledFacts DEF NothingToStop, AlreadyRunning, ShutdownInv
  <2> QED
    BY <2>1, <2>2, <2>3 DEF RuntimeInv, VictimInv, ShutdownInv, Clean
<1>13. CASE StopAllDone
  <2>1. ManagerInv'
    BY <1>13, <1>0 DEF StopAllDone, manager, ManagerInv, Types, Holds
  <2>2. Live = {}
    BY <1>13, <1>0, ReconciledFacts DEF StopAllDone, ShutdownInv, Held
  <2> QED
    BY <2>1, <2>2, <1>13, <1>0 DEF StopAllDone, RuntimeInv, VictimInv, ShutdownInv, Clean, Live
\* The input and the processes.
<1>14. CASE Ends \/ LineRead \/ Sent \/ EndOfInput \/ Gone
  BY <1>14, RuntimeStutters DEF Ends, LineRead, Sent, EndOfInput, Gone, vars
<1>15. ASSUME NEW pid \in 1..MaxSpawns, ProcessExits(pid) PROVE RuntimeInv'
  BY <1>15, ExitKeeps
<1>16. CASE UNCHANGED vars
  BY <1>16, RuntimeStutters DEF vars
<1> QED
  BY <1>1, <1>2, <1>3, <1>4, <1>5, <1>6, <1>7, <1>8, <1>9, <1>10, <1>11, <1>12, <1>13,
     <1>14, <1>15, <1>16 DEF Next, Progress

LEMMA RuntimeInvHolds == Spec => []RuntimeInv
<1> QED
  BY InitRuntime, NextRuntime, PTL DEF Spec
-----------------------------------------------------------------------------
\* EveryProcessManaged: RuntimeManager and run_runtime lose no process while the
\* runtime is up, and leave none when it shuts down without an error, for any
\* number of plugins and commands.
THEOREM EveryProcessManagedHolds == Spec => []EveryProcessManaged
<1>1. RuntimeInv => EveryProcessManaged
  BY DEF RuntimeInv, Held, Clean, EveryProcessManaged
<1> QED
  BY <1>1, RuntimeInvHolds, PTL

\* OneProcessPerPlugin: restart waits for the old process before it spawns the
\* new one, and start does nothing when one is running.
THEOREM OneProcessPerPluginHolds == Spec => []OneProcessPerPlugin
<1>1. RuntimeInv => OneProcessPerPlugin
  <2> SUFFICES ASSUME RuntimeInv, stage # "exited", NEW p \in Plugins
               PROVE  Cardinality(LiveOf(p)) <= 1
    BY DEF OneProcessPerPlugin
  <2>1. \A pid \in LiveOf(p) : pid \in Nat /\ (pid = victim \/ pid = running[p]) /\ pid # None
    BY ReconciledFacts DEF RuntimeInv, Held, LiveOf
  <2>2. victim \in LiveOf(p) => running[p] = None
    BY <2>1 DEF RuntimeInv, VictimInv, LiveOf
  <2>3. \A j, k \in LiveOf(p) : j = k
    BY <2>1, <2>2
  <2>4. LiveOf(p) = {} \/ \E pid : LiveOf(p) = {pid}
    BY <2>3
  <2> QED
    BY <2>4, FS_EmptySet, FS_Singleton
<1> QED
  BY <1>1, RuntimeInvHolds, PTL

\* ConfigOnRecord: start resolves the sandbox anew before every launch, and stop
\* takes the entry away only with the process, whatever manifests declare.
THEOREM ConfigOnRecordHolds == Spec => []ConfigOnRecord
<1>1. RuntimeInv => ConfigOnRecord
  <2> SUFFICES ASSUME RuntimeInv, NEW p \in Plugins, running[p] \in Live
               PROVE  /\ sandbox_configs[p] # None
                      /\ OpensNetwork(sandbox_configs[p]) => "network:egress" \in Declared[p]
    BY DEF ConfigOnRecord
  <2>1. sandbox_configs[p] = resolve_sandbox(Declared[p])
    BY ReconciledFacts DEF RuntimeInv, ManagerInv, Holds
  <2>2. resolve_sandbox(Declared[p]) # None
    BY McpAssumption DEF Manifests
  <2>3. "network:egress" \notin Declared[p] => ~OpensNetwork(resolve_sandbox(Declared[p]))
    BY DEF resolve_sandbox, OpensNetwork, SeccompMcpPlugin, AppArmorMcpPlugin, NamespaceFull,
        CapabilityMinimal
  <2> QED
    BY <2>1, <2>2, <2>3
<1> QED
  BY <1>1, RuntimeInvHolds, PTL
=============================================================================
