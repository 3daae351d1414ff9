# LLM-OS in TLA+

Specifications of the stateful parts of LLM-OS (`src/` in the notes below is the
repository): what `llmd`, the policy engine, the MCP plugin runtime, the service
bus, the benchmark runner and the `llmos` command do when answers are late, files
cannot be written, processes die or hang and operators edit files at the wrong
moment. TLC checks each specification on small instances; TLAPS proves the most
important statements for every instance.

## 1. Inventory

| Part | State | Operations | Talks to |
|---|---|---|---|
| Policy client (`llmd/src/lib.rs`, `GrpcPolicyDecisionClient`) | failure count, instant the breaker is open until, gauge | `evaluate`: breaker check, attempts with timeout, backoff, success/failure marks | policy engine over gRPC; called by the pipeline |
| Action pipeline (`process_action`, `executor.rs`, the loop of `main.rs`) | counters of `RuntimeMetrics` | ask, deny or execute, audit, count | policy client, executor, audit sink |
| Model backends (`crates/model-runtime`) | the loaded model, under a lock; an inference in progress | load, infer, unload | executor, whoever loads models |
| `llmd`'s main and its tasks (`llmd/src/main.rs`) | where main is; the metrics server; the probing task | bind, open the sink, connect, preflight check, startup requests, periodic probe | policy engine, port, operator |
| JSONL audit sink (`JsonlFileAuditSink`) | files `path`, `path.1`, ...; open handle; byte count | `emit` (append, rotate, reopen), construction at startup | file system |
| Bus audit sink and `LocalChannel` (`llmd/src/bus.rs`, `crates/service-bus`) | senders per topic, a bounded queue per subscriber | `emit` (spawns), `publish`, `subscribe` | subscribers |
| Policy evaluation (`engine.rs`, `identity.rs`, `crates/identity` workload ids) | none between calls | `evaluate_policy`, pattern matching, mapping to the response | called by the gRPC service |
| Policy reload (`reload.rs`, `main.rs`, `grpc.rs`) | shared policy, remembered modification time | load at startup, poll, swap, snapshot | policy file, calls in progress |
| MCP plugin runtime (`mcp-runtime/src`) | running processes, sandbox configurations, lines read but not handled | start, stop, restart, list, start_all, stop_all, shutdown | operating system, admin commands |
| Metrics (`RuntimeMetrics` of `llmd`, `PolicyEngineMetrics`) | relaxed atomics: counters, gauges, a histogram | increment, observe, render | requests on one side, scrapes of `/metrics` on the other |
| Identity tokens (`crates/identity`: `token.rs`, `hmac.rs`, `verifier.rs`) | none; the system's clock | issue, decode, verify, signed or not | no service uses them yet |
| Sandbox profiles (`crates/sandbox`, `mcp-runtime/src/sandbox.rs`) | none | `resolve_sandbox` | plugin runtime |
| Benchmark plan (`crates/benchmark-ingest`, `scripts/memory/run-benchmark-plan.ps1`) | `benchmark_plan.csv`; the runner's rows | run a row, write the plan; parse, filter | the runner writes what `llmos` reads |
| `llmos` (`tools/llmos-cli`) | none between commands | `modules`, `policy`, `benchmark`, `profile` | policy engine, `llmd`'s metrics, the plan |
| Secrets, kernel profiles | none, or read-only tables | lookup, validate | no service depends on their order |
| Mock plugin, common types | none | - | - |

How they interact: `llmd` takes its requests one at a time. Each goes through
`process_action`, which calls `evaluate` of the policy client (`&mut self`, so no
two at once), which calls the policy engine; the engine takes one snapshot of the
shared policy and evaluates it, while its reload task may swap the policy. What
comes back decides whether the executor runs, for a model invocation under the
read guard of the backend; in the end the audit sink gets an event and the
counters go up. `llmos` asks the engine and `llmd`'s metrics server one after the
other, from outside, and reads a file that the runner writes. The plugin runtime
is a process of its own that only shares conventions with the rest.

What is hard in it: the breaker's count across cooldowns, refusals and malformed
requests; retries against late answers and against a policy that is replaced
meanwhile; a chain of renames that can fail or be cut off anywhere and is then
repeated; a file watched by modification time; child processes that exit on their
own schedule; a blocking read that outlives the program's last wish; services that
hang between a connection and its answer; concurrent publishers without a lock
around delivery; counters incremented and read one by one without any order the
language promises; a hand-written base64 and the ends of a validity window; a CSV
file written in place by one program and read by another with other rules.
`PROJECT.json` lists these hazards line by line.

What makes each part correct:

- policy client: it admits, counts and trips like a circuit breaker, and a tripped
  breaker closes again when the service is well;
- pipeline: nothing runs without an allow for that very request, or twice; audit
  events and counters tell what happened; a dead service does not hang the daemon;
- client and engine together: what is granted was allowed by a policy in force
  while it was being asked, and a revoked permission is not granted for ever;
- backend: an invocation keeps the model that it found;
- audit sink: only the oldest events are ever lost, order is kept, files stay
  bounded, failures are counted, and the sink recovers;
- bus: a subscriber's trouble is its own, no duplicates, publish order is kept;
- evaluation: deny overrides, default deny, whatever the order of the rules;
- reload: no edit is mistaken for one already loaded, no decision is stale;
- plugin runtime: no process is lost or doubled, for each that runs a sandbox was
  resolved that opens no more than its manifest asks for, every command ends, and so
  does the program;
- deployment: `llmd` comes up or exits, goes on probing, and what `llmos` shows is so;
- metrics: a page's histogram is one, and no increment is lost;
- tokens: what was issued is accepted in its window and comes back as it was; what
  is accepted as signed was issued so;
- benchmark plan: writer and reader mean the same rows, and a report is over the
  runs that were made.

## 2. Modules

| Module | Models | Extends |
|---|---|---|
| `CircuitBreaker` | what the policy client promises: phases closed, open, trial | |
| `PolicyClient` | `evaluate` and the breaker, implements `CircuitBreaker` | |
| `ModelBackend` | the two backends behind the executor's lock | |
| `ProcessAction` | `process_action`, executor, audit stream, counters | `PolicyClient`, `ModelBackend` |
| `PolicyReload` | startup, `poll_and_reload`, `SharedPolicy`, snapshots of calls | |
| `Authoriser` | what client and engine promise together | |
| `PolicyPipeline` | client and engine composed, implements `Authoriser` | `PolicyReload`, an instance of `PolicyClient` |
| `AuditLog` | `JsonlFileAuditSink` | |
| `PolicyMatch` | the two pattern languages, workload ids, a glob as reference | |
| `PolicyEval` | `evaluate_policy` and the response | `PolicyMatch` |
| `Sandbox` | the profiles `resolve_sandbox` chooses between | |
| `McpRuntime` | `RuntimeManager`, the command loop and its input | `Sandbox` |
| `ServiceBus` | `LocalChannel` and the tasks of `BusAuditSink` | |
| `Metrics` | the counters and histograms of both services and a scrape | |
| `IdentityToken` | tokens, base64, HMAC, the verifiers | |
| `Deployment` | `llmd`'s main and tasks, the engine and `llmos modules`/`policy`, as programs | |
| `BenchmarkPlan` | the plan's file between its runner and `llmos benchmark` | |
| `MC...` | instances for TLC | the module they are named for |
| `ProcessActionProofs` | theorems of the breaker and of the pipeline around it | `ProcessAction` |
| `PolicyPipelineProofs` | theorems of the reload and of client and engine together | `PolicyPipeline` |
| `AccessProofs` | theorems of policy evaluation and of tokens: what is allowed, and to whom | `PolicyEval`, `IdentityToken` |
| `AuditSinkProofs` | theorems of the two audit sinks | `AuditLog`, `ServiceBus` |
| `McpRuntimeProofs`, `MetricsProofs`, `DeploymentProofs`, `BenchmarkPlanProofs` | theorems | the module they are named for |

`map` in `PROJECT.json` gives the lines each definition stands for. Conventions:

- A handler is one action where it runs without an await and nothing can come in
  between; it is cut where it awaits (the policy call, the backoff, the exit of a
  plugin), where another task can interleave (between the senders of a publish) and
  where a crash or an error in between matters (each file system call of `emit`).
- An operator `Mut...` directly before a definition is that definition with a
  plausible mistake in it. No specification uses them; substituting one breaks
  the property `PROJECT.json` lists with it, which shows that the property depends
  on that line of code.
- Variables that are not in the code (histories, fault budgets) are named as such
  in the head of each module, and no program action depends on a history.

### PolicyClient

`stage` is where `evaluate` is: `calling` and `backoff` are its two awaits.
Instants are ticks still to go, so `Instant::now() < until` is `until > 0`, and
`Tick` is the clock. A call of the service may be answered in time, late, with any
status, or never. The three breaker methods are relations (`RefuseOpen`/
`PassBreaker`, `mark_success`, `mark_failure`) that `evaluate`'s actions contain.
`Reject` is the early return of `build_grpc_request`, which goes past
`mark_failure`. In `evaluate`, the code after the loop cannot be reached
(the last attempt always returns) and is not an action.

### ProcessAction and ModelBackend

`ProcessAction` adds to each action of the client its counters, and what
`process_action` does with the verdict. The executor passes everything through
unless the action is `model:invoke` and a model is loaded; then it holds the read
guard of the backend's lock from `is_loaded` to the end of `infer`, token after
token for `LlamaCppBackend`, at once for `MockBackend`. Loads and unloads, which take
the write guard, may come between any two steps of the daemon: `llmd` itself never
loads a model today, and the shared lock exists for those that will. `inference`
keeps the model that the executor found, where the generation is and how many tokens
were sampled. The prompt is only compared with the context length; what the library
does in a full context is left open, so every call of it may fail (`InferFails`), the
decode of the last token too. `ExecutePanics` is `truncate_text`
cutting inside a character, which ends main's task.

### PolicyReload, PolicyPipeline and Authoriser

A document is the number of the edit that made it, which is also its modification
time. The operator may replace, break or delete the file between any two steps.
`raced` records whether the document in the file came between `main`'s load and the
reload task's first look at it: that one race is the exception in `SkipMeansLoaded`.

`PolicyPipeline` puts a call in flight behind every attempt of the client: it leaves
the client, arrives in the engine at some time or never, takes its snapshot, is
answered, and the answer comes back at some time, perhaps after the client has given
the attempt up, sent another, or gone on to the next request. Only the answer to the
attempt that is awaited is delivered, since each call is a stream of its own.
`Authoriser` knows nothing of all this: a request is granted only under a policy that
was in force since it was last asked, and may always be denied. `sent_at` is the
history variable of the refinement; `asked`, `seen` and `verdict` of `Authoriser` are
functions of the client's state and of it.

### AuditLog

A file is a sequence of numbered pieces (a whole line, or the fragment of one), its
length and the bytes of it that belong to fragments. `emit` is cut at every file
system call. Each call may fail (`...Fails`, and `RotateBlind` for a `stat` that fails,
which the code takes for a file that does not exist) and the process may die before or
after it, or inside `write_all`; `MaxFaults` bounds all of them. Between `write_all`
(`Write`) and `mark_audit_write_success` (`Mark`) it leaves a whole line that no counter
reports, the one kind of line without a mark that `EveryEventAccounted` admits. `Restart`
is `new_with_rotation` at the next start.

### PolicyEval and PolicyMatch

The loop of `evaluate_policy` is stepped rule by rule with its two `Option` locals.
`DenyOverrides` is the declarative answer. Strings are sequences over `Chars`, of
which `/` and `*` have a meaning and `BadChars` are those a workload id must not have.
`Glob` and `Extends` say what a pattern is meant to match, without prefix or suffix
operators and without the two ways of `subject_matches`.

### McpRuntime

`procs` are the processes ever spawned, `running` is the manager's table. Processes
exit when they like. `then` tells where the command loop goes on after the one await
(`stop_process`): back to the loop, to the second half of a restart, or to the rest
of `stop_all`. `Abort` is the `?` of the command loop. `sandbox_configs` holds what
`resolve_sandbox` returned for the plugin's manifest, a record and no more: nothing puts
a process under it. `Sandbox` has the profiles by the kinds of access they give (one
element for all the basic system calls, one for all the sockets), which is what tells
them apart.

Lines are counted in the channel and get their meaning when they are taken from it.
`reader` is the task that reads them: in its blocking read, waiting for a place in the
channel, or ended. `Ends` is the program's end, which waits for a read in progress;
that is what tokio does when its runtime is dropped. Ctrl-C before the first `select!`
ends the process as the system does by default (`Interrupted`).

### ServiceBus

Each emitted event has a task with the senders it still has to serve. `clock`,
`started` and `ended` number the begins and ends of publish calls, so that "before"
can be said of two of them.

### Metrics

A request is the path of increments its code makes (`LlmdEvaluated`, `EngineEvaluate`,
...), with the set of the places in it that no other thread can see yet; a page is the
sequence of loads of `render_prometheus`. `Plain` are the counters that are not part of
a histogram. Every access is `Ordering::Relaxed`, so `memory` chooses between two worlds: "relaxed", all
the language promises, where a request's increments become visible in any order, and
"ordered", what a build for x86-64 does (`fetch_add` is a locked instruction there).
That no bucket exceeds `+Inf` holds in the second world only, and needs both the
count before the bucket in the observation and the buckets before `+Inf` on the page;
the rest holds in both. The count is loaded twice, for `+Inf` and for `_count`, and
the two may differ on one page.

### IdentityToken

Characters are base64 values, and a raw token is its text, or its text and what stands
behind the ".". `base64_encode` and `base64_decode` compute what the
code computes, groups of three bytes against groups of four characters. SHA-256 is
ideal (a digest determines what was digested), so the claims about signatures are
about the protocol and not about the hash function; the digests of long keys are bytes
like those of other keys (`KeyDigest`). Two keys that HMAC pads to the
same block are one key: a key and the same key with zeros behind it, or a key longer
than a block and its own digest. `base64_decode` accepts `=` anywhere in a group and
ignores the bits left over, so an unsigned token has several texts; a signed one has
one, since the signature is over the text.

### Deployment

One level up: programs are up, down or hung, and what is inside them is in the modules
above. `llmd`'s main goes from sink to connection, preflight check, startup requests
and its wait for Ctrl-C; the task that serves the metrics binds its address or panics,
and the probing task ticks, connects and checks. The world may start, end, hang and
wake the engine, `llmd` and another program on the same address, between any two
steps. A `llmos` command goes through the probes of `modules.rs`, or the one of
`policy.rs`, step by step. The distinction that matters is between what is under the
program's own timeout (a call, the head of the metrics page) and what is not
(connecting with tonic, the body of the page). `served` and `faulted` are histories of
the command: the services that were up at some moment since it began, and those that
were not.

### BenchmarkPlan

The file is its text, as tokens: quotes, commas, newlines, a byte order mark and words.
`Export-Csv` empties it and writes it token by token, and the runner can be killed at
any of them. `ImportCsv` reads by the rules of CSV (a newline in quotes belongs to its
field, two quotes are one), `parse_benchmark_csv` line by line, dropping quotes. Five
columns stand for the thirty: the id, the model, a metric that must be a number, the
success and the notes, where a failed program's own words end up. The plan is any
sequence of ids and models (`RunIds`, `Plan`), a word each, and the notes are any texts
without a byte order mark (`AnyText`). A line of a note that has enough fields, and a
number and a truth value where they belong, is a row to `parse_benchmark_csv` and not to
`Import-Csv`: a `Phantom`, found among the lines that begin within a field (`NoteLines`).
`ReadersAgree` speaks of such files too: the records of the lines that begin outside a
note (`own`) are exactly the rows of `Import-Csv`, and the others are the phantoms.
`ReportTruthful` does not, since a report counts a phantom as a run. `-RunIds` asks for
any of the plan's ids (`Start`).
Both readers are steps that are folded over the text (`ImportStep`, `LineStep`,
`SplitStep`), as the loops of the code are, and every filter is `At`, which takes a
sequence at some of its places.

## 3. What the runs check

Passing runs (invariants, action properties and liveness under the fairness of
section 4):

| Run | Shows |
|---|---|
| `policy_client` | `ImplementsBreaker` (refinement), `GaugeFollowsInstant`, `BreakerRecovers` |
| `process_action` | `FailClosed`, `ExecutedOnce`, `AuditTruthful`, `CountersAddUp`, `InvocationKeepsModel`, `RefusedIffTripped`, `AllRequestsFinish` |
| `audit_log` | `RetainedIsSuffix`, `RetainedInOrder`, `SizeBounded`, `EveryEventAccounted`, `SinkRecovers` |
| `policy_pipeline` | `ImplementsAuthoriser` (refinement), `SkipMeansLoaded`, `DecisionFresh`, `EditEventuallyActive`, `RevocationTakesEffect` |
| `policy_eval` | `DenyOverrides`, `PatternIsGlob`, `SubjectIsNamespacePrefix` |
| `mcp_runtime` | `EveryProcessManaged`, `OneProcessPerPlugin`, `ConfigOnRecord`, `CommandsEnd`, `ProgramEnds` |
| `service_bus` | `EverySubscriberServed`, `SequentialInOrder` |
| `metrics` | `HistogramWellFormed`, `FinishedAreCounted` |
| `identity_token` | `SignedMeansIssued`, `IssuedIsAccepted` |
| `deployment` | `StatusTruthful`, `CommandEnds`, `StartupEnds`, `ProbeKeepsGoing` |
| `benchmark_plan` | `ReadersAgree`, `ReportTruthful` |

The comment above each property says what it means. `PolicyReload` has no run of its
own: `policy_pipeline` runs it whole, with calls that come from a client. Type
invariants are stated where proofs use them (`PolicyClient`, `ModelBackend`,
`ProcessAction`, `PolicyReload`, `PolicyEval`) and are proved there.

One run is expected to be violated, as the code does something else than a document of
the repository says:

| Run | The code | What says otherwise |
|---|---|---|
| `quit_ends_program` | after `quit`, or Ctrl-C, every plugin is stopped and `run_runtime` returns, but the program waits for tokio's blocking read of standard input: it ends only with another line or the end of the input | `sdk/plugin-api/manifests/README.md:18`, "type `list`, ... or `quit`" |

Also seen while modelling:

- Pipeline: when the executor fails, `process_action` returns before it builds an audit
  event (`llmd/src/lib.rs:698`), though `security/audit/README.md:3` speaks of a "tool
  execution event stream"; `AuditTruthful` names the exception. The breaker gauge stays
  1 after the cooldown until the next request comes, which matters to the alert on it
  (`ops/alerts.yml:11`) when requests are rare.
- Audit sink: a write that fails part-way, or a crash in it, leaves a fragment without
  a newline, and the next event is appended to it and cannot be read back
  (`lib.rs:382`; `README.md:99` says JSONL). After a rotation whose last step (opening
  the new file) failed, `bytes_written` keeps its old value, so the next event rotates
  again although the log is not full, which pushes out a file.
- Policy reload: an edit between `main`'s load and the reload task's first look at the
  file is never loaded, unless another follows (`reload.rs:49`, `reload.rs:53`).
- Backends: a sampled token is decoded even if it was the last that was asked for
  (`llama.rs:184`), so a generation that just fills its context may fail at its very end
  and what it generated is dropped; with a context length of 0 no prompt passes the check, although the context
  is created with 4096 tokens; `LlamaCppBackend` cannot load while a model is loaded,
  because the library is initialised a second time.
- Plugin runtime: an admin command that fails (a misspelt id) ends it without
  `stop_all`, so its plugins outlive it; a Ctrl-C during a plugin stop is lost, and one
  during `start_all` ends the program with its plugins running. Standard input of a
  plugin is null, so that the mock plugin, which reads it, exits at once.
- Sandbox profiles: `runtime/mcp-runtime/README.md:7` says "Apply sandbox and capability
  policy", but `spawn_process` (`mcp-runtime/src/lib.rs:291`) starts a plugin in a plain
  shell: what `resolve_sandbox` returned is stored, can be asked for, and is applied by
  nothing. Were it applied, `network:egress` would get sockets and a network
  namespace of its own (`namespace.rs:28`), and so no way out of it; `fs:read` and
  `fs:write` make no difference to the paths a plugin gets (`mcp-runtime/src/sandbox.rs`).
- Bus: `publish` reports success to a topic all of whose subscribers have gone, since
  dead senders are never removed.
- Deployment: `hyper`'s `Server::bind` panics on an address that is taken, so "metrics
  server stopped" is never logged for it; `llmos modules` can show `llmd` as healthy
  while it is still connecting to the engine and will exit. The quick start of
  `README.md` lists `llmd` before the policy engine, and `llmd` exits when the engine
  does not listen yet; its `cargo run -p mcp-runtime` lacks the subcommand.
- Benchmark plan: `README.md:93` says of `llmos benchmark` "List individual benchmark
  runs", but `parse_benchmark_csv` goes line by line (`parser.rs:19`), so that a line of
  a failed program's output, kept in the notes, can be taken for a row, and is listed and
  counted as a run that the plan does not have. The byte order mark in `scripts/memory/benchmark_plan.csv` makes
  `llmos benchmark` fail on the repository's own file. One run that failed, with blank
  metrics, or one "dry-run" makes the whole plan unreadable to `llmos`, although
  `validate-benchmark-plan.ps1` accepts it; a plan that was cut at the end of a row is
  reported as a shorter one. `--success-only` of `summary` cannot be turned off.

### Bounds

- `policy_client`: 3 attempts (first, middle, last), threshold 2 (a failure trips or
  not), cooldown 3 ticks against a timeout of 2 and backoffs of 1 and 2 (so the
  backoff is capped once), the count saturating at 3, one above the threshold.
- `process_action`: 5 requests, enough to trip, be refused, go on trial and trip again
  or recover; one malformed request in the middle; two model invocations; two models
  and two prompts, so that a prompt fits exactly, leaves room or is too long, and 2
  tokens, so that a generation ends by itself, is cut or fails with tokens generated.
- `audit_log`: 2 rotated files (a first, a middle and a last slot), `MaxBytes` 2 with
  lines of 1 and 3 bytes (two share a file, fill it exactly, or never fit), 6 events
  (every slot is filled and the oldest falls out), 2 faults (one hits the recovery
  from another).
- `policy_pipeline`: 2 attempts, so that an answer can be late for one and the other be
  awaited, also across requests; 2 edits, three documents that allow the two requests
  in turns, so that every reload revokes something; a breaker that trips at the first
  failure and a cooldown of 1. Requests, breaker trips and calls go on for ever.
- `policy_eval`: all documents of up to 3 rules out of 12, which covers none, one
  and several matches of each effect in every order; all patterns of up to 3 and
  values of up to 4 characters.
- `mcp_runtime`: 2 plugins, 4 spawns (one is restarted twice while the other runs), a
  channel of 2 lines (64 in the code), so that it is empty, partly full and full.
- `service_bus`: 2 topics, 2 receivers, queues of 1, 2 events. Order and duplication
  are about pairs of events, isolation about pairs of receivers.
- `metrics`: 2 requests (symmetric), at once in the engine and one after the other
  in `llmd`; 2 buckets and `+Inf`, so that one bucket's line cumulates another's and an
  observation can fall beyond them; 1 retry.
- `identity_token`: claims of 3, 4 and 5 bytes (no, two and one `=`), a window that is
  empty, times before, at and after each end of the windows; keys that are
  equal after padding, and two longer than a block, one with another key as its digest; 2 tokens issued.
- `deployment`: no bound but one startup request (three in the code wait for the same
  things): programs and commands come and go for ever.
- `benchmark_plan`: 2 rows, so that one is done while the other is written; a comma, a
  quote and a newline in the notes, each where it could be taken for structure, and one
  note whose second line reads as a row; every choice of run ids. `ReportTruthful` excepts
  files with a phantom. Runs of the script follow each other for
  ever. Deadlock is not checked here: when the runner
  is killed right after `Export-Csv` emptied the file there is nothing left to start
  from, and the system stops.

## 4. Fairness

- The program's own tasks are weakly fair: tokio polls a ready task, and the clock
  ticks. That is `ClientFairness`, `LlmdFairness`, `WF(FsStep)`, `WF(Progress)`
  and the reload task's.
- Nothing is assumed of the policy service or of the callers:
  `AllRequestsFinish` holds even if the service never answers. `BreakerRecovers`
  alone has two hypotheses, stated in the property itself: requests keep coming, not
  only malformed ones (`CallerFairness`), and a service that is called again and
  again gets an answer through again and again (`ServiceFairness`).
- `process_action`: the lock of the backend is granted in order of arrival (tokio's
  `RwLock` is fair), so an invocation that waits for a lock that is free again and again
  gets it (`SF`), and a load that has begun ends.
- `audit_log`: a daemon that died is restarted. Faults come as they please up to the
  budget and `SinkRecovers` speaks of the time after the last.
- `policy_pipeline`: a file that can be loaded is not unreadable at every single poll
  (`SF(Loads)`). No call need arrive or be answered, and nobody need ask.
- `mcp_runtime`: no process need ever exit and no line need come. `STOP_TIMEOUT` runs
  out. `ProgramEnds` has the end of the input as its hypothesis.
- `deployment`: `llmd`, its probing task and a command go on where they can, and go on
  where they were when the process is woken (`SF`, since hanging takes a step away
  again). A connection attempt ends by itself, refused or made. Nothing is assumed of
  the world; where a program that hangs for good makes a difference the property says so.
- Commands, requests, edits and subscribers have no fairness. `PolicyEval`,
  `ServiceBus`, `Metrics`, `IdentityToken` and `BenchmarkPlan` state safety only.

## 5. What is proved

Every safety property of the passing runs is a theorem, both refinements included: for every value of the constants that the modules'
assumptions admit (`ConfigAssumption`, `NoneAssumption`, `ShiftAssumption`,
`BackendAssumption`, `RequestAssumption`, `ReloadAssumption`, `CharsAssumption`,
`EvalAssumption`, `TokenAssumption`, `PipelineAssumption`, `McpAssumption`,
`AuditAssumption`, `BusAssumption`, `MetricsAssumption`, `DeploymentAssumption`,
`PlanAssumption`). The
assumptions say that durations, counts and times are natural numbers, that the threshold
fits its u32, that a queue has room for one message, that requests are finitely many
and a histogram has at least one bucket, each with a name of its own that no other
counter has, that strings are sequences of characters and encoded claims sequences of bytes, different claims having different
encodings, and that `None` (`Nothing` for tokens) is no number, reply, verdict, sandbox,
key or claims, `Absent` no file and `NoTopic` no topic; of a plan, that there are as many
ids as models, words all, and that no note holds a byte order mark. `ShiftAssumption` says that the
powers of two are natural numbers, which the provers do not know.

- `ProcessActionProofs`, the breaker. The inductive invariant `IInv` adds to `TypeOK` and
  `GaugeFollowsInstant` how `stage` bounds `attempt`, `reply` and `timer`, and that
  a breaker with an instant has reached its threshold; without the last a closed
  breaker could not be told from one on trial. From it: `TypeCorrect`,
  `GaugeCorrect` and `BreakerImplemented`, the refinement of `CircuitBreaker`, step
  by step: breaker checks map to `Admit` or a stutter, answers to `Succeed`, the last
  failed attempt to `FailBelow` or `Trip`, the tick that ends the cooldown to
  `CoolDown`, and all else to stutters.
- `ProcessActionProofs`, the pipeline. Every step of the daemon is a step of the client
  or leaves it alone, hence `LlmdBreakerImplemented`. `FailClosedHolds` and
  `ExecutedOnceHolds` rest on an invariant that ties the verdict in hand, and before it the reply, to
  `granted`, and bounds the executed requests by `current`. `RefusedIffTrippedHolds`
  rests on `HistoryHolds`: the failure count is the length of the run of failures at
  the end of `attempted`, and the open instant and the ticks since the last failure add
  up to the cooldown. `InvocationKeepsModelHolds` needs that an invocation holds
  the read guard (`GuardHeld`), which a load and an unload wait for. `AuditTruthfulHolds` rests on an
  invariant that the events so far are those of the finished requests the executor did
  not fail on, each once, in order, and marked as executed with the executed ones.
  `CountersAddUpHolds` follows the cardinalities in the property step by step: a request
  that ends adds one element to one of the sets, an attempt that is repeated one pair to
  the retries. `LlmdTypeCorrect` is the type invariant of all of it, counters, histories
  and backend included.
- `PolicyPipelineProofs`, the reload. `SyncHolds` says where the document the task has remembered,
  is loading or has loaded stands between the current one and the file's; from it
  `SkipMeansLoadedHolds`, `DecisionFreshHolds` and `NeverBackwardsHolds` (the current
  policy only moves forward), for any number of calls and edits.
- `PolicyPipelineProofs`, client and engine. Every step of the pipeline is a step of the
  engine or only clears the slot of a call, so the engine's invariant carries over
  (`PipelineReloads`).
  `AuthoriserImplemented` needs that there is a request as long as `evaluate` runs
  (`RequestInv`), that the call it awaits carries this request and arrived after the
  attempt was sent (`AwaitedInv`), and that an answer that allows goes back to a document
  that was current since (`ReplyInv`). With them the first attempt maps to `Ask`, a
  retry to `AskAgain`, the end of an evaluation to `Grant` or `Deny`, a reload to
  `Change`, and everything else to stutters, late answers among it.
- `McpRuntimeProofs`. The invariant ties the manager's table to the processes (`Holds`),
  says that every live process is in the table or the one being stopped (`Held`), that
  only `stop_process` waits for a process and its plugin has no other (`VictimInv`), and
  that `stop_all` leaves out none that lives (`ShutdownInv`). `EveryProcessManagedHolds`,
  `OneProcessPerPluginHolds` and `ConfigOnRecordHolds` follow, for any number of
  plugins and spawns, whatever the manifests declare.
- `AuditSinkProofs`, the file. All that a step does to the files is one of four things: nothing,
  one emptied, one moved to an empty slot, one piece appended (`FilesStep`). `LogInv`
  says that the handle is to the file at `path`, that the slot a rename goes to is empty
  and that pieces are numbered as the past was. From the two: `RetainedInOrderHolds`,
  `RetainedIsSuffixHolds`, `EveryEventAccountedHolds` (a line that is not marked belongs
  to an event that was cut off, or is about to be marked) and, with `bytes_written` bounded
  below by the whole lines of the file (`CountInv`), `SizeBoundedHolds`; for any number
  of files and events and any line lengths.
- `AuditSinkProofs`, the bus. `SentInv` says of every task that is publishing that the senders
  still to come have not got its event, and that each one that was has got it, could not
  take it or is gone; with each sender once in what `publish` copied (`TopicInv`,
  `TaskInv`) this gives `EverySubscriberServedHolds`. `SequentialInOrderHolds` is
  inductive once the times of the calls are bounded by the clock (`ClockInv`): an event
  is appended to a queue before its call has ended. For any topics, subscribers,
  capacity and number of events.
- `MetricsProofs`. The invariant `CountInv` says that each counter is the number of the
  increments of it that have been seen, a set of pairs of a request and a place in its
  path (`Counted`); that in the ordered memory those still to be seen are the last ones
  of the path (`InOrder`); that every line loaded so far is at least what the requests
  over when the scrape began add to it, and at most what has been seen by now
  (`LinesCount`); and how the last bucket, `+Inf` and the count of a page compare as far
  as they are loaded (`Histogram`). For the last one, a path has "count" directly before
  each bucket (`CountedFirst`), so that no more buckets than counts have been seen
  (`BucketsBelowCount`). `FinishedAreCountedHolds` and `HistogramWellFormedHolds` follow
  for any number of requests, buckets and scrapes.
- `DeploymentProofs`. `StatusInv` says that, while a command runs, its history has what
  is up now as up and what is not as faulted (`History`); that a connection is lost only
  if the program at its other end went down since the command began (`LostIsFaulted`);
  that what a row shows up was up at some moment of the command (`ShownWasUp`); and that
  a service that was up all the time until its row was made is shown up to a patient
  command with a valid endpoint (`UpIsShown`). `StatusTruthfulHolds` follows whatever the
  programs and the world do between the command's steps.
- `AccessProofs`, policies. The loop invariant (each local is the first matching rule of
  its effect among the rules passed) gives `DenyOverridesHolds`, for documents of any
  length and whatever the patterns match. `PatternIsGlobHolds` and
  `SubjectIsNamespacePrefixHolds` are about strings of any length: what a prefix and a
  suffix are, that there is a first "/" (`FirstSlashIs`), that a valid workload id has no
  other (`WorkloadSlash`), so that its namespace is a prefix up to a "/" like any other.
- `AccessProofs`, tokens. `RoundTrip`: `base64_decode` undoes `base64_encode` for bytes
  of every length. A triple is made up of its digits and of its bytes
  (`BitsMakeTriple`, `TripleIs`), so that a chunk with two, one or no "=" is decoded to
  its one, two or three bytes (`ChunkDecoded`); the chunks joined are the data, prefix by
  prefix (`FlattenIs`). `SignatureTells` is what an ideal hash gives: a signature belongs
  to one text and one padded key. The inductive invariant `TokenInv` says how issued
  tokens were made and that the verdict is of something that may be presented;
  `SignedMeansIssuedHolds` and `IssuedIsAcceptedHolds` follow.

- `BenchmarkPlanProofs`, two readers of one text. `Good` texts are the beginnings of what
  `Export-Csv` can write, seen from the state of `Import-Csv`: structure only where it
  belongs, quotes and newlines only in notes. Along such a text the lines that begin
  outside a note (`RowLines`) stay `Live`: they are the rows so far, field by field, of a
  note the first line without its quotes, and inside a note they do not change, token by
  token (`LiveStep`, `OutsideStep` and `NoteLinesSnoc`, together `ReadingHolds`). The
  records of those lines are what is left of all records (`OwnLines`, `DataOutside`,
  `OwnIs`). A file with a byte order mark fails at its header (`BomFails`). Hence
  `AgreeInFull`: llmos reports an error, or those records are the rows of `Import-Csv`.
- `BenchmarkPlanProofs`, the file. `FeedTable` runs `Import-Csv` over an exported table,
  quote by quote, and with `RoundTrip` the script reads back what it wrote. `PlanInv`
  says that the file is always the beginning of what is written for some table; during an
  export it is the one in memory, and until an export was cut the table has the ids and
  models of the plan and the last outcome of each run. It is inductive (`FileIsKept`):
  the script starts from what it reads of any beginning, which is a table again
  (`ImportCsvType`). `ReadersAgreeHolds` follows at once. `ReportTruthfulHolds` needs that the
  rows and complete fields of a beginning are those of the whole (`BeginsAll`, from the
  end of the text to its beginning), that without a phantom no record is lost from view
  (`OwnIsAll`), and that filtering records and taking their ids can change places
  (`AtIds`).

Recursive functions (`FlattenSeq`, folds) are reasoned about through the least place where
a claim about them would fail: that a nonempty set of natural numbers has a least element
(`LeastExists`) follows from the theorem that `<` is well-founded, without an induction
theorem that takes an operator. In `BenchmarkPlanProofs` it gives `Upwards`, for a set of
numbers, and `TextInduction`, for a set of sequences: a set that has the empty text, and
with a text each longer one by a token, has all. For a fold it shows that the recursive
function exists at all and what it is after one token more (`ImportRun`, `ImportSnoc` and
their like).

Only model-checked: every liveness property, since liveness under fairness and `ENABLED`
are outside what the prover does. No module here declares a RECURSIVE operator.

## 6. Not modelled

- Power loss: a completed file system call is durable. `File::flush` does nothing and
  cannot fail. The sink's mutex and the shared policy's lock are never poisoned, since
  nothing panics under them.
- Two edits of the policy file within one granule of the file system's clock: the model
  gives every edit a modification time of its own.
- Grandchildren: an entrypoint runs under a shell, and only the shell is killed.
- Latency under load: in `Deployment` a service that is up all the time answers within
  a timeout that is not zero.
- In `Metrics`, what is not summed up with anything: gauges, latency sums, the counters
  of openings and of failed audit writes. Counters do not wrap (they are 64 bits wide).
- In `BenchmarkPlan`, white space around fields, the columns beyond the five, the
  averages over the chosen rows and the `--limit` of a list.
- Secrets: the first of a list of providers that has a key answers; built once, kept
  nowhere and read by nothing. Kernel profiles: a file whose fields are checked one by
  one. The mock plugin: a loop that answers each line by itself. `common-types`,
  `controlplane-api`, `service-bus` messages, `model-runtime` requests: data types.
  `llmos profile`, `output.rs` and the probe of the MCP runtime: output. None of these
  has state, or an order of steps, that a run could get wrong.

## 7. Plan

Built, in this order: `CircuitBreaker`, `PolicyClient` and its refinement;
`ProcessAction`; `AuditLog`; `PolicyReload`; `McpRuntime`; `ServiceBus`; `PolicyMatch`
and `PolicyEval`; proofs for the first, second, fourth and last of these; `Metrics`;
`Sandbox` in `McpRuntime`; `IdentityToken`; `ModelBackend` under `ProcessAction`,
`PolicyPipeline` with `Authoriser`, the input side of `McpRuntime`, `Deployment` and
`BenchmarkPlan`; proofs for `PolicyPipeline`, `McpRuntime`, `AuditLog`, `ServiceBus` and
the counters of `ProcessAction`; proofs for `Metrics`, `Deployment`, the patterns of
`PolicyMatch` and `IdentityToken`; the filters of `BenchmarkPlan` as folds, and its proofs.

Next: what is under "Not modelled" that a change of the code would bring into reach, such
as two edits of the policy file with one modification time.
