------------------------------ MODULE Metrics ------------------------------
(***************************************************************************)
(* The counters and latency histograms of llmd (RuntimeMetrics, lib.rs)    *)
(* and of the policy engine (PolicyEngineMetrics, metrics.rs): requests    *)
(* increment one AtomicU64 at a time while a scrape of /metrics loads one  *)
(* at a time.                                                              *)
(*                                                                         *)
(* Both programs are the same machine with other paths: a request is a     *)
(* sequence of increments, a page is a sequence of loads.  Left out of     *)
(* both is what is not summed up with anything: the gauges, the latency    *)
(* sum, and the counters of openings and of failed audit writes.           *)
(*                                                                         *)
(* All accesses are Ordering::Relaxed.  "ordered" is what a build for      *)
(* x86-64 does: the increments of a request are seen in program order.     *)
(* "relaxed" is what the language allows: they are seen in any order.      *)
(* Loads of one atomic are in order in either.                             *)
(***************************************************************************)
EXTENDS Naturals, Sequences, FiniteSets, SequencesExt

CONSTANTS Requests,    \* bound: the requests that come
          Buckets,     \* the histogram's buckets, a sequence of names
          MaxRetries,  \* bound: retries of one evaluation
          None

Services == {"llmd", "policy-engine"}
Plain == {"requests", "retries", "allows", "denies", "health", "count"}
Counters == Plain \cup ToSet(Buckets)

ASSUME MetricsAssumption == /\ IsFiniteSet(Requests)
                            /\ MaxRetries \in Nat
                            /\ Buckets \in Seq(STRING) /\ Buckets # <<>>
                            /\ IsInjective(Buckets) /\ ToSet(Buckets) \cap Plain = {}
                            /\ None \notin Seq(Counters) /\ None \notin Seq(Nat)

VARIABLES service,   \* the program
          memory,    \* how the build orders the increments
          counters,
          path,      \* the increments a request makes, None before it comes
          todo,      \* the places in the path of those still to be seen
          page,      \* the lines a scrape has loaded, None when there is none
          settled    \* history: the requests over when the scrape began

vars == <<service, memory, counters, path, todo, page, settled>>

\* Latency class k falls into bucket k, the last one into +Inf only.
Latencies == 1..(Len(Buckets) + 1)
-----------------------------------------------------------------------------
(* The increments of a request.                                            *)

\* A mutant: the bucket is counted before the observation.
MutObserveBucketFirst(latency) ==
    (IF latency \in DOMAIN Buckets THEN <<Buckets[latency]>> ELSE <<>>) \o <<"count">>

\* observe_policy_latency, observe_evaluate_latency.
observe_latency(latency) ==
    <<"count">> \o IF latency \in DOMAIN Buckets THEN <<Buckets[latency]>> ELSE <<>>

Retries(n) == [i \in 1..n |-> "retries"]

\* llmd.  The breaker or build_grpc_request ends evaluate at once.
LlmdRefused == {<<"requests", "denies">>}

\* Denied, also when the service failed; allowed; allowed, and the executor failed.
LlmdEvaluate(n, latency, outcome) ==
    <<"requests">> \o Retries(n) \o observe_latency(latency) \o outcome
LlmdEvaluated == {LlmdEvaluate(n, l, outcome) :
                      n \in 0..MaxRetries, l \in Latencies,
                      outcome \in {<<"denies">>, <<"allows">>, <<>>}}

\* The policy engine.
EngineEvaluate(effect, latency) == <<"requests", effect>> \o observe_latency(latency)
EngineEvaluated == {EngineEvaluate(effect, l) : effect \in {"allows", "denies"}, l \in Latencies}
EngineHealth == {<<"health">>}

Paths == IF service = "llmd" THEN LlmdRefused \cup LlmdEvaluated
         ELSE EngineEvaluated \cup EngineHealth

\* The loads of a page: the counters, the buckets, the bucket +Inf, the count.
LlmdPage == <<"requests", "retries", "denies", "allows">> \o Buckets \o <<"count", "count">>

EnginePage == <<"requests", "allows", "denies", "health">> \o Buckets \o <<"count", "count">>

Page == IF service = "llmd" THEN LlmdPage ELSE EnginePage

\* The places of the histogram's lines on the page.
CountLine == Len(Page)
InfLine == CountLine - 1
BucketLines == (InfLine - Len(Buckets))..(InfLine - 1)
Cumulated == {i \in BucketLines : i - 1 \in BucketLines}
-----------------------------------------------------------------------------
Running == {r \in Requests : path[r] # None /\ todo[r] # {}}
Finished == {r \in Requests : path[r] # None /\ todo[r] = {}}

Init == /\ service \in Services
        /\ memory \in {"ordered", "relaxed"}
        /\ counters = [c \in Counters |-> 0]
        /\ path = [r \in Requests |-> None]
        /\ todo = [r \in Requests |-> {}]
        /\ page = None
        /\ settled = {}

\* llmd takes its requests one after the other, the policy engine at once.
Begin(r) == /\ path[r] = None
            /\ service = "llmd" => Running = {}
            /\ \E p \in Paths : /\ path' = [path EXCEPT ![r] = p]
                                /\ todo' = [todo EXCEPT ![r] = DOMAIN p]
            /\ UNCHANGED <<service, memory, counters, page, settled>>

\* A mutant: load, add and store, of a value loaded when nobody had counted.
MutAddStores(r, i) == /\ i \in todo[r]
                      /\ memory = "ordered" => \A j \in todo[r] : i <= j
                      /\ counters' = [counters EXCEPT ![path[r][i]] = 1]
                      /\ todo' = [todo EXCEPT ![r] = @ \ {i}]
                      /\ UNCHANGED <<service, memory, path, page, settled>>

\* fetch_add(1, Relaxed).
Add(r, i) == /\ i \in todo[r]
             /\ memory = "ordered" => \A j \in todo[r] : i <= j
             /\ counters' = [counters EXCEPT ![path[r][i]] = @ + 1]
             /\ todo' = [todo EXCEPT ![r] = @ \ {i}]
             /\ UNCHANGED <<service, memory, path, page, settled>>

\* A GET of /metrics: render_prometheus begins.
Scrape == /\ page = None
          /\ page' = <<>>
          /\ settled' = Finished
          /\ UNCHANGED <<service, memory, counters, path, todo>>

\* The value of the line that comes next: buckets are shown cumulated.
Shown == LET line == Len(page) + 1
             loaded == counters[Page[line]]
         IN  IF line \in Cumulated THEN page[line - 1] + loaded ELSE loaded

\* load(Relaxed) of the next line's atomic.
LoadLine == /\ page # None /\ Len(page) < Len(Page)
            /\ page' = Append(page, Shown)
            /\ UNCHANGED <<service, memory, counters, path, todo, settled>>

Complete == page # None /\ Len(page) = Len(Page)

\* The response is sent.
Respond == /\ Complete
           /\ page' = None
           /\ settled' = {}
           /\ UNCHANGED <<service, memory, counters, path, todo>>

Next == \/ \E r \in Requests : Begin(r) \/ \E i \in todo[r] : Add(r, i)
        \/ Scrape \/ LoadLine \/ Respond

Spec == Init /\ [][Next]_vars
-----------------------------------------------------------------------------
\* The increments that the requests of R make of the counters of C, and their number.
Increments(C, R) == UNION {{r} \X {i \in DOMAIN path[r] : path[r][i] \in C} : r \in R}
Planned(C, R) == Cardinality(Increments(C, R))

\* The counters that line i shows the sum of.
Summed(i) == IF i \in BucketLines THEN {Page[j] : j \in {k \in BucketLines : k <= i}}
             ELSE {Page[i]}

\* A page's histogram is one: no bucket exceeds +Inf, and +Inf does not exceed the
\* count, though requests are counted while the lines are loaded.  The first needs
\* the order of the increments (the observation before its bucket) and of the
\* loads (the buckets before +Inf), and so a build that keeps them.
HistogramWellFormed ==
    Complete => /\ memory = "ordered" => page[InfLine - 1] <= page[InfLine]
                /\ page[InfLine] <= page[CountLine]

\* Each line of a page counts every request that was over when the scrape began,
\* and only what requests that have come did: concurrent requests lose none of
\* each other's increments, and no line shows another line's counter.
FinishedAreCounted ==
    Complete =>
        \A i \in DOMAIN Page :
            /\ Planned(Summed(i), settled) <= page[i]
            /\ page[i] <= Planned(Summed(i), Running \cup Finished)
=============================================================================
