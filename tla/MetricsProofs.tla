---------------------------- MODULE MetricsProofs ----------------------------
(***************************************************************************)
(* Proofs about Metrics, for any number of requests and any buckets.       *)
(***************************************************************************)
EXTENDS Metrics, FiniteSetTheorems, SequenceTheorems, TLAPS

-----------------------------------------------------------------------------
(* Paths and pages.                                                        *)

\* A bucket comes right after the observation it belongs to.
CountedFirst(p) == \A i \in 1..Len(p) : p[i] \in ToSet(Buckets) => i > 1 /\ p[i - 1] = "count"

LongestPath == MaxRetries + 4

IsPath(p) == p \in Seq(Counters) /\ Len(p) <= LongestPath /\ CountedFirst(p)

LEMMA BucketsApart == ToSet(Buckets) \subseteq Counters /\ \A c \in Plain : c \notin ToSet(Buckets)
  BY MetricsAssumption DEF Counters

\* A concatenation keeps the order.
LEMMA CountedFirstConcat ==
    ASSUME NEW p \in Seq(Counters), NEW q \in Seq(Counters), CountedFirst(p), CountedFirst(q)
    PROVE  /\ p \o q \in Seq(Counters)
           /\ Len(p \o q) = Len(p) + Len(q)
           /\ CountedFirst(p \o q)
<1>1. p \o q \in Seq(Counters) /\ Len(p \o q) = Len(p) + Len(q)
  OBVIOUS
<1>2. ASSUME NEW i \in 1..Len(p \o q), (p \o q)[i] \in ToSet(Buckets)
      PROVE  i > 1 /\ (p \o q)[i - 1] = "count"
  <2>1. CASE i <= Len(p)
    <3>1. p[i] \in ToSet(Buckets) /\ i \in 1..Len(p)
      BY <1>2, <2>1
    <3>2. i > 1 /\ p[i - 1] = "count"
      BY <3>1 DEF CountedFirst
    <3> QED
      BY <1>1, <2>1, <3>2
  <2>2. CASE i > Len(p)
    <3>1. q[i - Len(p)] \in ToSet(Buckets) /\ i - Len(p) \in 1..Len(q)
      BY <1>1, <1>2, <2>2
    <3>2. i - Len(p) > 1 /\ q[i - Len(p) - 1] = "count"
      BY <3>1 DEF CountedFirst
    <3> QED
      BY <1>1, <2>2, <3>2
  <2> QED
    BY <2>1, <2>2
<1> QED
  BY <1>1, <1>2 DEF CountedFirst

LEMMA PlainPath ==
    ASSUME NEW p \in Seq(Plain)
    PROVE  p \in Seq(Counters) /\ CountedFirst(p)
  BY BucketsApart DEF CountedFirst, Counters

LEMMA ObservePath ==
    ASSUME NEW l \in Latencies
    PROVE  /\ observe_latency(l) \in Seq(Counters)
           /\ Len(observe_latency(l)) <= 2
           /\ CountedFirst(observe_latency(l))
<1>1. "count" \in Plain /\ "count" \in Counters
  BY DEF Plain, Counters
<1>2. CASE l \in DOMAIN Buckets
  <2>1. Buckets[l] \in ToSet(Buckets) /\ Buckets[l] \in Counters
    BY <1>2, BucketsApart DEF ToSet
  <2>2. observe_latency(l) = <<"count">> \o <<Buckets[l]>>
    BY <1>2, Zenon DEF observe_latency
  <2> DEFINE c == <<"count">>
             b == <<Buckets[l]>>
  <2>3. c \in Seq(Counters) /\ Len(c) = 1 /\ c[1] = "count" /\ b \in Seq(Counters) /\ Len(b) = 1
    BY <1>1, <2>1
  <2> HIDE DEF c, b
  <2>4. c \o b \in Seq(Counters) /\ Len(c \o b) = 2 /\ (c \o b)[1] = "count"
    BY <2>3, ConcatProperties
  <2>5. CountedFirst(c \o b)
    BY <1>1, <2>4, BucketsApart DEF CountedFirst
  <2>6. observe_latency(l) = c \o b
    BY <2>2 DEF c, b
  <2> QED
    BY <2>4, <2>5, <2>6
<1>3. CASE l \notin DOMAIN Buckets
  <2>1. observe_latency(l) = <<"count">>
    BY <1>3 DEF observe_latency
  <2> QED
    BY <1>1, <2>1, BucketsApart DEF CountedFirst
<1> QED
  BY <1>2, <1>3

\* What a request does is a path.
LEMMA PathsArePaths == \A p \in Paths : IsPath(p)
<1> USE MetricsAssumption
<1>1. ASSUME NEW p \in LlmdRefused PROVE IsPath(p)
  <2>1. p = <<"requests", "denies">>
    BY <1>1, Zenon DEF LlmdRefused
  <2>2. p \in Seq(Plain) /\ Len(p) = 2
    BY <2>1 DEF Plain
  <2> QED
    BY <2>2, PlainPath DEF IsPath, LongestPath
<1>2. ASSUME NEW p \in LlmdEvaluated PROVE IsPath(p)
  <2>0. PICK n \in 0..MaxRetries, l \in Latencies, outcome \in {<<"denies">>, <<"allows">>, <<>>} :
            p = LlmdEvaluate(n, l, outcome)
    BY <1>2 DEF LlmdEvaluated
  <2>1. /\ <<"requests">> \o Retries(n) \in Seq(Plain)
        /\ Len(<<"requests">> \o Retries(n)) = n + 1
    BY DEF Retries, Plain
  <2>2. outcome \in Seq(Plain) /\ Len(outcome) <= 1
    <3>1. "denies" \in Plain /\ "allows" \in Plain
      BY DEF Plain
    <3>2. CASE outcome = <<"denies">>
      BY <3>1, <3>2
    <3>3. CASE outcome = <<"allows">>
      BY <3>1, <3>3
    <3>4. CASE outcome = <<>>
      BY <3>4
    <3> QED
      BY <3>2, <3>3, <3>4
  <2> DEFINE a == <<"requests">> \o Retries(n)
             o == observe_latency(l)
  <2>3. a \in Seq(Counters) /\ CountedFirst(a) /\ outcome \in Seq(Counters) /\ CountedFirst(outcome)
    BY <2>1, <2>2, PlainPath
  <2>4. o \in Seq(Counters) /\ Len(o) <= 2 /\ CountedFirst(o)
    BY ObservePath
  <2>5. Len(a) = n + 1
    BY <2>1
  <2> HIDE DEF a, o
  <2>6. a \o o \in Seq(Counters) /\ Len(a \o o) = Len(a) + Len(o) /\ CountedFirst(a \o o)
    BY <2>3, <2>4, CountedFirstConcat
  <2>7. /\ (a \o o) \o outcome \in Seq(Counters)
        /\ Len((a \o o) \o outcome) = Len(a \o o) + Len(outcome)
        /\ CountedFirst((a \o o) \o outcome)
    BY <2>3, <2>6, CountedFirstConcat
  <2>8. Len(o) \in Nat /\ Len(outcome) \in Nat
    BY <2>3, <2>4
  <2>9. IsPath((a \o o) \o outcome)
    BY <2>2, <2>4, <2>5, <2>6, <2>7, <2>8 DEF IsPath, LongestPath
  <2> QED
    BY <2>0, <2>9, Zenon DEF a, o, LlmdEvaluate
<1>3. ASSUME NEW p \in EngineEvaluated PROVE IsPath(p)
  <2>0. PICK effect \in {"allows", "denies"}, l \in Latencies :
            p = EngineEvaluate(effect, l)
    BY <1>3 DEF EngineEvaluated
  <2> DEFINE a == <<"requests", effect>>
             o == observe_latency(l)
  <2>1. a \in Seq(Plain) /\ Len(a) = 2
    BY DEF Plain
  <2>2. o \in Seq(Counters) /\ Len(o) <= 2 /\ CountedFirst(o)
    BY ObservePath
  <2> HIDE DEF a, o
  <2>3. a \in Seq(Counters) /\ CountedFirst(a)
    BY <2>1, PlainPath
  <2>4. a \o o \in Seq(Counters) /\ Len(a \o o) = Len(a) + Len(o) /\ CountedFirst(a \o o)
    BY <2>2, <2>3, CountedFirstConcat
  <2>5. Len(o) \in Nat
    BY <2>2
  <2>6. IsPath(a \o o)
    BY <2>1, <2>2, <2>4, <2>5 DEF IsPath, LongestPath
  <2> QED
    BY <2>0, <2>6, Zenon DEF a, o, EngineEvaluate
<1>4. ASSUME NEW p \in EngineHealth PROVE IsPath(p)
  <2>1. p = <<"health">>
    BY <1>4, Zenon DEF EngineHealth
  <2>2. p \in Seq(Plain) /\ Len(p) = 1
    BY <2>1 DEF Plain
  <2> QED
    BY <2>2, PlainPath DEF IsPath, LongestPath
<1> QED
  BY <1>1, <1>2, <1>3, <1>4 DEF Paths

\* The parts of a concatenation.
LEMMA ThreeParts ==
    ASSUME NEW S, NEW h \in Seq(S), NEW b \in Seq(S), NEW e \in Seq(S), NEW p, p = h \o b \o e
    PROVE  /\ p \in Seq(S)
           /\ Len(p) = Len(h) + Len(b) + Len(e)
           /\ \A i \in 1..Len(h) : p[i] = h[i]
           /\ \A i \in 1..Len(b) : p[Len(h) + i] = b[i]
           /\ \A i \in 1..Len(e) : p[Len(h) + Len(b) + i] = e[i]
<1> DEFINE hb == h \o b
<1>0. Len(h) \in Nat /\ Len(b) \in Nat /\ Len(e) \in Nat
  OBVIOUS
<1>1. /\ hb \in Seq(S) /\ Len(hb) = Len(h) + Len(b)
      /\ \A i \in 1..(Len(h) + Len(b)) : hb[i] = IF i <= Len(h) THEN h[i] ELSE b[i - Len(h)]
  BY ConcatProperties
<1>2. p = hb \o e
  OBVIOUS
<1> HIDE DEF hb
<1>3. /\ hb \o e \in Seq(S) /\ Len(hb \o e) = Len(hb) + Len(e)
      /\ \A i \in 1..(Len(hb) + Len(e)) : (hb \o e)[i] = IF i <= Len(hb) THEN hb[i] ELSE e[i - Len(hb)]
  <2>1. hb \in Seq(S)
    BY <1>1
  <2> QED
    BY <2>1, ConcatProperties, Zenon
<1>4. p \in Seq(S) /\ Len(p) = Len(h) + Len(b) + Len(e)
  BY <1>1, <1>2, <1>3
<1>5. \A i \in 1..(Len(hb) + Len(e)) : p[i] = IF i <= Len(hb) THEN hb[i] ELSE e[i - Len(hb)]
  BY <1>2, <1>3
<1>6. ASSUME NEW i \in 1..Len(h) PROVE p[i] = h[i]
  BY <1>0, <1>1, <1>5
<1>7. ASSUME NEW i \in 1..Len(b) PROVE p[Len(h) + i] = b[i]
  BY <1>0, <1>1, <1>5
<1>8. ASSUME NEW i \in 1..Len(e) PROVE p[Len(h) + Len(b) + i] = e[i]
  BY <1>0, <1>1, <1>5
<1> QED
  BY <1>4, <1>6, <1>7, <1>8

\* The lines of either program's page.
LEMMA PageIs ==
    /\ Len(Buckets) \in Nat \ {0}
    /\ CountLine = Len(Buckets) + 6 /\ InfLine = Len(Buckets) + 5
    /\ BucketLines = 5..(Len(Buckets) + 4)
    /\ DOMAIN Page = 1..(Len(Buckets) + 6) /\ Len(Page) = Len(Buckets) + 6
    /\ \A i \in DOMAIN Page : Page[i] \in Counters
    /\ \A i \in BucketLines : Page[i] = Buckets[i - 4]
    /\ \A i \in DOMAIN Page \ BucketLines : Page[i] \in Plain
    /\ Page[InfLine] = "count" /\ Page[CountLine] = "count"
<1>1. Buckets \in Seq(Counters) /\ Len(Buckets) \in Nat \ {0}
  <2>1. \A i \in DOMAIN Buckets : Buckets[i] \in Counters
    BY BucketsApart DEF ToSet
  <2> QED
    BY <2>1, MetricsAssumption
<1> DEFINE e == <<"count", "count">>
<1>2. \E h \in Seq(Plain) : Len(h) = 4 /\ Page = h \o Buckets \o e
  <2>1. LlmdPage = <<"requests", "retries", "denies", "allows">> \o Buckets \o <<"count", "count">>
    BY DEF LlmdPage
  <2>2. EnginePage = <<"requests", "allows", "denies", "health">> \o Buckets \o <<"count", "count">>
    BY DEF EnginePage
  <2>3. <<"requests", "retries", "denies", "allows">> \in Seq(Plain)
        /\ <<"requests", "allows", "denies", "health">> \in Seq(Plain)
    BY DEF Plain
  <2>4. Len(<<"requests", "retries", "denies", "allows">>) = 4
        /\ Len(<<"requests", "allows", "denies", "health">>) = 4
    OBVIOUS
  <2> QED
    BY <2>1, <2>2, <2>3, <2>4, Zenon DEF Page
<1>3. PICK h \in Seq(Plain) : Len(h) = 4 /\ Page = h \o Buckets \o e
  BY <1>2
<1>4. Plain \subseteq Counters /\ "count" \in Plain
  BY DEF Plain, Counters
<1>5. e \in Seq(Counters) /\ Len(e) = 2 /\ e[1] = "count" /\ e[2] = "count"
  BY <1>4
<1> HIDE DEF e
<1>6. Len(h) = 4 /\ Page = h \o Buckets \o e
  BY <1>3
<1>7. h \in Seq(Counters) /\ \A i \in 1..Len(h) : h[i] \in Plain
  BY <1>4
<1>8. Buckets \in Seq(Counters) /\ h \in Seq(Counters) /\ e \in Seq(Counters)
  BY <1>1, <1>5, <1>7
<1>9. /\ Page \in Seq(Counters) /\ Len(Page) = Len(h) + Len(Buckets) + Len(e)
      /\ \A i \in 1..Len(h) : Page[i] = h[i]
      /\ \A i \in 1..Len(Buckets) : Page[Len(h) + i] = Buckets[i]
      /\ \A i \in 1..Len(e) : Page[Len(h) + Len(Buckets) + i] = e[i]
  <2>1. Page = h \o Buckets \o e
    BY <1>6
  <2> QED
    BY <1>8, <2>1, ThreeParts
<1>10. Len(h) = 4 /\ Len(e) = 2 /\ e[1] = "count" /\ e[2] = "count"
  BY <1>5, <1>6
<1>11. /\ Len(Page) = Len(Buckets) + 6
       /\ Page[Len(Buckets) + 5] = "count" /\ Page[Len(Buckets) + 6] = "count"
  BY <1>1, <1>9, <1>10
<1>12. /\ CountLine = Len(Buckets) + 6 /\ InfLine = Len(Buckets) + 5
       /\ BucketLines = 5..(Len(Buckets) + 4)
  BY <1>1, <1>11 DEF CountLine, InfLine, BucketLines
<1>13. DOMAIN Page = 1..(Len(Buckets) + 6) /\ \A i \in DOMAIN Page : Page[i] \in Counters
  BY <1>9, <1>11
<1>14. ASSUME NEW i \in BucketLines PROVE Page[i] = Buckets[i - 4]
  <2>1. i - 4 \in 1..Len(Buckets) /\ Len(h) + (i - 4) = i
    BY <1>1, <1>10, <1>12
  <2> QED
    BY <1>9, <2>1
<1>15. ASSUME NEW i \in DOMAIN Page \ BucketLines PROVE Page[i] \in Plain
  <2>1. i \in 1..4 \/ i = Len(Buckets) + 5 \/ i = Len(Buckets) + 6
    BY <1>1, <1>12, <1>13
  <2> QED
    BY <1>4, <1>7, <1>9, <1>10, <1>11, <2>1
<1> QED
  BY <1>1, <1>11, <1>12, <1>13, <1>14, <1>15

-----------------------------------------------------------------------------
(* What the counters count.                                                *)

Places == 1..LongestPath

\* The increments of the counters of C that have been seen.
Done(C) == {a \in Requests \X Places : /\ path[a[1]] # None
                                       /\ a[2] \in DOMAIN path[a[1]] \ todo[a[1]]
                                       /\ path[a[1]][a[2]] \in C}

Types == /\ memory \in {"ordered", "relaxed"}
         /\ counters \in [Counters -> Nat]
         /\ path \in [Requests -> Seq(Counters) \cup {None}]
         /\ todo \in [Requests -> SUBSET Nat]
         /\ \A r \in Requests : IF path[r] = None THEN todo[r] = {}
                                ELSE IsPath(path[r]) /\ todo[r] \subseteq DOMAIN path[r]
         /\ page \in Seq(Nat) \cup {None}
         /\ settled \subseteq Finished

Counted == \A c \in Counters : counters[c] = Cardinality(Done({c}))

\* The increments of a request that are still to be seen are its last ones.
InOrder == memory = "ordered" =>
               \A r \in Requests : \A i \in todo[r] : \A j \in DOMAIN path[r] : i < j => j \in todo[r]

\* A line that was loaded counts what was over before, and nothing that was not begun.
LinesCount == page # None =>
                  /\ Len(page) <= Len(Page)
                  /\ \A i \in 1..Len(page) : /\ Planned(Summed(i), settled) <= page[i]
                                             /\ page[i] <= Cardinality(Done(Summed(i)))

Histogram == page # None =>
                 /\ memory = "ordered" /\ InfLine <= Len(page) => page[InfLine - 1] <= page[InfLine]
                 /\ CountLine <= Len(page) => page[InfLine] <= page[CountLine]

CountInv == Types /\ Counted /\ InOrder /\ LinesCount /\ Histogram

LEMMA PlacesFinite == IsFiniteSet(Requests \X Places) /\ LongestPath \in Nat
<1>1. LongestPath \in Nat
  BY MetricsAssumption DEF LongestPath
<1>2. IsFiniteSet(Places)
  BY <1>1, FS_Interval DEF Places
<1> QED
  BY <1>1, <1>2, MetricsAssumption, FS_Product

LEMMA SizeOf == ASSUME NEW S, S \subseteq Requests \X Places
                PROVE  IsFiniteSet(S) /\ Cardinality(S) \in Nat
  BY PlacesFinite, FS_Subset, FS_CardinalityType

LEMMA SizeGrows == ASSUME NEW S, NEW T, S \subseteq T, T \subseteq Requests \X Places
                   PROVE  Cardinality(S) <= Cardinality(T)
<1>1. IsFiniteSet(T)
  BY SizeOf
<1> QED
  BY <1>1, FS_Subset

LEMMA SizeSplits == ASSUME NEW S, NEW T, S \cap T = {}, S \cup T \subseteq Requests \X Places
                    PROVE  Cardinality(S \cup T) = Cardinality(S) + Cardinality(T)
<1>1. IsFiniteSet(S) /\ IsFiniteSet(T)
  BY SizeOf
<1>2. Cardinality(S \cup T) = Cardinality(S) + Cardinality(T) - Cardinality(S \cap T)
  BY <1>1, FS_Union
<1>3. Cardinality(S \cap T) = 0
  BY FS_EmptySet
<1>4. Cardinality(S) \in Nat /\ Cardinality(T) \in Nat
  BY SizeOf
<1> QED
  BY <1>2, <1>3, <1>4

LEMMA DoneSize == ASSUME NEW C PROVE Cardinality(Done(C)) \in Nat
<1>1. Done(C) \subseteq Requests \X Places
  BY DEF Done
<1> QED
  BY <1>1, SizeOf

LEMMA DoneSplits ==
    ASSUME NEW C, NEW D, C \cap D = {}
    PROVE  Cardinality(Done(C \cup D)) = Cardinality(Done(C)) + Cardinality(Done(D))
<1>1. Done(C \cup D) = Done(C) \cup Done(D) /\ Done(C) \cap Done(D) = {}
  BY DEF Done
<1>2. Done(C) \cup Done(D) \subseteq Requests \X Places
  BY DEF Done
<1> QED
  BY <1>1, <1>2, SizeSplits

\* The places of a request that has begun.
LEMMA PathPlaces ==
    ASSUME Types, NEW r \in Requests, path[r] # None
    PROVE  /\ path[r] \in Seq(Counters) /\ IsPath(path[r])
           /\ DOMAIN path[r] = 1..Len(path[r]) /\ DOMAIN path[r] \subseteq Places
           /\ todo[r] \subseteq DOMAIN path[r]
<1>1. path[r] \in Seq(Counters) /\ IsPath(path[r]) /\ todo[r] \subseteq DOMAIN path[r]
  BY DEF Types
<1>2. Len(path[r]) <= LongestPath /\ Len(path[r]) \in Nat /\ DOMAIN path[r] = 1..Len(path[r])
  BY <1>1 DEF IsPath
<1> QED
  BY <1>1, <1>2, PlacesFinite DEF Places

LEMMA IncrementsIs ==
    ASSUME Types, NEW R, R \subseteq Running \cup Finished, NEW C
    PROVE  Increments(C, R) = {a \in Requests \X Places : /\ a[1] \in R
                                                          /\ a[2] \in DOMAIN path[a[1]]
                                                          /\ path[a[1]][a[2]] \in C}
<1>1. R \subseteq Requests /\ \A r \in R : path[r] # None
  BY DEF Running, Finished
<1>2. \A r \in R : DOMAIN path[r] \subseteq Places
  BY <1>1, PathPlaces
<1> QED
  BY <1>1, <1>2 DEF Increments

LEMMA PlannedSize ==
    ASSUME Types, NEW R, R \subseteq Running \cup Finished, NEW C
    PROVE  Planned(C, R) \in Nat
<1>1. Increments(C, R) \subseteq Requests \X Places
  BY IncrementsIs
<1> QED
  BY <1>1, SizeOf DEF Planned

LEMMA PlannedSplits ==
    ASSUME Types, NEW R, R \subseteq Running \cup Finished, NEW C, NEW D, C \cap D = {}
    PROVE  Planned(C \cup D, R) = Planned(C, R) + Planned(D, R)
<1>1. /\ Increments(C \cup D, R) = Increments(C, R) \cup Increments(D, R)
      /\ Increments(C, R) \cap Increments(D, R) = {}
      /\ Increments(C, R) \cup Increments(D, R) \subseteq Requests \X Places
  BY IncrementsIs
<1> QED
  BY <1>1, SizeSplits DEF Planned

\* What requests that are over planned is done, and what is done was planned.
LEMMA FinishedIsDone ==
    ASSUME Types, NEW R, R \subseteq Finished, NEW C
    PROVE  Planned(C, R) <= Cardinality(Done(C))
<1>1. Increments(C, R) \subseteq Done(C) /\ Done(C) \subseteq Requests \X Places
  BY IncrementsIs DEF Done, Finished
<1> QED
  BY <1>1, SizeGrows DEF Planned

LEMMA DoneIsPlanned ==
    ASSUME Types, NEW C
    PROVE  Cardinality(Done(C)) <= Planned(C, Running \cup Finished)
<1>1. Done(C) \subseteq Increments(C, Running \cup Finished)
  BY IncrementsIs DEF Done, Running, Finished
<1>2. Increments(C, Running \cup Finished) \subseteq Requests \X Places
  BY IncrementsIs
<1> QED
  BY <1>1, <1>2, SizeGrows DEF Planned

\* In program order, the observation of each bucket that was counted was counted.
LEMMA BucketsBelowCount ==
    ASSUME Types, InOrder, memory = "ordered"
    PROVE  Cardinality(Done(ToSet(Buckets))) <= Cardinality(Done({"count"}))
<1> DEFINE B == Done(ToSet(Buckets))
           O == Done({"count"})
           f == [a \in B |-> <<a[1], a[2] - 1>>]
<1>1. ASSUME NEW a \in B PROVE f[a] \in O
  <2>1. /\ a[1] \in Requests /\ a[2] \in Places /\ path[a[1]] # None
        /\ a[2] \in DOMAIN path[a[1]] /\ a[2] \notin todo[a[1]]
        /\ path[a[1]][a[2]] \in ToSet(Buckets)
    BY <1>1 DEF Done
  <2>2. /\ path[a[1]] \in Seq(Counters) /\ CountedFirst(path[a[1]])
        /\ DOMAIN path[a[1]] = 1..Len(path[a[1]]) /\ DOMAIN path[a[1]] \subseteq Places
    BY <2>1, PathPlaces DEF IsPath
  <2>3. a[2] \in Nat /\ a[2] > 1 /\ path[a[1]][a[2] - 1] = "count"
    BY <2>1, <2>2 DEF CountedFirst
  <2>4. a[2] - 1 \in DOMAIN path[a[1]] /\ a[2] - 1 \in Places
    BY <2>1, <2>2, <2>3
  <2>5. a[2] - 1 \notin todo[a[1]]
    BY <2>1, <2>3 DEF InOrder
  <2>6. f[a] = <<a[1], a[2] - 1>>
    BY <1>1
  <2> QED
    BY <2>1, <2>3, <2>4, <2>5, <2>6 DEF Done
<1>2. ASSUME NEW a \in B, NEW b \in B, f[a] = f[b] PROVE a = b
  <2>1. a[1] = b[1] /\ a[2] - 1 = b[2] - 1
    BY <1>2
  <2>2. a \in Requests \X Places /\ b \in Requests \X Places
    BY DEF Done
  <2>3. a[2] \in Nat /\ b[2] \in Nat
    BY <2>2, PlacesFinite DEF Places
  <2> QED
    BY <2>1, <2>2, <2>3
<1>3. f \in Injection(B, O)
  BY <1>1, <1>2 DEF Injection, IsInjective
<1>4. IsFiniteSet(O)
  <2>1. O \subseteq Requests \X Places
    BY DEF Done
  <2> QED
    BY <2>1, SizeOf
<1> QED
  BY <1>3, <1>4, FS_Injection

-----------------------------------------------------------------------------
(* Every step keeps the invariant.                                         *)

LEMMA InitCount == Init => CountInv
<1> SUFFICES ASSUME Init PROVE CountInv
  OBVIOUS
<1>1. Types
  BY DEF Init, Types, Finished
<1>2. \A c \in Counters : Done({c}) = {} /\ counters[c] = 0
  BY DEF Init, Done
<1>3. Counted
  BY <1>2, FS_EmptySet DEF Counted
<1> QED
  BY <1>1, <1>3 DEF Init, CountInv, InOrder, LinesCount, Histogram


LEMMA SamePage ==
    ASSUME UNCHANGED service
    PROVE  /\ Page' = Page /\ InfLine' = InfLine /\ CountLine' = CountLine
           /\ \A i : Summed(i)' = Summed(i)
<1>1. Page' = Page
  BY DEF Page
<1>2. InfLine' = InfLine /\ CountLine' = CountLine /\ BucketLines' = BucketLines
  BY <1>1 DEF InfLine, CountLine, BucketLines
<1> QED
  BY <1>1, <1>2 DEF Summed

LEMMA SamePlan ==
    ASSUME NEW CONSTANT C, NEW CONSTANT R, \A r \in R : path'[r] = path[r]
    PROVE  Planned(C, R)' = Planned(C, R)
<1>1. Increments(C, R)' = Increments(C, R)
  BY DEF Increments
<1> QED
  BY <1>1 DEF Planned

\* A step of a request keeps what a page shows.
LEMMA LinesKept ==
    ASSUME CountInv, UNCHANGED <<service, memory, page, settled>>,
           \A r \in settled : path'[r] = path[r],
           \A C : Cardinality(Done(C)) <= Cardinality(Done(C)')
    PROVE  LinesCount' /\ Histogram'
<1>1. /\ Page' = Page /\ InfLine' = InfLine /\ CountLine' = CountLine
      /\ \A i : Summed(i)' = Summed(i)
  BY SamePage
<1>2. ASSUME page # None, NEW i \in 1..Len(page)
      PROVE  /\ Planned(Summed(i), settled)' <= page[i]
             /\ page[i] <= Cardinality(Done(Summed(i))')
  <2>1. PICK C, R : C = Summed(i) /\ R = settled
    OBVIOUS
  <2>2. Planned(C, R)' = Planned(C, R)
    BY <2>1, SamePlan
  <2>3. C = Summed(i)' /\ R = settled'
    BY <1>1, <2>1
  <2>4. Planned(Summed(i), settled)' = Planned(C, R)'
    BY <2>3 DEF Planned, Increments
  <2>5. Done(Summed(i))' = Done(C)'
    BY <2>3 DEF Done
  <2>6. page[i] \in Nat
    BY <1>2 DEF CountInv, Types
  <2>7. Cardinality(Done(C)) \in Nat /\ Cardinality(Done(C)') \in Nat
    <3>1. Done(C)' \subseteq Requests \X Places
      BY DEF Done
    <3> QED
      BY <3>1, DoneSize, SizeOf
  <2>8. Planned(Summed(i), settled) <= page[i] /\ page[i] <= Cardinality(Done(C))
    BY <1>2, <2>1 DEF CountInv, LinesCount
  <2>9. Cardinality(Done(C)) <= Cardinality(Done(C)')
    OBVIOUS
  <2> QED
    BY <2>1, <2>2, <2>4, <2>5, <2>6, <2>7, <2>8, <2>9
<1>3. LinesCount'
  BY <1>1, <1>2 DEF CountInv, LinesCount
<1>4. Histogram'
  BY <1>1 DEF CountInv, Histogram
<1> QED
  BY <1>3, <1>4

LEMMA BeginKeeps ==
    ASSUME CountInv, NEW r \in Requests, Begin(r)
    PROVE  CountInv'
<1>0. PICK p \in Paths : path' = [path EXCEPT ![r] = p] /\ todo' = [todo EXCEPT ![r] = DOMAIN p]
  BY DEF Begin
<1>1. UNCHANGED <<service, memory, counters, page, settled>> /\ path[r] = None
  BY DEF Begin
<1>2. IsPath(p) /\ p # None /\ DOMAIN p = 1..Len(p) /\ p \in Seq(Counters)
  BY PathsArePaths, MetricsAssumption DEF IsPath
<1>3. Types
  BY DEF CountInv
<1>4. /\ path'[r] = p /\ todo'[r] = DOMAIN p
      /\ \A s \in Requests \ {r} : path'[s] = path[s] /\ todo'[s] = todo[s]
      /\ path' \in [Requests -> Seq(Counters) \cup {None}]
      /\ todo' \in [Requests -> SUBSET Nat]
  BY <1>0, <1>2, <1>3 DEF Types
<1>5. r \notin settled /\ settled \subseteq Finished'
  BY <1>1, <1>3, <1>4 DEF Types, Finished
<1>6. Types'
  BY <1>1, <1>2, <1>3, <1>4, <1>5 DEF Types
<1>7. ASSUME NEW C PROVE Done(C)' = Done(C)
  BY <1>1, <1>4 DEF Done
<1>8. Counted'
  BY <1>1, <1>7 DEF CountInv, Counted
<1>9. InOrder'
  BY <1>1, <1>4 DEF CountInv, InOrder
<1>10. LinesCount' /\ Histogram'
  <2>1. \A s \in settled : path'[s] = path[s]
    BY <1>3, <1>4, <1>5 DEF Types, Finished
  <2>2. \A C : Cardinality(Done(C)) <= Cardinality(Done(C)')
    BY <1>7, DoneSize
  <2> QED
    BY <1>1, <2>1, <2>2, LinesKept
<1> QED
  BY <1>6, <1>8, <1>9, <1>10 DEF CountInv

LEMMA AddKeeps ==
    ASSUME CountInv, NEW r \in Requests, NEW i \in todo[r], Add(r, i)
    PROVE  CountInv'
<1>0. /\ memory = "ordered" => \A j \in todo[r] : i <= j
      /\ counters' = [counters EXCEPT ![path[r][i]] = @ + 1]
      /\ todo' = [todo EXCEPT ![r] = @ \ {i}]
      /\ UNCHANGED <<service, memory, path, page, settled>>
  BY DEF Add
<1>1. Types
  BY DEF CountInv
<1>2. path[r] # None
  BY <1>1 DEF Types
<1>3. /\ path[r] \in Seq(Counters) /\ i \in DOMAIN path[r] /\ i \in Nat
      /\ DOMAIN path[r] = 1..Len(path[r]) /\ i \in Places
      /\ todo[r] \subseteq DOMAIN path[r]
  BY <1>1, <1>2, PathPlaces
<1>4. path[r][i] \in Counters
  BY <1>3
<1>5. /\ todo'[r] = todo[r] \ {i}
      /\ \A s \in Requests \ {r} : todo'[s] = todo[s]
      /\ todo' \in [Requests -> SUBSET Nat]
  BY <1>0, <1>1 DEF Types
<1>6. /\ counters' \in [Counters -> Nat]
      /\ counters'[path[r][i]] = counters[path[r][i]] + 1
      /\ \A c \in Counters \ {path[r][i]} : counters'[c] = counters[c]
  BY <1>0, <1>1, <1>4 DEF Types
<1>7. Types'
  <2>1. settled \subseteq Finished'
    BY <1>0, <1>1, <1>5 DEF Types, Finished
  <2> QED
    BY <1>0, <1>1, <1>5, <1>6, <2>1 DEF Types
<1>8. ASSUME NEW C
      PROVE  /\ <<r, i>> \notin Done(C)
             /\ Done(C)' = IF path[r][i] \in C THEN Done(C) \cup {<<r, i>>} ELSE Done(C)
  <2>1. <<r, i>> \notin Done(C)
    BY DEF Done
  <2>2. ASSUME NEW a \in Requests \X Places, a # <<r, i>>
        PROVE  a \in Done(C)' <=> a \in Done(C)
    <3>1. a[1] # r \/ a[2] # i
      BY <2>2
    <3>2. a[2] \in todo'[a[1]] <=> a[2] \in todo[a[1]]
      BY <1>5, <3>1
    <3> QED
      BY <1>0, <3>2 DEF Done
  <2>3. <<r, i>> \in Done(C)' <=> path[r][i] \in C
    BY <1>0, <1>2, <1>3, <1>5 DEF Done
  <2>4. Done(C) \subseteq Requests \X Places /\ Done(C)' \subseteq Requests \X Places
    BY DEF Done
  <2> QED
    BY <2>1, <2>2, <2>3, <2>4
<1>9. ASSUME NEW C
      PROVE  Cardinality(Done(C)') = IF path[r][i] \in C THEN Cardinality(Done(C)) + 1
                                     ELSE Cardinality(Done(C))
  <2>1. IsFiniteSet(Done(C))
    <3>1. Done(C) \subseteq Requests \X Places
      BY DEF Done
    <3> QED
      BY <3>1, SizeOf
  <2>2. Cardinality(Done(C) \cup {<<r, i>>}) = Cardinality(Done(C)) + 1
    BY <1>8, <2>1, FS_AddElement
  <2> QED
    BY <1>8, <2>2
<1>10. Counted'
  <2> SUFFICES ASSUME NEW c \in Counters PROVE counters'[c] = Cardinality(Done({c})')
    BY DEF Counted
  <2>1. counters[c] = Cardinality(Done({c}))
    BY DEF CountInv, Counted
  <2>2. Cardinality(Done({c})') = IF path[r][i] \in {c} THEN Cardinality(Done({c})) + 1
                                  ELSE Cardinality(Done({c}))
    BY <1>9
  <2> QED
    BY <1>6, <2>1, <2>2
<1>11. InOrder'
  <2> SUFFICES ASSUME memory = "ordered", NEW s \in Requests, NEW k \in todo'[s],
                      NEW j \in DOMAIN path[s], k < j
               PROVE  j \in todo'[s]
    BY <1>0 DEF InOrder
  <2>1. k \in todo[s] /\ j \in todo[s]
    BY <1>5 DEF CountInv, InOrder
  <2>2. s = r => i <= k /\ j # i
    BY <1>0, <1>3, <2>1
  <2> QED
    BY <1>5, <2>1, <2>2
<1>12. LinesCount' /\ Histogram'
  <2>1. \A C : Cardinality(Done(C)) <= Cardinality(Done(C)')
    BY <1>9, DoneSize
  <2> QED
    BY <1>0, <2>1, LinesKept
<1> QED
  BY <1>7, <1>10, <1>11, <1>12 DEF CountInv

LEMMA ScrapeKeeps ==
    ASSUME CountInv, Scrape
    PROVE  CountInv'
<1>1. page' = <<>> /\ settled' = Finished /\ UNCHANGED <<service, memory, counters, path, todo>>
  BY DEF Scrape
<1>2. Types'
  BY <1>1 DEF CountInv, Types, Finished
<1>3. Counted' /\ InOrder'
  BY <1>1 DEF CountInv, Counted, InOrder, Done
<1>4. Len(page') = 0 /\ Page' = Page /\ InfLine' = InfLine /\ CountLine' = CountLine
  BY <1>1, SamePage
<1>5. LinesCount' /\ Histogram'
  BY <1>4, PageIs DEF LinesCount, Histogram
<1> QED
  BY <1>2, <1>3, <1>5 DEF CountInv

LEMMA RespondKeeps ==
    ASSUME CountInv, Respond
    PROVE  CountInv'
<1>1. page' = None /\ settled' = {} /\ UNCHANGED <<service, memory, counters, path, todo>>
  BY DEF Respond
<1>2. Types'
  BY <1>1 DEF CountInv, Types
<1>3. Counted' /\ InOrder'
  BY <1>1 DEF CountInv, Counted, InOrder, Done
<1>4. LinesCount' /\ Histogram'
  BY <1>1 DEF LinesCount, Histogram
<1> QED
  BY <1>2, <1>3, <1>4 DEF CountInv

\* What each kind of line shows the sum of.
LEMMA SummedIs ==
    /\ \A i \in DOMAIN Page \ BucketLines : Summed(i) = {Page[i]}
    /\ \A i \in BucketLines \ Cumulated : Summed(i) = {Page[i]}
    /\ \A i \in Cumulated : /\ i - 1 \in BucketLines
                            /\ Summed(i) = Summed(i - 1) \cup {Page[i]}
                            /\ Summed(i - 1) \cap {Page[i]} = {}
    /\ InfLine - 1 \in BucketLines /\ Summed(InfLine - 1) = ToSet(Buckets)
    /\ Summed(InfLine) = {"count"} /\ Summed(CountLine) = {"count"}
<1>0. /\ Len(Buckets) \in Nat \ {0}
      /\ CountLine = Len(Buckets) + 6 /\ InfLine = Len(Buckets) + 5
      /\ BucketLines = 5..(Len(Buckets) + 4)
      /\ DOMAIN Page = 1..(Len(Buckets) + 6)
      /\ \A i \in BucketLines : Page[i] = Buckets[i - 4]
      /\ Page[InfLine] = "count" /\ Page[CountLine] = "count"
  BY PageIs
<1>1. ASSUME NEW i, i \notin BucketLines PROVE Summed(i) = {Page[i]}
  BY <1>1 DEF Summed
<1>2. ASSUME NEW i \in BucketLines
      PROVE  Summed(i) = {Page[j] : j \in 5..i}
  <2>1. {k \in BucketLines : k <= i} = 5..i
    BY <1>0
  <2> QED
    BY <2>1 DEF Summed
<1>3. ASSUME NEW i \in BucketLines \ Cumulated PROVE Summed(i) = {Page[i]}
  <2>1. i = 5
    BY <1>0 DEF Cumulated
  <2>2. 5..i = {i}
    BY <2>1
  <2>3. {Page[j] : j \in {i}} = {Page[i]}
    OBVIOUS
  <2> QED
    BY <1>2, <2>2, <2>3
<1>4. ASSUME NEW i \in Cumulated
      PROVE  /\ i - 1 \in BucketLines
             /\ Summed(i) = Summed(i - 1) \cup {Page[i]}
             /\ Summed(i - 1) \cap {Page[i]} = {}
  <2>1. i \in BucketLines /\ i - 1 \in BucketLines
    BY DEF Cumulated
  <2>2. 5..i = 5..(i - 1) \cup {i}
    BY <1>0, <2>1
  <2>3. Summed(i) = {Page[j] : j \in 5..i} /\ Summed(i - 1) = {Page[j] : j \in 5..(i - 1)}
    BY <1>2, <2>1
  <2>4. Summed(i) = Summed(i - 1) \cup {Page[i]}
    BY <2>2, <2>3
  <2>5. ASSUME NEW j \in 5..(i - 1) PROVE Page[j] # Page[i]
    <3>1. j \in BucketLines /\ Page[j] = Buckets[j - 4] /\ Page[i] = Buckets[i - 4]
      BY <1>0, <2>1
    <3>2. j - 4 \in DOMAIN Buckets /\ i - 4 \in DOMAIN Buckets /\ j - 4 # i - 4
      BY <1>0, <2>1, <3>1, MetricsAssumption
    <3> QED
      BY <3>1, <3>2, MetricsAssumption DEF IsInjective
  <2> QED
    BY <2>1, <2>3, <2>4, <2>5
<1>5. InfLine - 1 \in BucketLines /\ Summed(InfLine - 1) = ToSet(Buckets)
  <2>1. InfLine - 1 = Len(Buckets) + 4 /\ InfLine - 1 \in BucketLines
    BY <1>0
  <2>2. Summed(InfLine - 1) = {Page[j] : j \in BucketLines}
    BY <1>0, <1>2, <2>1
  <2>3. DOMAIN Buckets = 1..Len(Buckets)
    BY MetricsAssumption
  <2>4. ASSUME NEW j \in BucketLines PROVE Page[j] \in ToSet(Buckets)
    <3>1. j - 4 \in DOMAIN Buckets
      BY <1>0, <2>3
    <3> QED
      BY <1>0, <3>1 DEF ToSet
  <2>5. ASSUME NEW k \in DOMAIN Buckets PROVE \E j \in BucketLines : Page[j] = Buckets[k]
    <3>1. k + 4 \in BucketLines /\ (k + 4) - 4 = k
      BY <1>0, <2>3
    <3> QED
      BY <1>0, <3>1
  <2> QED
    BY <2>1, <2>2, <2>4, <2>5 DEF ToSet
<1>6. Summed(InfLine) = {"count"} /\ Summed(CountLine) = {"count"}
  <2>1. InfLine \notin BucketLines /\ CountLine \notin BucketLines
    BY <1>0
  <2> QED
    BY <1>0, <1>1, <2>1
<1> QED
  BY <1>1, <1>3, <1>4, <1>5, <1>6

\* The line that is loaded next counts what it should.
LEMMA ShownCounts ==
    ASSUME CountInv, page # None, NEW line, line = Len(page) + 1, line \in DOMAIN Page
    PROVE  /\ Shown \in Nat
           /\ Planned(Summed(line), settled) <= Shown
           /\ Shown <= Cardinality(Done(Summed(line)))
           /\ line \in {InfLine, CountLine} => Shown = Cardinality(Done({"count"}))
<1> DEFINE c == Page[line]
<1>0. Types /\ settled \subseteq Finished /\ page \in Seq(Nat)
  BY DEF CountInv, Types
<1>1. c \in Counters /\ counters[c] = Cardinality(Done({c})) /\ counters[c] \in Nat
  BY <1>0, PageIs DEF CountInv, Counted, Types
<1>2. ASSUME NEW C
      PROVE  /\ Planned(C, settled) \in Nat /\ Cardinality(Done(C)) \in Nat
             /\ Planned(C, settled) <= Cardinality(Done(C))
  <2>1. settled \subseteq Running \cup Finished
    BY <1>0
  <2> QED
    BY <1>0, <2>1, PlannedSize, DoneSize, FinishedIsDone
<1>3. CASE line \notin Cumulated
  <2>1. Shown = counters[c]
    BY <1>3 DEF Shown
  <2>2. Summed(line) = {c}
    BY <1>3, SummedIs
  <2>3. line \in {InfLine, CountLine} => c = "count"
    BY PageIs
  <2> HIDE DEF c
  <2>4. Planned({c}, settled) <= Cardinality(Done({c}))
    BY <1>2
  <2>5. Shown = Cardinality(Done({c})) /\ Shown \in Nat
    BY <1>1, <2>1
  <2>6. line \in {InfLine, CountLine} => Shown = Cardinality(Done({"count"}))
    BY <2>3, <2>5
  <2>7. Planned(Summed(line), settled) <= Shown /\ Shown <= Cardinality(Done(Summed(line)))
    <3>1. /\ Planned(Summed(line), settled) = Planned({c}, settled)
          /\ Cardinality(Done(Summed(line))) = Cardinality(Done({c}))
      BY <2>2, Zenon
    <3> QED
      BY <2>4, <2>5, <3>1
  <2> QED
    BY <2>5, <2>6, <2>7
<1>4. CASE line \in Cumulated
  <2> DEFINE before == Summed(line - 1)
  <2>1. line - 1 = Len(page) /\ line - 1 \in 1..Len(page) /\ page[line - 1] \in Nat
    <3>1. line - 1 \in BucketLines
      BY <1>4, SummedIs
    <3> QED
      BY <1>0, <3>1, PageIs
  <2>2. Shown = page[line - 1] + counters[c]
    BY <1>4 DEF Shown
  <2>3. Summed(line) = before \cup {c} /\ before \cap {c} = {}
    BY <1>4, SummedIs
  <2>4. Planned(before, settled) <= page[line - 1] /\ page[line - 1] <= Cardinality(Done(before))
    BY <2>1 DEF CountInv, LinesCount
  <2> HIDE DEF before, c
  <2>5. Cardinality(Done(before \cup {c})) = Cardinality(Done(before)) + Cardinality(Done({c}))
    BY <2>3, DoneSplits
  <2>6. Planned(before \cup {c}, settled) = Planned(before, settled) + Planned({c}, settled)
    <3>1. settled \subseteq Running \cup Finished
      BY <1>0
    <3> QED
      BY <1>0, <2>3, <3>1, PlannedSplits
  <2>7. line \notin {InfLine, CountLine}
    BY <1>4, PageIs DEF Cumulated
  <2>8. /\ Planned(before, settled) \in Nat /\ Cardinality(Done(before)) \in Nat
        /\ Planned({c}, settled) \in Nat /\ Planned({c}, settled) <= Cardinality(Done({c}))
    BY <1>2
  <2>9. Shown = page[line - 1] + Cardinality(Done({c})) /\ Cardinality(Done({c})) \in Nat
    BY <1>1, <2>2, DoneSize
  <2>10. Shown \in Nat
    BY <2>1, <2>9
  <2>11. Planned(before \cup {c}, settled) <= Shown
    BY <2>1, <2>4, <2>6, <2>8, <2>9
  <2>12. Shown <= Cardinality(Done(before \cup {c}))
    BY <2>1, <2>4, <2>5, <2>8, <2>9
  <2> QED
    BY <2>3, <2>7, <2>10, <2>11, <2>12
<1> QED
  BY <1>3, <1>4

LEMMA LoadKeeps ==
    ASSUME CountInv, LoadLine
    PROVE  CountInv'
<1> DEFINE line == Len(page) + 1
<1>1. /\ page # None /\ Len(page) < Len(Page)
      /\ page' = Append(page, Shown)
      /\ UNCHANGED <<service, memory, counters, path, todo, settled>>
  BY DEF LoadLine
<1>2. page \in Seq(Nat) /\ Len(page) \in Nat
  BY <1>1 DEF CountInv, Types
<1>3. line \in DOMAIN Page /\ line \in Nat
  BY <1>1, <1>2, PageIs
<1>4. /\ Shown \in Nat
      /\ Planned(Summed(line), settled) <= Shown
      /\ Shown <= Cardinality(Done(Summed(line)))
      /\ line \in {InfLine, CountLine} => Shown = Cardinality(Done({"count"}))
  BY <1>1, <1>3, ShownCounts
<1>5. /\ page' \in Seq(Nat) /\ page' # None /\ Len(page') = line
      /\ page'[line] = Shown /\ \A i \in 1..Len(page) : page'[i] = page[i]
  <2>1. /\ Append(page, Shown) \in Seq(Nat) /\ Len(Append(page, Shown)) = line
        /\ Append(page, Shown)[line] = Shown
        /\ \A i \in 1..Len(page) : Append(page, Shown)[i] = page[i]
    BY <1>2, <1>4
  <2>2. None \notin Seq(Nat)
    BY MetricsAssumption
  <2> QED
    BY <1>1, <2>1, <2>2
<1>6. Types' /\ Counted' /\ InOrder'
  <2>1. Finished' = Finished
    BY <1>1 DEF Finished
  <2>2. \A c \in Counters : Done({c})' = Done({c})
    BY <1>1 DEF Done
  <2> QED
    BY <1>1, <1>5, <2>1, <2>2 DEF CountInv, Types, Counted, InOrder
<1>7. Page' = Page /\ InfLine' = InfLine /\ CountLine' = CountLine /\ \A i : Summed(i)' = Summed(i)
  BY <1>1, SamePage
<1>8. LinesCount'
  <2>1. ASSUME NEW i \in 1..line
        PROVE  Planned(Summed(i), settled) <= page'[i] /\ page'[i] <= Cardinality(Done(Summed(i)))
    BY <1>1, <1>2, <1>4, <1>5 DEF CountInv, LinesCount
  <2>2. ASSUME NEW i PROVE Planned(Summed(i), settled)' = Planned(Summed(i), settled)
    <3>1. Increments(Summed(i), settled)' = Increments(Summed(i), settled)
      BY <1>1, <1>7 DEF Increments
    <3> QED
      BY <3>1 DEF Planned
  <2>3. \A i : Done(Summed(i))' = Done(Summed(i))
    BY <1>1, <1>7 DEF Done
  <2>4. line <= Len(Page)
    BY <1>1, <1>2, PageIs
  <2> QED
    BY <1>5, <1>7, <2>1, <2>2, <2>3, <2>4 DEF LinesCount
<1>9. Histogram'
  <2>0. /\ InfLine \in Nat /\ InfLine > 1 /\ CountLine = InfLine + 1
        /\ Summed(InfLine - 1) = ToSet(Buckets) /\ Summed(InfLine) = {"count"}
    BY PageIs, SummedIs
  <2>1. CASE line < InfLine
    BY <1>3, <1>5, <1>7, <2>0, <2>1 DEF Histogram
  <2>2. CASE line = InfLine
    <3>1. page[InfLine - 1] <= Cardinality(Done(ToSet(Buckets))) /\ page[InfLine - 1] \in Nat
      <4>1. InfLine - 1 \in 1..Len(page)
        BY <1>2, <2>0, <2>2
      <4> QED
        BY <1>1, <1>2, <2>0, <4>1 DEF CountInv, LinesCount
    <3>2. memory = "ordered" => Cardinality(Done(ToSet(Buckets))) <= Cardinality(Done({"count"}))
      BY BucketsBelowCount DEF CountInv
    <3>3. page'[InfLine - 1] = page[InfLine - 1] /\ page'[InfLine] = Cardinality(Done({"count"}))
      BY <1>2, <1>4, <1>5, <2>0, <2>2
    <3>4. memory = "ordered" => page'[InfLine - 1] <= page'[InfLine]
      BY <3>1, <3>2, <3>3, DoneSize
    <3>5. ~(CountLine <= Len(page'))
      BY <1>5, <2>0, <2>2
    <3> QED
      BY <1>1, <1>7, <3>4, <3>5 DEF Histogram
  <2>3. CASE line > InfLine
    <3>1. line = CountLine /\ InfLine \in 1..Len(page) /\ InfLine - 1 \in 1..Len(page)
      BY <1>1, <1>2, <2>0, <2>3, PageIs
    <3>2. page[InfLine] <= Cardinality(Done({"count"}))
      BY <1>1, <2>0, <3>1 DEF CountInv, LinesCount
    <3>3. page'[CountLine] = Cardinality(Done({"count"}))
      BY <1>4, <1>5, <3>1
    <3>4. page'[InfLine] = page[InfLine] /\ page'[InfLine - 1] = page[InfLine - 1]
      BY <1>5, <3>1
    <3>5. memory = "ordered" => page[InfLine - 1] <= page[InfLine]
      BY <1>1, <3>1 DEF CountInv, Histogram
    <3> QED
      BY <1>1, <1>7, <3>2, <3>3, <3>4, <3>5 DEF Histogram
  <2> QED
    BY <1>3, <2>0, <2>1, <2>2, <2>3
<1> QED
  BY <1>6, <1>8, <1>9 DEF CountInv

LEMMA NextCount == CountInv /\ [Next]_vars => CountInv'
<1> SUFFICES ASSUME CountInv, [Next]_vars PROVE CountInv'
  OBVIOUS
<1>1. ASSUME NEW r \in Requests, Begin(r) PROVE CountInv'
  BY <1>1, BeginKeeps
<1>2. ASSUME NEW r \in Requests, NEW i \in todo[r], Add(r, i) PROVE CountInv'
  BY <1>2, AddKeeps
<1>3. CASE Scrape
  BY <1>3, ScrapeKeeps
<1>4. CASE LoadLine
  BY <1>4, LoadKeeps
<1>5. CASE Respond
  BY <1>5, RespondKeeps
<1>6. CASE UNCHANGED vars
  <2>1. UNCHANGED <<service, memory, counters, path, todo, page, settled>>
    BY <1>6 DEF vars
  <2>2. Types' /\ Counted' /\ InOrder'
    BY <2>1 DEF CountInv, Types, Counted, InOrder, Done, Finished
  <2>3. LinesCount' /\ Histogram'
    <3>1. \A C : Cardinality(Done(C)) <= Cardinality(Done(C)')
      <4>1. \A C : Done(C)' = Done(C)
        BY <2>1 DEF Done
      <4> QED
        BY <4>1, DoneSize
    <3> QED
      BY <2>1, <3>1, LinesKept
  <2> QED
    BY <2>2, <2>3 DEF CountInv
<1> QED
  BY <1>1, <1>2, <1>3, <1>4, <1>5, <1>6 DEF Next

\* The inductive invariant of the requests and the scrape of either program.
THEOREM CountInvHolds == Spec => []CountInv
  BY InitCount, NextCount, PTL DEF Spec

\* A page's histogram is well formed, for any number of requests and buckets.
THEOREM HistogramWellFormedHolds == Spec => []HistogramWellFormed
<1>1. CountInv => HistogramWellFormed
  BY PageIs DEF CountInv, Histogram, HistogramWellFormed, Complete
<1> QED
  BY <1>1, CountInvHolds, PTL

\* No increment is lost, and none is shown that was not made.
THEOREM FinishedAreCountedHolds == Spec => []FinishedAreCounted
<1>1. CountInv => FinishedAreCounted
  <2> SUFFICES ASSUME CountInv, Complete, NEW i \in DOMAIN Page
               PROVE  /\ Planned(Summed(i), settled) <= page[i]
                      /\ page[i] <= Planned(Summed(i), Running \cup Finished)
    BY DEF FinishedAreCounted
  <2>1. Types /\ page \in Seq(Nat) /\ page # None /\ i \in 1..Len(page)
    BY PageIs DEF Complete, CountInv, Types
  <2>2. /\ Planned(Summed(i), settled) <= page[i]
        /\ page[i] <= Cardinality(Done(Summed(i)))
    BY <2>1 DEF CountInv, LinesCount
  <2>3. Cardinality(Done(Summed(i))) <= Planned(Summed(i), Running \cup Finished)
    BY <2>1, DoneIsPlanned
  <2>4. /\ page[i] \in Nat /\ Cardinality(Done(Summed(i))) \in Nat
        /\ Planned(Summed(i), Running \cup Finished) \in Nat
    BY <2>1, DoneSize, PlannedSize
  <2> QED
    BY <2>2, <2>3, <2>4
<1> QED
  BY <1>1, CountInvHolds, PTL
=============================================================================
