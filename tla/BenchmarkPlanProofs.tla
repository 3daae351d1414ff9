------------------------ MODULE BenchmarkPlanProofs ------------------------
(***************************************************************************)
(* Proofs about BenchmarkPlan, for plans of any length and notes of any    *)
(* text, wherever an export is cut: that llmos reads what the script would *)
(* read, and besides only lines that begin within a note                   *)
(* (ReadersAgreeHolds), and that its reports are true where no such line   *)
(* reads as a row (ReportTruthfulHolds).                                   *)
(*                                                                         *)
(* The readers are run as machines over the text, token by token, and what *)
(* is true of every beginning of a text is shown by TextInduction.  First  *)
(* come the two readers of one text: the lines that begin outside a note   *)
(* stay in step with the rows (Live), and the records of those lines are   *)
(* what is left of all records (OwnIs, TwoReaders).  Then come the script  *)
(* that reads what it wrote itself (RoundTrip), the file that is always a  *)
(* beginning of what was written for some table (PlanInv), and last the    *)
(* rows of a beginning, which are those of the whole (BeginsAll).          *)
(***************************************************************************)
EXTENDS BenchmarkPlan, SequenceTheorems, WellFoundedInduction, TLAPS

-----------------------------------------------------------------------------
(* Numbers, and what is computed along a sequence.                         *)

Below == {ss \in Nat \X Nat : ss[1] < ss[2]}

LEMMA BelowWellFounded == IsWellFoundedOn(Below, Nat)
  BY NatLessThanWellFounded, Zenon DEF OpToRel, Below

\* A set of natural numbers has a least one.
LEMMA LeastExists ==
    ASSUME NEW M, M \subseteq Nat, M # {}
    PROVE  \E i \in M : \A j \in M : i <= j
<1>1. PICK i \in M : \A j \in M : ~(<<j, i>> \in Below)
  BY BelowWellFounded, WFMin, Zenon
<1>2. ASSUME NEW j \in M PROVE i <= j
  <2>1. i \in Nat /\ j \in Nat /\ <<j, i>> \notin Below
    BY <1>1
  <2>2. j < i => <<j, i>> \in Below
    BY <2>1 DEF Below
  <2> QED
    BY <2>1, <2>2
<1> QED
  BY <1>2

\* Induction up to n, over the set of the numbers that the claim holds of.
LEMMA Upwards ==
    ASSUME NEW n \in Nat, NEW P, 0 \in P, \A k \in 0..(n - 1) : k \in P => k + 1 \in P
    PROVE  \A k \in 0..n : k \in P
<1> DEFINE Wrong == {k \in 0..n : k \notin P}
<1> SUFFICES ASSUME Wrong # {} PROVE FALSE
  OBVIOUS
<1>1. PICK k \in Wrong : \A j \in Wrong : k <= j
  <2>1. Wrong \subseteq Nat
    OBVIOUS
  <2> HIDE DEF Wrong
  <2> QED
    BY <2>1, LeastExists
<1>2. k \in 1..n /\ k - 1 \in 0..(n - 1) /\ (k - 1) + 1 = k /\ ~(k <= k - 1) /\ k - 1 \in 0..n
  OBVIOUS
<1>3. k - 1 \in P
  BY <1>1, <1>2
<1> QED
  BY <1>2, <1>3

\* Two runs that take the same steps from the same start end at the same place.
LEMMA SameRun ==
    ASSUME NEW n \in Nat, NEW f, NEW g, f[0] = g[0],
           \A i \in 1..n : f[i - 1] = g[i - 1] => f[i] = g[i]
    PROVE  f[n] = g[n]
<1> DEFINE P == {k \in 0..n : f[k] = g[k]}
<1>1. 0 \in P
  OBVIOUS
<1>2. \A k \in 0..(n - 1) : k \in P => k + 1 \in P
  <2> SUFFICES ASSUME NEW k \in 0..(n - 1), f[k] = g[k] PROVE f[k + 1] = g[k + 1]
    OBVIOUS
  <2>1. k + 1 \in 1..n /\ (k + 1) - 1 = k
    OBVIOUS
  <2> QED
    BY <2>1
<1>3. \A k \in 0..n : k \in P
  <2> HIDE DEF P
  <2> QED
    BY <1>1, <1>2, Upwards
<1> QED
  BY <1>3

\* The states r that a machine goes through when it reads q.
Reads(r, step, b, q) == r[0] = b /\ \A i \in 1..Len(q) : r[i] = step[<<r[i - 1], q[i]>>]

\* There is a run from any start.
LEMMA RunExists ==
    ASSUME NEW S, NEW T, NEW step \in [S \X T -> S], NEW b \in S, NEW q \in Seq(T)
    PROVE  \E r \in [0..Len(q) -> S] : Reads(r, step, b, q)
<1> DEFINE n == Len(q)
           RunsTo(k) == {r \in [0..k -> S] :
                           r[0] = b /\ \A i \in 1..k : r[i] = step[<<r[i - 1], q[i]>>]}
           P == {k \in 0..n : RunsTo(k) # {}}
<1>0. n \in Nat /\ \A i \in 1..n : q[i] \in T
  OBVIOUS
<1> HIDE DEF n
<1>1. 0 \in P
  <2>1. [i \in 0..0 |-> b] \in RunsTo(0)
    OBVIOUS
  <2> QED
    BY <1>0, <2>1
<1>2. \A k \in 0..(n - 1) : k \in P => k + 1 \in P
  <2> SUFFICES ASSUME NEW k \in 0..(n - 1), RunsTo(k) # {} PROVE k + 1 \in 0..n /\ RunsTo(k + 1) # {}
    <3> HIDE DEF RunsTo
    <3> QED
      OBVIOUS
  <2> PICK r : r \in RunsTo(k)
    <3> HIDE DEF RunsTo
    <3> QED
      BY Zenon
  <2>0. k \in Nat /\ k + 1 \in 1..n /\ k \in 0..k
    BY <1>0
  <2> DEFINE x == step[<<r[k], q[k + 1]>>]
             f == [i \in 0..(k + 1) |-> IF i = k + 1 THEN x ELSE r[i]]
  <2>1. x \in S
    BY <1>0, <2>0
  <2> HIDE DEF x
  <2>2. f \in [0..(k + 1) -> S]
    BY <2>0, <2>1
  <2>3. f[0] = b
    BY <2>0
  <2>4. ASSUME NEW i \in 1..(k + 1) PROVE f[i] = step[<<f[i - 1], q[i]>>]
    <3>1. CASE i = k + 1
      <4>1. f[i] = x /\ i - 1 = k /\ f[k] = r[k]
        BY <2>0, <3>1
      <4> HIDE DEF f
      <4> QED
        BY <3>1, <4>1 DEF x
    <3>2. CASE i # k + 1
      <4>1. i \in 1..k /\ f[i] = r[i] /\ f[i - 1] = r[i - 1]
        BY <2>0, <3>2
      <4> HIDE DEF f
      <4> QED
        BY <4>1
    <3> QED
      BY <3>1, <3>2
  <2>5. f \in RunsTo(k + 1)
    <3> HIDE DEF f
    <3> QED
      BY <2>2, <2>3, <2>4
  <2>6. k + 1 \in 0..n
    BY <1>0
  <2> HIDE DEF RunsTo, f
  <2> QED
    BY <2>5, <2>6, Zenon
<1>3. n \in P
  <2>1. n \in Nat /\ n \in 0..n
    BY <1>0
  <2> HIDE DEF P
  <2>2. \A k \in 0..n : k \in P
    BY <1>1, <1>2, <2>1, Upwards
  <2> QED
    BY <2>1, <2>2
<1> QED
  BY <1>3 DEF n, Reads

\* g[i] is the concatenation of the first i of n parts.
Gathers(g, n, seqs) == /\ g[0] = <<>> /\ g[n] = FlattenSeq(seqs)
                       /\ \A i \in 1..n : g[i] = g[i - 1] \o seqs[i]

\* The concatenation of parts, part by part.
LEMMA Parts ==
    ASSUME NEW S, NEW n \in Nat, NEW seqs \in [1..n -> Seq(S)]
    PROVE  \E g \in [0..n -> Seq(S)] : Gathers(g, n, seqs)
<1> DEFINE step == [p \in Seq(S) \X Seq(S) |-> p[1] \o p[2]]
<1>1. seqs \in Seq(Seq(S)) /\ Len(seqs) = n /\ DOMAIN seqs = 1..n
  OBVIOUS
<1>2. step \in [Seq(S) \X Seq(S) -> Seq(S)]
  OBVIOUS
<1>3. <<>> \in Seq(S)
  OBVIOUS
<1>4. PICK g \in [0..n -> Seq(S)] :
          g[0] = <<>> /\ \A i \in 1..n : g[i] = step[<<g[i - 1], seqs[i]>>]
  <2> HIDE DEF step
  <2>1. \E g \in [0..Len(seqs) -> Seq(S)] : Reads(g, step, <<>>, seqs)
    BY <1>1, <1>2, <1>3, RunExists, Zenon
  <2>2. PICK g \in [0..Len(seqs) -> Seq(S)] : Reads(g, step, <<>>, seqs)
    BY <2>1
  <2>3. g \in [0..n -> Seq(S)] /\ g[0] = <<>> /\ \A i \in 1..n : g[i] = step[<<g[i - 1], seqs[i]>>]
    BY <1>1, <2>2 DEF Reads
  <2> QED
    BY <2>3
<1>5. ASSUME NEW i \in 1..n PROVE g[i] = g[i - 1] \o seqs[i]
  <2>1. i - 1 \in 0..n
    OBVIOUS
  <2>2. g[i] = step[<<g[i - 1], seqs[i]>>] /\ <<g[i - 1], seqs[i]>> \in Seq(S) \X Seq(S)
    BY <1>4, <2>1
  <2> QED
    BY <2>2
<1>6. g[n] = FlattenSeq(seqs)
  <2>1. CASE n = 0
    <3>1. FlattenSeq(seqs) = seqs /\ seqs = <<>>
      BY <1>1, <2>1 DEF FlattenSeq
    <3> QED
      BY <1>4, <2>1, <3>1
  <2>2. CASE n # 0
    <3> DEFINE Body(f) == [i \in 1..n |-> IF i = 1 THEN seqs[i] ELSE f[i - 1] \o seqs[i]]
               flat == CHOOSE f : f = Body(f)
               h == [i \in 1..n |-> g[i]]
    <3>1. FlattenSeq(seqs) = flat[n]
      BY <1>1, <2>2, Zenon DEF FlattenSeq
    <3>2. h = Body(h)
      <4>1. ASSUME NEW i \in 1..n
            PROVE  h[i] = IF i = 1 THEN seqs[i] ELSE h[i - 1] \o seqs[i]
        <5>1. CASE i = 1
          <6>1. g[1] = g[1 - 1] \o seqs[1] /\ 1 - 1 = 0 /\ seqs[1] \in Seq(S)
            BY <1>5, <5>1
          <6>2. g[1] = <<>> \o seqs[1]
            BY <1>4, <6>1, Zenon
          <6> QED
            BY <5>1, <6>1, <6>2, ConcatEmptySeq
        <5>2. CASE i # 1
          <6>1. i - 1 \in 1..n
            BY <5>2
          <6> QED
            BY <1>5, <5>2, <6>1
        <5> QED
          BY <5>1, <5>2
      <4> HIDE DEF h
      <4>2. h = [i \in 1..n |-> h[i]]
        BY DEF h
      <4> QED
        BY <4>1, <4>2, Zenon
    <3>3. flat = Body(flat)
      <4> HIDE DEF h, Body
      <4> QED
        BY <3>2, Zenon
    <3> HIDE DEF flat
    <3>4. \A i \in 1..n : flat[i] = IF i = 1 THEN seqs[i] ELSE flat[i - 1] \o seqs[i]
      BY <3>3
    <3>5. flat[1] = h[1] /\ \A i \in 2..n : flat[i - 1] = h[i - 1] => flat[i] = h[i]
      <4>1. 1 \in 1..n /\ \A i \in 2..n : i \in 1..n /\ i # 1 /\ i - 1 \in 1..n
        BY <2>2
      <4>2. \A i \in 1..n : h[i] = IF i = 1 THEN seqs[i] ELSE h[i - 1] \o seqs[i]
        <5> HIDE DEF h
        <5> QED
          BY <3>2
      <4> HIDE DEF h
      <4> QED
        BY <3>4, <4>1, <4>2, Zenon
    <3>6. flat[n] = h[n]
      <4> DEFINE f1 == [i \in 0..(n - 1) |-> flat[i + 1]]
                 f2 == [i \in 0..(n - 1) |-> h[i + 1]]
      <4>0. n - 1 \in Nat /\ 0 \in 0..(n - 1) /\ n - 1 \in 0..(n - 1) /\ (n - 1) + 1 = n /\ 0 + 1 = 1
        BY <2>2
      <4> HIDE DEF h
      <4>1. f1[0] = f2[0]
        BY <3>5, <4>0
      <4>2. ASSUME NEW i \in 1..(n - 1), f1[i - 1] = f2[i - 1] PROVE f1[i] = f2[i]
        <5>1. i - 1 \in 0..(n - 1) /\ i \in 0..(n - 1) /\ i + 1 \in 2..n /\ (i - 1) + 1 = i /\ (i + 1) - 1 = i
          OBVIOUS
        <5>2. flat[i] = h[i]
          BY <4>2, <5>1
        <5>3. flat[i + 1] = h[i + 1]
          BY <3>5, <5>1, <5>2
        <5> QED
          BY <5>1, <5>3
      <4>3. f1[n - 1] = f2[n - 1]
        <5> HIDE DEF f1, f2
        <5> QED
          BY <4>0, <4>1, <4>2, SameRun
      <4> QED
        BY <4>0, <4>3
    <3> QED
      BY <2>2, <3>1, <3>6
  <2> QED
    BY <2>1, <2>2
<1> QED
  BY <1>4, <1>5, <1>6 DEF Gathers

-----------------------------------------------------------------------------
(* The three machines that read a text, token by token.                    *)

\* The tokens of a text: the words of the plan, and what the script writes besides.
Written == {"run_id", "model_name", "tokens_per_sec", "run_success", "notes",
            "10", "true", "false", "dry-run", "word"}
Tokens == Words \cup Written \cup Structure \cup {"bom"}
Field == Seq(Tokens)
ImportStates == [table : Seq(Seq(Field)), fields : Seq(Field), current : Field,
                 quoted : BOOLEAN, closed : BOOLEAN]
LineStates(T) == {lines \in Seq(Seq(T)) : lines # <<>>}
SplitStates(T) == [fields : {fields \in Seq(Seq(T)) : fields # <<>>}, in_quotes : BOOLEAN]

Imported(text) == Fold(ImportStep, ImportStart, text)
SplitStart == [fields |-> <<<<>>>>, in_quotes |-> FALSE]
SplitState(line) == Fold(SplitStep, SplitStart, line)

LEMMA ImportStepType ==
    ASSUME NEW s \in ImportStates, NEW t \in Tokens
    PROVE  ImportStep(s, t) \in ImportStates
<1>1. /\ s.table \in Seq(Seq(Field)) /\ s.fields \in Seq(Field) /\ s.current \in Field
      /\ s.quoted \in BOOLEAN /\ s.closed \in BOOLEAN
  BY DEF ImportStates
<1>2. /\ Append(s.fields, s.current) \in Seq(Field) /\ <<>> \in Field /\ <<>> \in Seq(Field)
      /\ Append(s.current, t) \in Field
  BY <1>1 DEF Field
<1>3. Append(s.table, Append(s.fields, s.current)) \in Seq(Seq(Field))
  BY <1>1, <1>2
<1> HIDE DEF Field
<1> QED
  BY <1>1, <1>2, <1>3 DEF ImportStates, ImportStep

LEMMA LineStepType ==
    ASSUME NEW T, NEW lines \in LineStates(T), NEW t \in T
    PROVE  LineStep(lines, t) \in LineStates(T)
<1>1. lines \in Seq(Seq(T)) /\ Len(lines) \in 1..Len(lines)
  BY EmptySeq DEF LineStates
<1>2. CASE t = "newline"
  <2>1. Append(lines, <<>>) \in Seq(Seq(T)) /\ Append(lines, <<>>) # <<>>
    BY <1>1
  <2> QED
    BY <1>2, <2>1 DEF LineStates, LineStep
<1>3. CASE t # "newline"
  <2> DEFINE line == Append(lines[Len(lines)], t)
  <2>1. line \in Seq(T)
    BY <1>1
  <2> HIDE DEF line
  <2>2. [lines EXCEPT ![Len(lines)] = line] \in Seq(Seq(T)) /\ Len([lines EXCEPT ![Len(lines)] = line]) = Len(lines)
    BY <1>1, <2>1, ExceptSeq
  <2>3. [lines EXCEPT ![Len(lines)] = line] # <<>>
    BY <1>1, <2>2
  <2> QED
    BY <1>3, <2>2, <2>3 DEF LineStates, LineStep, line
<1> QED
  BY <1>2, <1>3

LEMMA SplitStepType ==
    ASSUME NEW T, NEW s \in SplitStates(T), NEW t \in T
    PROVE  SplitStep(s, t) \in SplitStates(T)
<1>1. s.fields \in Seq(Seq(T)) /\ Len(s.fields) \in 1..Len(s.fields) /\ s.in_quotes \in BOOLEAN
  BY EmptySeq DEF SplitStates
<1>3. Append(s.fields, <<>>) \in Seq(Seq(T)) /\ Append(s.fields, <<>>) # <<>>
  BY <1>1
<1> DEFINE field == Append(s.fields[Len(s.fields)], t)
<1>4. field \in Seq(T)
  BY <1>1
<1> HIDE DEF field
<1>5. /\ [s.fields EXCEPT ![Len(s.fields)] = field] \in Seq(Seq(T))
      /\ Len([s.fields EXCEPT ![Len(s.fields)] = field]) = Len(s.fields)
  BY <1>1, <1>4, ExceptSeq
<1>6. [s.fields EXCEPT ![Len(s.fields)] = field] # <<>>
  BY <1>1, <1>5
<1>7. CASE t = "quote"
  <2>1. SplitStep(s, t) = [s EXCEPT !.in_quotes = ~@]
    BY <1>7 DEF SplitStep
  <2> QED
    BY <1>1, <2>1 DEF SplitStates
<1>8. CASE t # "quote" /\ t = "comma" /\ ~s.in_quotes
  <2>1. SplitStep(s, t) = [s EXCEPT !.fields = Append(@, <<>>)]
    BY <1>8 DEF SplitStep
  <2> QED
    BY <1>1, <1>3, <2>1 DEF SplitStates
<1>9. CASE t # "quote" /\ ~(t = "comma" /\ ~s.in_quotes)
  <2>1. SplitStep(s, t) = [s EXCEPT !.fields[Len(s.fields)] = Append(@, t)]
    BY <1>9 DEF SplitStep
  <2>2. SplitStep(s, t) = [s EXCEPT !.fields = [s.fields EXCEPT ![Len(s.fields)] = field]]
    BY <2>1 DEF field
  <2> QED
    BY <1>1, <1>5, <1>6, <2>2 DEF SplitStates
<1> QED
  BY <1>7, <1>8, <1>9

\* What each of them is in after a text, and after one more token.

LEMMA ImportRun ==
    ASSUME NEW text \in Seq(Tokens)
    PROVE  \E r \in [0..Len(text) -> ImportStates] :
               /\ r[0] = ImportStart /\ r[Len(text)] = Imported(text)
               /\ \A i \in 1..Len(text) : r[i] = ImportStep(r[i - 1], text[i])
<1> DEFINE n == Len(text)
           step == [p \in ImportStates \X Tokens |-> ImportStep(p[1], p[2])]
           Body(f) == [i \in 0..n |-> IF i = 0 THEN ImportStart ELSE ImportStep(f[i - 1], text[i])]
           f == CHOOSE f : f = Body(f)
<1>1. ImportStart \in ImportStates
  BY DEF ImportStart, ImportStates, Field
<1>2. step \in [ImportStates \X Tokens -> ImportStates]
  BY ImportStepType
<1>3. PICK r \in [0..n -> ImportStates] : Reads(r, step, ImportStart, text)
  <2> HIDE DEF step
  <2> QED
    BY <1>1, <1>2, RunExists, Zenon
<1>4. r[0] = ImportStart /\ \A i \in 1..n : r[i] = ImportStep(r[i - 1], text[i])
  <2>1. r[0] = ImportStart /\ \A i \in 1..n : r[i] = step[<<r[i - 1], text[i]>>]
    <3> HIDE DEF step
    <3> QED
      BY <1>3 DEF Reads
  <2>2. ASSUME NEW i \in 1..n PROVE r[i] = ImportStep(r[i - 1], text[i])
    <3>1. r[i - 1] \in ImportStates /\ text[i] \in Tokens
      <4> HIDE DEF step
      <4> QED
        OBVIOUS
    <3>2. step[<<r[i - 1], text[i]>>] = ImportStep(r[i - 1], text[i])
      BY <3>1
    <3> QED
      BY <2>1, <3>2, Zenon
  <2> QED
    BY <2>1, <2>2
<1>5. n \in Nat /\ 0 \in 0..n /\ n \in 0..n /\ \A i \in 1..n : i \in 0..n /\ i # 0
  <2> HIDE DEF step
  <2> QED
    BY LenProperties
<1> HIDE DEF step, n
<1>6. r = Body(r)
  <2>1. r = [i \in 0..n |-> r[i]]
    OBVIOUS
  <2>2. ASSUME NEW i \in 0..n
        PROVE  r[i] = IF i = 0 THEN ImportStart ELSE ImportStep(r[i - 1], text[i])
    <3>1. i # 0 => i \in 1..n
      BY <1>5
    <3> QED
      BY <1>4, <3>1, Zenon
  <2> QED
    BY <2>1, <2>2, Zenon
<1>7. f = Body(f)
  <2> HIDE DEF Body
  <2> QED
    BY <1>6, Zenon
<1>8. f[n] = Imported(text)
  BY Zenon DEF Imported, Fold, n
<1> HIDE DEF f
<1>9. f[0] = ImportStart /\ \A i \in 1..n : f[i] = ImportStep(f[i - 1], text[i])
  BY <1>5, <1>7, Zenon
<1>10. f[n] = r[n]
  <2>1. f[0] = r[0] /\ \A i \in 1..n : f[i - 1] = r[i - 1] => f[i] = r[i]
    BY <1>4, <1>9, Zenon
  <2> QED
    BY <1>5, <2>1, SameRun
<1> QED
  BY <1>4, <1>8, <1>10, Zenon DEF n

\* Import-Csv, token by token.
LEMMA ImportSnoc ==
    ASSUME NEW text \in Seq(Tokens)
    PROVE  /\ Imported(<<>>) = ImportStart /\ Imported(text) \in ImportStates
           /\ \A t \in Tokens : Imported(Append(text, t)) = ImportStep(Imported(text), t)
<1>1. PICK r \in [0..Len(text) -> ImportStates] :
               /\ r[0] = ImportStart /\ r[Len(text)] = Imported(text)
               /\ \A i \in 1..Len(text) : r[i] = ImportStep(r[i - 1], text[i])
  BY ImportRun
<1>2. Imported(<<>>) = ImportStart
  <2>1. <<>> \in Seq(Tokens) /\ Len(<<>>) = 0
    OBVIOUS
  <2>2. PICK f \in [0..Len(<<>>) -> ImportStates] : f[0] = ImportStart /\ f[Len(<<>>)] = Imported(<<>>)
    BY <2>1, ImportRun, Zenon
  <2> QED
    BY <2>1, <2>2, Zenon
<1>3. Imported(text) \in ImportStates
  <2>1. Len(text) \in 0..Len(text)
    BY LenProperties
  <2> QED
    BY <1>1, <2>1, Zenon
<1>4. ASSUME NEW t \in Tokens PROVE Imported(Append(text, t)) = ImportStep(Imported(text), t)
  <2> DEFINE n == Len(text)
             more == Append(text, t)
  <2>1. /\ more \in Seq(Tokens) /\ Len(more) = n + 1 /\ more[n + 1] = t /\ n \in Nat
        /\ n + 1 \in 1..(n + 1) /\ (n + 1) - 1 = n /\ \A i \in 1..n : i \in 1..(n + 1) /\ more[i] = text[i]
    OBVIOUS
  <2> HIDE DEF more, n
  <2>2. PICK f \in [0..Len(more) -> ImportStates] :
               /\ f[0] = ImportStart /\ f[Len(more)] = Imported(more)
               /\ \A i \in 1..Len(more) : f[i] = ImportStep(f[i - 1], more[i])
    BY <2>1, ImportRun, Zenon
  <2>3. f[0] = r[0] /\ \A i \in 1..n : f[i - 1] = r[i - 1] => f[i] = r[i]
    BY <1>1, <2>1, <2>2, Zenon DEF n
  <2>4. f[n] = r[n]
    BY <2>1, <2>3, SameRun
  <2>5. f[n + 1] = ImportStep(f[n], t)
    BY <2>1, <2>2, Zenon
  <2> QED
    BY <1>1, <2>1, <2>2, <2>4, <2>5, Zenon DEF more, n
<1> QED
  BY <1>2, <1>3, <1>4

LEMMA LineRun ==
    ASSUME NEW T, NEW text \in Seq(T)
    PROVE  \E r \in [0..Len(text) -> LineStates(T)] :
               /\ r[0] = <<<<>>>> /\ r[Len(text)] = Lines(text)
               /\ \A i \in 1..Len(text) : r[i] = LineStep(r[i - 1], text[i])
<1> DEFINE n == Len(text)
           step == [p \in LineStates(T) \X T |-> LineStep(p[1], p[2])]
           Body(f) == [i \in 0..n |-> IF i = 0 THEN <<<<>>>> ELSE LineStep(f[i - 1], text[i])]
           f == CHOOSE f : f = Body(f)
<1>1. <<<<>>>> \in LineStates(T)
  BY DEF LineStates
<1>2. step \in [LineStates(T) \X T -> LineStates(T)]
  BY LineStepType
<1>3. PICK r \in [0..n -> LineStates(T)] : Reads(r, step, <<<<>>>>, text)
  <2> HIDE DEF step
  <2> QED
    BY <1>1, <1>2, RunExists, Zenon
<1>4. r[0] = <<<<>>>> /\ \A i \in 1..n : r[i] = LineStep(r[i - 1], text[i])
  <2>1. r[0] = <<<<>>>> /\ \A i \in 1..n : r[i] = step[<<r[i - 1], text[i]>>]
    <3> HIDE DEF step
    <3> QED
      BY <1>3 DEF Reads
  <2>2. ASSUME NEW i \in 1..n PROVE r[i] = LineStep(r[i - 1], text[i])
    <3>1. r[i - 1] \in LineStates(T) /\ text[i] \in T
      <4> HIDE DEF step
      <4> QED
        OBVIOUS
    <3>2. step[<<r[i - 1], text[i]>>] = LineStep(r[i - 1], text[i])
      BY <3>1
    <3> QED
      BY <2>1, <3>2, Zenon
  <2> QED
    BY <2>1, <2>2
<1>5. n \in Nat /\ 0 \in 0..n /\ n \in 0..n /\ \A i \in 1..n : i \in 0..n /\ i # 0
  <2> HIDE DEF step
  <2> QED
    BY LenProperties
<1> HIDE DEF step, n
<1>6. r = Body(r)
  <2>1. r = [i \in 0..n |-> r[i]]
    OBVIOUS
  <2>2. ASSUME NEW i \in 0..n
        PROVE  r[i] = IF i = 0 THEN <<<<>>>> ELSE LineStep(r[i - 1], text[i])
    <3>1. i # 0 => i \in 1..n
      BY <1>5
    <3> QED
      BY <1>4, <3>1, Zenon
  <2> QED
    BY <2>1, <2>2, Zenon
<1>7. f = Body(f)
  <2> HIDE DEF Body
  <2> QED
    BY <1>6, Zenon
<1>8. f[n] = Lines(text)
  BY Zenon DEF Lines, Fold, n
<1> HIDE DEF f
<1>9. f[0] = <<<<>>>> /\ \A i \in 1..n : f[i] = LineStep(f[i - 1], text[i])
  BY <1>5, <1>7, Zenon
<1>10. f[n] = r[n]
  <2>1. f[0] = r[0] /\ \A i \in 1..n : f[i - 1] = r[i - 1] => f[i] = r[i]
    BY <1>4, <1>9, Zenon
  <2> QED
    BY <1>5, <2>1, SameRun
<1> QED
  BY <1>4, <1>8, <1>10, Zenon DEF n

\* str::lines, token by token.
LEMMA LineSnoc ==
    ASSUME NEW T, NEW text \in Seq(T)
    PROVE  /\ Lines(<<>>) = <<<<>>>> /\ Lines(text) \in LineStates(T)
           /\ \A t \in T : Lines(Append(text, t)) = LineStep(Lines(text), t)
<1>1. PICK r \in [0..Len(text) -> LineStates(T)] :
               /\ r[0] = <<<<>>>> /\ r[Len(text)] = Lines(text)
               /\ \A i \in 1..Len(text) : r[i] = LineStep(r[i - 1], text[i])
  BY LineRun
<1>2. Lines(<<>>) = <<<<>>>>
  <2>1. <<>> \in Seq(T) /\ Len(<<>>) = 0
    OBVIOUS
  <2>2. PICK f \in [0..Len(<<>>) -> LineStates(T)] : f[0] = <<<<>>>> /\ f[Len(<<>>)] = Lines(<<>>)
    BY <2>1, LineRun, Zenon
  <2> QED
    BY <2>1, <2>2, Zenon
<1>3. Lines(text) \in LineStates(T)
  <2>1. Len(text) \in 0..Len(text)
    BY LenProperties
  <2> QED
    BY <1>1, <2>1, Zenon
<1>4. ASSUME NEW t \in T PROVE Lines(Append(text, t)) = LineStep(Lines(text), t)
  <2> DEFINE n == Len(text)
             more == Append(text, t)
  <2>1. /\ more \in Seq(T) /\ Len(more) = n + 1 /\ more[n + 1] = t /\ n \in Nat
        /\ n + 1 \in 1..(n + 1) /\ (n + 1) - 1 = n /\ \A i \in 1..n : i \in 1..(n + 1) /\ more[i] = text[i]
    OBVIOUS
  <2> HIDE DEF more, n
  <2>2. PICK f \in [0..Len(more) -> LineStates(T)] :
               /\ f[0] = <<<<>>>> /\ f[Len(more)] = Lines(more)
               /\ \A i \in 1..Len(more) : f[i] = LineStep(f[i - 1], more[i])
    BY <2>1, LineRun, Zenon
  <2>3. f[0] = r[0] /\ \A i \in 1..n : f[i - 1] = r[i - 1] => f[i] = r[i]
    BY <1>1, <2>1, <2>2, Zenon DEF n
  <2>4. f[n] = r[n]
    BY <2>1, <2>3, SameRun
  <2>5. f[n + 1] = LineStep(f[n], t)
    BY <2>1, <2>2, Zenon
  <2> QED
    BY <1>1, <2>1, <2>2, <2>4, <2>5, Zenon DEF more, n
<1> QED
  BY <1>2, <1>3, <1>4

LEMMA SplitRun ==
    ASSUME NEW T, NEW line \in Seq(T)
    PROVE  \E r \in [0..Len(line) -> SplitStates(T)] :
               /\ r[0] = SplitStart /\ r[Len(line)] = SplitState(line)
               /\ \A i \in 1..Len(line) : r[i] = SplitStep(r[i - 1], line[i])
<1> DEFINE n == Len(line)
           step == [p \in SplitStates(T) \X T |-> SplitStep(p[1], p[2])]
           Body(f) == [i \in 0..n |-> IF i = 0 THEN SplitStart ELSE SplitStep(f[i - 1], line[i])]
           f == CHOOSE f : f = Body(f)
<1>1. SplitStart \in SplitStates(T)
  BY DEF SplitStart, SplitStates
<1>2. step \in [SplitStates(T) \X T -> SplitStates(T)]
  BY SplitStepType
<1>3. PICK r \in [0..n -> SplitStates(T)] : Reads(r, step, SplitStart, line)
  <2> HIDE DEF step
  <2> QED
    BY <1>1, <1>2, RunExists, Zenon
<1>4. r[0] = SplitStart /\ \A i \in 1..n : r[i] = SplitStep(r[i - 1], line[i])
  <2>1. r[0] = SplitStart /\ \A i \in 1..n : r[i] = step[<<r[i - 1], line[i]>>]
    <3> HIDE DEF step
    <3> QED
      BY <1>3 DEF Reads
  <2>2. ASSUME NEW i \in 1..n PROVE r[i] = SplitStep(r[i - 1], line[i])
    <3>1. r[i - 1] \in SplitStates(T) /\ line[i] \in T
      <4> HIDE DEF step
      <4> QED
        OBVIOUS
    <3>2. step[<<r[i - 1], line[i]>>] = SplitStep(r[i - 1], line[i])
      BY <3>1
    <3> QED
      BY <2>1, <3>2, Zenon
  <2> QED
    BY <2>1, <2>2
<1>5. n \in Nat /\ 0 \in 0..n /\ n \in 0..n /\ \A i \in 1..n : i \in 0..n /\ i # 0
  <2> HIDE DEF step
  <2> QED
    BY LenProperties
<1> HIDE DEF step, n
<1>6. r = Body(r)
  <2>1. r = [i \in 0..n |-> r[i]]
    OBVIOUS
  <2>2. ASSUME NEW i \in 0..n
        PROVE  r[i] = IF i = 0 THEN SplitStart ELSE SplitStep(r[i - 1], line[i])
    <3>1. i # 0 => i \in 1..n
      BY <1>5
    <3> QED
      BY <1>4, <3>1, Zenon
  <2> QED
    BY <2>1, <2>2, Zenon
<1>7. f = Body(f)
  <2> HIDE DEF Body
  <2> QED
    BY <1>6, Zenon
<1>8. f[n] = SplitState(line)
  BY Zenon DEF SplitState, Fold, n
<1> HIDE DEF f
<1>9. f[0] = SplitStart /\ \A i \in 1..n : f[i] = SplitStep(f[i - 1], line[i])
  BY <1>5, <1>7, Zenon
<1>10. f[n] = r[n]
  <2>1. f[0] = r[0] /\ \A i \in 1..n : f[i - 1] = r[i - 1] => f[i] = r[i]
    BY <1>4, <1>9, Zenon
  <2> QED
    BY <1>5, <2>1, SameRun
<1> QED
  BY <1>4, <1>8, <1>10, Zenon DEF n

\* split_csv_row, token by token.
LEMMA SplitSnoc ==
    ASSUME NEW T, NEW line \in Seq(T)
    PROVE  /\ SplitState(<<>>) = SplitStart /\ SplitState(line) \in SplitStates(T)
           /\ \A t \in T : SplitState(Append(line, t)) = SplitStep(SplitState(line), t)
<1>1. PICK r \in [0..Len(line) -> SplitStates(T)] :
               /\ r[0] = SplitStart /\ r[Len(line)] = SplitState(line)
               /\ \A i \in 1..Len(line) : r[i] = SplitStep(r[i - 1], line[i])
  BY SplitRun
<1>2. SplitState(<<>>) = SplitStart
  <2>1. <<>> \in Seq(T) /\ Len(<<>>) = 0
    OBVIOUS
  <2>2. PICK f \in [0..Len(<<>>) -> SplitStates(T)] : f[0] = SplitStart /\ f[Len(<<>>)] = SplitState(<<>>)
    BY <2>1, SplitRun, Zenon
  <2> QED
    BY <2>1, <2>2, Zenon
<1>3. SplitState(line) \in SplitStates(T)
  <2>1. Len(line) \in 0..Len(line)
    BY LenProperties
  <2> QED
    BY <1>1, <2>1, Zenon
<1>4. ASSUME NEW t \in T PROVE SplitState(Append(line, t)) = SplitStep(SplitState(line), t)
  <2> DEFINE n == Len(line)
             more == Append(line, t)
  <2>1. /\ more \in Seq(T) /\ Len(more) = n + 1 /\ more[n + 1] = t /\ n \in Nat
        /\ n + 1 \in 1..(n + 1) /\ (n + 1) - 1 = n /\ \A i \in 1..n : i \in 1..(n + 1) /\ more[i] = line[i]
    OBVIOUS
  <2> HIDE DEF more, n
  <2>2. PICK f \in [0..Len(more) -> SplitStates(T)] :
               /\ f[0] = SplitStart /\ f[Len(more)] = SplitState(more)
               /\ \A i \in 1..Len(more) : f[i] = SplitStep(f[i - 1], more[i])
    BY <2>1, SplitRun, Zenon
  <2>3. f[0] = r[0] /\ \A i \in 1..n : f[i - 1] = r[i - 1] => f[i] = r[i]
    BY <1>1, <2>1, <2>2, Zenon DEF n
  <2>4. f[n] = r[n]
    BY <2>1, <2>3, SameRun
  <2>5. f[n + 1] = SplitStep(f[n], t)
    BY <2>1, <2>2, Zenon
  <2> QED
    BY <1>1, <2>1, <2>2, <2>4, <2>5, Zenon DEF more, n
<1> QED
  BY <1>2, <1>3, <1>4

-----------------------------------------------------------------------------
(* Sequences, their prefixes, and what they have at some of their places.  *)

LEMMA OneMore ==
    ASSUME NEW T, NEW y \in Seq(T), NEW t \in T
    PROVE  /\ Append(y, t) \in Seq(T) /\ Len(Append(y, t)) = Len(y) + 1 /\ Append(y, t) # <<>>
           /\ Append(y, t)[Len(y) + 1] = t /\ \A i \in 1..Len(y) : Append(y, t)[i] = y[i]
           /\ DOMAIN Append(y, t) = 1..(Len(y) + 1) /\ DOMAIN y = 1..Len(y) /\ Len(y) \in Nat
  OBVIOUS

LEMMA AppendedType == \A T : \A y \in Seq(T), t \in T : Append(y, t) \in Seq(T)
  OBVIOUS

LEMMA AppendedNotNone == \A T : \A y \in Seq(T), t \in T : Append(y, t) # <<>>
  OBVIOUS

LEMMA PrefixSnoc ==
    ASSUME NEW T, NEW x \in Seq(T), NEW k \in 0..(Len(x) - 1)
    PROVE  /\ SubSeq(x, 1, k) \in Seq(T) /\ Len(SubSeq(x, 1, k)) = k /\ x[k + 1] \in T
           /\ SubSeq(x, 1, k + 1) = Append(SubSeq(x, 1, k), x[k + 1])
           /\ \A i \in 1..k : SubSeq(x, 1, k)[i] = x[i]
<1>1. k \in Nat /\ k + 1 \in 1..Len(x) /\ \A i \in 1..k : i \in 1..Len(x)
  OBVIOUS
<1>2. x[k + 1] \in T /\ \A i \in 1..k : x[i] \in T
  BY <1>1
<1>3. SubSeq(x, 1, k) \in Seq(T) /\ Len(SubSeq(x, 1, k)) = k /\ \A i \in 1..k : SubSeq(x, 1, k)[i] = x[i]
  BY <1>1, <1>2
<1>4. /\ SubSeq(x, 1, k + 1) \in Seq(T) /\ Len(SubSeq(x, 1, k + 1)) = k + 1
      /\ \A i \in 1..(k + 1) : SubSeq(x, 1, k + 1)[i] = x[i]
  BY <1>1, <1>2
<1> DEFINE a == SubSeq(x, 1, k)
           b == SubSeq(x, 1, k + 1)
           c == Append(a, x[k + 1])
<1> HIDE DEF a, b
<1>5. c \in Seq(T) /\ Len(c) = k + 1 /\ c[k + 1] = x[k + 1] /\ \A i \in 1..k : c[i] = x[i]
  BY <1>1, <1>2, <1>3 DEF a
<1> HIDE DEF c
<1>6. b = c
  <2>1. b \in Seq(T) /\ Len(b) = Len(c) /\ \A i \in 1..Len(b) : b[i] = c[i]
    <3>1. \A i \in 1..(k + 1) : i = k + 1 \/ i \in 1..k
      BY <1>1
    <3> QED
      BY <1>4, <1>5, <3>1 DEF b
  <2> QED
    BY <1>5, <2>1, SeqEqual
<1> QED
  BY <1>2, <1>3, <1>6 DEF a, b, c

LEMMA SamePrefix ==
    ASSUME NEW T, NEW y \in Seq(T), NEW z \in Seq(T), NEW m \in Nat, m <= Len(y), m <= Len(z),
           \A i \in 1..m : y[i] = z[i]
    PROVE  SubSeq(y, 1, m) = SubSeq(z, 1, m)
<1> DEFINE a == SubSeq(y, 1, m)
           b == SubSeq(z, 1, m)
<1>1. \A i \in 1..m : i \in 1..Len(y) /\ i \in 1..Len(z)
  OBVIOUS
<1>2. a \in Seq(T) /\ Len(a) = m /\ \A i \in 1..m : a[i] = y[i]
  BY <1>1
<1>3. b \in Seq(T) /\ Len(b) = m /\ \A i \in 1..m : b[i] = z[i]
  BY <1>1
<1> HIDE DEF a, b
<1>4. a = b
  BY <1>2, <1>3, SeqEqual
<1> QED
  BY <1>4 DEF a, b

\* Induction over the sequences, token by token.
LEMMA TextInduction ==
    ASSUME NEW T, NEW P, <<>> \in P, \A y \in Seq(T) : y \in P => \A t \in T : Append(y, t) \in P
    PROVE  Seq(T) \subseteq P
<1> SUFFICES ASSUME NEW x \in Seq(T) PROVE x \in P
  OBVIOUS
<1> DEFINE n == Len(x)
           Q == {k \in 0..n : SubSeq(x, 1, k) \in P}
<1>0. n \in Nat /\ n \in 0..n /\ 0 \in 0..n
  OBVIOUS
<1>1. 0 \in Q
  <2>1. SubSeq(x, 1, 0) = <<>>
    BY SubSeqEmpty
  <2> QED
    BY <1>0, <2>1
<1>2. \A k \in 0..(n - 1) : k \in Q => k + 1 \in Q
  <2> SUFFICES ASSUME NEW k \in 0..(n - 1), SubSeq(x, 1, k) \in P PROVE SubSeq(x, 1, k + 1) \in P
    BY <1>0
  <2>1. SubSeq(x, 1, k) \in Seq(T) /\ x[k + 1] \in T /\ SubSeq(x, 1, k + 1) = Append(SubSeq(x, 1, k), x[k + 1])
    BY PrefixSnoc, Zenon
  <2> QED
    BY <2>1, Zenon
<1>3. n \in Q
  <2> HIDE DEF Q, n
  <2> QED
    BY <1>0, <1>1, <1>2, Upwards
<1>4. SubSeq(x, 1, n) = x
  BY SubSeqFull, Zenon
<1> QED
  BY <1>3, <1>4, Zenon

LEMMA FlattenSnoc ==
    ASSUME NEW S, NEW seqs \in Seq(Seq(S))
    PROVE  /\ FlattenSeq(<<>>) = <<>> /\ FlattenSeq(seqs) \in Seq(S)
           /\ \A s \in Seq(S) : FlattenSeq(Append(seqs, s)) = FlattenSeq(seqs) \o s
<1>1. FlattenSeq(<<>>) = <<>>
  BY DEF FlattenSeq
<1> DEFINE n == Len(seqs)
<1>2. n \in Nat /\ seqs \in [1..n -> Seq(S)] /\ n \in 0..n
  BY LenProperties
<1>3. PICK g \in [0..n -> Seq(S)] :
          g[0] = <<>> /\ g[n] = FlattenSeq(seqs) /\ \A i \in 1..n : g[i] = g[i - 1] \o seqs[i]
  <2> HIDE DEF n
  <2>1. PICK g \in [0..n -> Seq(S)] : Gathers(g, n, seqs)
    BY <1>2, Parts, Zenon
  <2> QED
    BY <2>1 DEF Gathers
<1>4. FlattenSeq(seqs) \in Seq(S)
  BY <1>2, <1>3
<1>5. ASSUME NEW s \in Seq(S) PROVE FlattenSeq(Append(seqs, s)) = FlattenSeq(seqs) \o s
  <2> DEFINE more == Append(seqs, s)
  <2>1. /\ n + 1 \in Nat /\ more \in [1..(n + 1) -> Seq(S)] /\ more[n + 1] = s /\ n + 1 \in 1..(n + 1) /\ (n + 1) - 1 = n
        /\ \A i \in 1..n : i \in 1..(n + 1) /\ more[i] = seqs[i]
    <3>1. /\ more \in Seq(Seq(S)) /\ Len(more) = n + 1 /\ more[n + 1] = s
          /\ \A i \in 1..n : more[i] = seqs[i]
      BY OneMore
    <3> HIDE DEF more, n
    <3> QED
      BY <1>2, <3>1, LenProperties
  <2> HIDE DEF n, more
  <2>2. PICK h \in [0..(n + 1) -> Seq(S)] :
            h[0] = <<>> /\ h[n + 1] = FlattenSeq(more) /\ \A i \in 1..(n + 1) : h[i] = h[i - 1] \o more[i]
    <3>1. PICK h \in [0..(n + 1) -> Seq(S)] : Gathers(h, n + 1, more)
      BY <2>1, Parts, Zenon
    <3> QED
      BY <3>1 DEF Gathers
  <2>3. g[0] = h[0] /\ \A i \in 1..n : g[i - 1] = h[i - 1] => g[i] = h[i]
    BY <1>3, <2>1, <2>2, Zenon
  <2>4. g[n] = h[n]
    BY <1>2, <2>3, SameRun
  <2>5. h[n + 1] = h[n] \o s
    BY <2>1, <2>2, Zenon
  <2> QED
    BY <1>3, <2>2, <2>4, <2>5, Zenon DEF more
<1> QED
  BY <1>1, <1>4, <1>5

LEMMA AtSame ==
    ASSUME NEW q, NEW P, NEW Q, \A i \in DOMAIN q : i \in P <=> i \in Q
    PROVE  At(q, P) = At(q, Q)
<1>1. [i \in DOMAIN q |-> IF i \in P THEN <<q[i]>> ELSE <<>>] = [i \in DOMAIN q |-> IF i \in Q THEN <<q[i]>> ELSE <<>>]
  OBVIOUS
<1> QED
  BY <1>1, Zenon DEF At

AtOneMore(q, t, P) == IF Len(q) + 1 \in P THEN Append(At(q, P), t) ELSE At(q, P)

LEMMA AtNone == ASSUME NEW P PROVE At(<<>>, P) = <<>>
<1>1. [i \in DOMAIN <<>> |-> IF i \in P THEN <<(<<>>)[i]>> ELSE <<>>] = <<>>
  OBVIOUS
<1>2. FlattenSeq(<<>>) = <<>>
  BY DEF FlattenSeq
<1> QED
  BY <1>1, <1>2, Zenon DEF At

LEMMA AtBoth ==
    ASSUME NEW S, NEW q \in Seq(S), NEW P
    PROVE  At(q, P) \in Seq(S) /\ \A t \in S : At(Append(q, t), P) = AtOneMore(q, t, P)
<1> DEFINE seqs == [i \in DOMAIN q |-> IF i \in P THEN <<q[i]>> ELSE <<>>]
<1>1. seqs \in Seq(Seq(S)) /\ Len(seqs) = Len(q)
  <2>1. DOMAIN q = 1..Len(q) /\ Len(q) \in Nat /\ \A i \in DOMAIN q : seqs[i] \in Seq(S)
    OBVIOUS
  <2>2. seqs \in [1..Len(q) -> Seq(S)]
    BY <2>1
  <2> HIDE DEF seqs
  <2> QED
    BY <2>1, <2>2
<1>3. FlattenSeq(seqs) = At(q, P)
  BY Zenon DEF At
<1>4. At(q, P) \in Seq(S)
  <2> HIDE DEF seqs
  <2> QED
    BY <1>1, <1>3, FlattenSnoc
<1>5. ASSUME NEW t \in S
      PROVE  At(Append(q, t), P) = AtOneMore(q, t, P)
  <2> DEFINE more == Append(q, t)
             last == IF Len(q) + 1 \in P THEN <<t>> ELSE <<>>
             parts == [i \in DOMAIN more |-> IF i \in P THEN <<more[i]>> ELSE <<>>]
  <2>1. last \in Seq(S)
    OBVIOUS
  <2>2. parts = Append(seqs, last)
    <3>1. /\ more \in Seq(S) /\ DOMAIN more = 1..(Len(q) + 1) /\ more[Len(q) + 1] = t
          /\ \A i \in 1..Len(q) : more[i] = q[i]
      BY OneMore
    <3>2. parts \in Seq(Seq(S)) /\ Len(parts) = Len(q) + 1
      <4> HIDE DEF more
      <4> QED
        BY <3>1
    <3>3. Append(seqs, last) \in Seq(Seq(S)) /\ Len(Append(seqs, last)) = Len(q) + 1
      <4> HIDE DEF seqs, last
      <4> QED
        BY <1>1, <2>1
    <3>4. ASSUME NEW i \in 1..(Len(q) + 1) PROVE parts[i] = Append(seqs, last)[i]
      <4>1. CASE i = Len(q) + 1
        <5>1. parts[i] = last
          <6> HIDE DEF more
          <6> QED
            BY <3>1, <4>1
        <5>2. Append(seqs, last)[i] = last
          <6> HIDE DEF seqs, last
          <6> QED
            BY <1>1, <2>1, <4>1
        <5> QED
          BY <5>1, <5>2, Zenon
      <4>2. CASE i # Len(q) + 1
        <5>1. i \in 1..Len(q) /\ i \in DOMAIN q
          BY <4>2
        <5>2. parts[i] = seqs[i]
          <6> HIDE DEF more
          <6> QED
            BY <3>1, <5>1
        <5>3. Append(seqs, last)[i] = seqs[i]
          <6> HIDE DEF seqs, last
          <6> QED
            BY <1>1, <2>1, <5>1
        <5> QED
          BY <5>2, <5>3, Zenon
      <4> QED
        BY <4>1, <4>2
    <3> HIDE DEF parts, seqs, last
    <3> QED
      BY <3>2, <3>3, <3>4, SeqEqual
  <2>3. At(more, P) = FlattenSeq(seqs) \o last
    <3>1. At(more, P) = FlattenSeq(parts)
      BY Zenon DEF At
    <3> HIDE DEF parts, seqs, last, more
    <3>2. FlattenSeq(Append(seqs, last)) = FlattenSeq(seqs) \o last
      BY <1>1, <2>1, FlattenSnoc
    <3> QED
      BY <2>2, <3>1, <3>2, Zenon
  <2>4. At(q, P) \o <<t>> = Append(At(q, P), t) /\ At(q, P) \o <<>> = At(q, P)
    BY <1>4
  <2> HIDE DEF seqs, more
  <2> QED
    BY <1>3, <2>3, <2>4, Zenon DEF more, AtOneMore
<1> QED
  BY <1>4, <1>5

LEMMA AtType == ASSUME NEW S, NEW q \in Seq(S), NEW P PROVE At(q, P) \in Seq(S)
  BY AtBoth, Zenon

LEMMA AtSnoc ==
    ASSUME NEW S, NEW q \in Seq(S), NEW t \in S, NEW P
    PROVE  At(Append(q, t), P) = AtOneMore(q, t, P)
<1>1. \A u \in S : At(Append(q, u), P) = AtOneMore(q, u, P)
  BY AtBoth, Zenon
<1> QED
  BY <1>1

LEMMA AtAll ==
    ASSUME NEW S, NEW q \in Seq(S), NEW P, \A i \in 1..Len(q) : i \in P
    PROVE  At(q, P) = q
<1> DEFINE Whole == {y \in Seq(S) : At(y, Nat) = y}
<1>1. <<>> \in Whole
  BY AtNone, EmptySeq
<1>2. \A y \in Seq(S) : y \in Whole => \A t \in S : Append(y, t) \in Whole
  <2> SUFFICES ASSUME NEW y \in Seq(S), At(y, Nat) = y, NEW t \in S
               PROVE  Append(y, t) \in Seq(S) /\ At(Append(y, t), Nat) = Append(y, t)
    OBVIOUS
  <2>1. Len(y) + 1 \in Nat
    OBVIOUS
  <2>2. At(Append(y, t), Nat) = AtOneMore(y, t, Nat)
    BY AtSnoc, Zenon
  <2> QED
    BY <2>1, <2>2 DEF AtOneMore
<1>3. q \in Whole
  <2> HIDE DEF Whole
  <2> QED
    BY <1>1, <1>2, TextInduction
<1>4. \A i \in DOMAIN q : i \in P <=> i \in Nat
  OBVIOUS
<1> QED
  BY <1>3, <1>4, AtSame

Has(a, v) == \E i \in DOMAIN a : a[i] = v

LEMMA AtHas ==
    ASSUME NEW S, NEW q \in Seq(S), NEW P, NEW k \in 1..Len(q), k \in P
    PROVE  Has(At(q, P), q[k])
<1> DEFINE Q == {y \in Seq(S) : \A n \in 1..Len(y) : n \in P => \E i \in DOMAIN At(y, P) : At(y, P)[i] = y[n]}
<1>1. <<>> \in Q
  OBVIOUS
<1>2. ASSUME NEW y \in Seq(S), y \in Q, NEW t \in S PROVE Append(y, t) \in Q
  <2> DEFINE z == Append(y, t)
             a == At(y, P)
             b == At(z, P)
  <2>1. z \in Seq(S) /\ Len(z) = Len(y) + 1 /\ z[Len(y) + 1] = t /\ \A n \in 1..Len(y) : z[n] = y[n]
    BY OneMore
  <2>2. a \in Seq(S) /\ b = IF Len(y) + 1 \in P THEN Append(a, t) ELSE a
    <3>1. a \in Seq(S) /\ b = AtOneMore(y, t, P)
      BY AtType, AtSnoc, Zenon
    <3> HIDE DEF b
    <3> QED
      BY <3>1, Zenon DEF AtOneMore
  <2>3. \A n \in 1..Len(y) : n \in P => \E i \in DOMAIN a : a[i] = y[n]
    BY <1>2
  <2> HIDE DEF a, b, z
  <2>4. \A i \in DOMAIN a : i \in DOMAIN b /\ b[i] = a[i]
    <3>1. /\ \A i \in DOMAIN a : i \in DOMAIN Append(a, t) /\ Append(a, t)[i] = a[i]
      BY <2>2
    <3> QED
      BY <2>2, <3>1
  <2>5. Len(y) + 1 \in P => \E i \in DOMAIN b : b[i] = t
    <3>1. Len(a) + 1 \in DOMAIN Append(a, t) /\ Append(a, t)[Len(a) + 1] = t
      BY <2>2
    <3> QED
      BY <2>2, <3>1
  <2>6. ASSUME NEW n \in 1..Len(z), n \in P PROVE \E i \in DOMAIN b : b[i] = z[n]
    <3>1. n \in 1..Len(y) \/ n = Len(y) + 1
      BY <2>1
    <3> QED
      BY <2>1, <2>3, <2>4, <2>5, <2>6, <3>1, Zenon
  <2> QED
    BY <2>1, <2>6, Zenon DEF b, z
<1>3. Seq(S) \subseteq Q
  <2> HIDE DEF Q
  <2> QED
    BY <1>1, <1>2, TextInduction
<1> QED
  BY <1>3, Zenon DEF Has

-----------------------------------------------------------------------------
(* The texts that Export-Csv writes, and any beginning of one.             *)

NoteTokens == Tokens \ {"bom"}
PlainTokens == Tokens \ {"quote", "newline", "bom"}
Alphabet(c) == IF c = Note THEN NoteTokens ELSE PlainTokens

\* Rows that the script has in memory: only the notes hold quotes and newlines.
Row == {row \in [1..Columns -> Field] : \A c \in 1..Columns : row[c] \in Seq(Alphabet(c))}

\* What llmos keeps of a field: its first line, without quotes.
First(field) == Lines(field)[1]
OneLine(field) == Len(Lines(field)) = 1
Strip(line) == At(line, {i \in DOMAIN line : line[i] # "quote"})
Read(field) == Strip(First(field))

\* What may follow in such a text when Import-Csv is in the state s.
Fits(s, t) ==
    /\ t \in Tokens \ {"bom"}
    /\ Len(s.fields) <= 4
    /\ Len(s.fields) < 4 => t # "newline" /\ (t = "quote" /\ ~s.quoted => ~s.closed)
    /\ Len(s.fields) = 4 => IF s.quoted THEN t \in NoteTokens ELSE t \in {"quote", "newline"}

\* A text that begins as they do.
Good(x) == \A k \in 1..Len(x) : Fits(Imported(SubSeq(x, 1, k - 1)), x[k])

LEMMA AlphabetTokens == \A c : Seq(Alphabet(c)) \subseteq Field
<1> SUFFICES ASSUME NEW c, NEW f \in Seq(Alphabet(c)) PROVE f \in Seq(Tokens)
  BY DEF Field
<1>1. Alphabet(c) \subseteq Tokens
  BY DEF Alphabet, NoteTokens, PlainTokens, Structure, Tokens, Written
<1> QED
  BY <1>1, SeqMonotonic

LEMMA StripSnoc ==
    ASSUME NEW S, NEW f \in Seq(S), NEW t \in S
    PROVE  Strip(Append(f, t)) = IF t = "quote" THEN Strip(f) ELSE Append(Strip(f), t)
<1> DEFINE more == Append(f, t)
           P == {i \in DOMAIN f : f[i] # "quote"}
           Q == {i \in DOMAIN more : more[i] # "quote"}
<1>1. /\ Len(f) \in Nat /\ DOMAIN f = 1..Len(f) /\ DOMAIN more = 1..(Len(f) + 1) /\ more[Len(f) + 1] = t
      /\ \A i \in 1..Len(f) : more[i] = f[i]
  BY OneMore
<1>2. At(more, Q) = AtOneMore(f, t, Q)
  <2> HIDE DEF Q
  <2> QED
    BY AtSnoc
<1> HIDE DEF more
<1>3. At(f, Q) = At(f, P)
  <2>1. \A i \in DOMAIN f : i \in Q <=> i \in P
    BY <1>1
  <2> HIDE DEF P, Q
  <2> QED
    BY <2>1, AtSame
<1>4. Len(f) + 1 \in Q <=> t # "quote"
  BY <1>1
<1>5. Strip(more) = At(more, Q) /\ Strip(f) = At(f, P)
  BY Zenon DEF Strip
<1> HIDE DEF P, Q
<1> QED
  BY <1>2, <1>3, <1>4, <1>5, Zenon DEF more, AtOneMore

LEMMA StripNone == Strip(<<>>) = <<>>
  BY AtNone DEF Strip

LEMMA StripPlain == ASSUME NEW f \in Seq(PlainTokens) PROVE Strip(f) = f
<1> DEFINE P == {i \in DOMAIN f : f[i] # "quote"}
<1>1. \A i \in 1..Len(f) : i \in P
  BY DEF PlainTokens
<1> HIDE DEF P
<1>2. At(f, P) = f
  BY <1>1, AtAll
<1> QED
  BY <1>2 DEF Strip, P

LEMMA LineCases ==
    ASSUME NEW L \in LineStates(Tokens), NEW t \in Tokens, NEW r, r = LineStep(L, t)
    PROVE  /\ t = "newline" => /\ Len(r) = Len(L) + 1 /\ r[Len(L) + 1] = <<>>
                               /\ \A k \in 1..Len(L) : r[k] = L[k]
           /\ t # "newline" => /\ Len(r) = Len(L) /\ r[Len(L)] = Append(L[Len(L)], t)
                               /\ \A k \in 1..Len(L) : k # Len(L) => r[k] = L[k]
  BY DEF LineStates, LineStep

LEMMA LineType ==
    ASSUME NEW L \in LineStates(Tokens)
    PROVE  Len(L) \in Nat \ {0} /\ \A k \in 1..Len(L) : L[k] \in Seq(Tokens)
  BY DEF LineStates

LEMMA FirstMore ==
    ASSUME NEW f \in Seq(Tokens), NEW t \in Tokens
    PROVE  /\ First(f) \in Seq(Tokens)
           /\ OneLine(Append(f, t)) <=> OneLine(f) /\ t # "newline"
           /\ First(Append(f, t)) = IF OneLine(f) /\ t # "newline" THEN Append(First(f), t) ELSE First(f)
<1> DEFINE L == Lines(f)
           K == Lines(Append(f, t))
<1>1. L \in LineStates(Tokens) /\ K = LineStep(L, t)
  BY LineSnoc, Zenon
<1> HIDE DEF L, K
<1>2. Len(L) \in Nat \ {0} /\ 1 \in 1..Len(L) /\ L[1] \in Seq(Tokens)
  BY <1>1, LineType
<1>3. CASE t = "newline"
  <2>1. Len(K) = Len(L) + 1 /\ K[1] = L[1]
    BY <1>1, <1>2, <1>3, LineCases
  <2>2. Len(K) # 1
    BY <1>2, <2>1
  <2> QED
    BY <1>2, <1>3, <2>1, <2>2, Zenon DEF First, OneLine, L, K
<1>4. CASE t # "newline"
  <2>1. /\ Len(K) = Len(L) /\ K[Len(L)] = Append(L[Len(L)], t)
        /\ \A k \in 1..Len(L) : k # Len(L) => K[k] = L[k]
    BY <1>1, <1>4, LineCases
  <2>2. K[1] = IF Len(L) = 1 THEN Append(L[1], t) ELSE L[1]
    BY <1>2, <2>1, Zenon
  <2> QED
    BY <1>2, <1>4, <2>1, <2>2, Zenon DEF First, OneLine, L, K
<1> QED
  BY <1>3, <1>4

LEMMA ReadNone == Read(<<>>) = <<>> /\ OneLine(<<>>)
<1>1. Lines(<<>>) = <<<<>>>>
  <2>1. <<>> \in Seq(Tokens)
    OBVIOUS
  <2> QED
    BY <2>1, LineSnoc, Zenon
<1>2. <<<<>>>>[1] = <<>> /\ Len(<<<<>>>>) = 1
  OBVIOUS
<1> QED
  BY <1>1, <1>2, StripNone, Zenon DEF Read, First, OneLine

LEMMA ReadMore ==
    ASSUME NEW f \in Seq(Tokens), NEW t \in Tokens
    PROVE  /\ t \in {"quote", "newline"} \/ ~OneLine(f) => Read(Append(f, t)) = Read(f)
           /\ t # "quote" /\ t # "newline" /\ OneLine(f) => Read(Append(f, t)) = Append(Read(f), t)
<1>1. /\ First(f) \in Seq(Tokens)
      /\ First(Append(f, t)) = IF OneLine(f) /\ t # "newline" THEN Append(First(f), t) ELSE First(f)
  BY FirstMore, Zenon
<1>2. Strip(Append(First(f), t)) = IF t = "quote" THEN Strip(First(f)) ELSE Append(Strip(First(f)), t)
  BY <1>1, StripSnoc, Zenon
<1>3. CASE OneLine(f) /\ t # "newline"
  <2>1. Read(Append(f, t)) = Strip(Append(First(f), t))
    BY <1>1, <1>3, Zenon DEF Read
  <2>2. t \in {"quote", "newline"} => t = "quote"
    BY <1>3
  <2> QED
    BY <1>2, <1>3, <2>1, <2>2, Zenon DEF Read
<1>4. CASE ~(OneLine(f) /\ t # "newline")
  <2>1. Read(Append(f, t)) = Read(f)
    BY <1>1, <1>4, Zenon DEF Read
  <2> QED
    BY <1>4, <2>1
<1> QED
  BY <1>3, <1>4

\* A field without quotes and newlines is kept as it is.
LEMMA ReadPlain == ASSUME NEW f \in Seq(PlainTokens) PROVE Read(f) = f
<1> DEFINE P == {q \in Seq(PlainTokens) : OneLine(q) /\ First(q) = q}
<1>1. <<>> \in P
  <2>1. <<>> \in Seq(Tokens) /\ <<>> \in Seq(PlainTokens) /\ <<<<>>>>[1] = <<>>
    OBVIOUS
  <2>2. First(<<>>) = <<>>
    BY <2>1, LineSnoc, Zenon DEF First
  <2> QED
    BY <2>1, <2>2, ReadNone, Zenon
<1>2. ASSUME NEW q \in Seq(PlainTokens), q \in P, NEW t \in PlainTokens PROVE Append(q, t) \in P
  <2>1. q \in Seq(Tokens) /\ t \in Tokens /\ t # "newline" /\ Append(q, t) \in Seq(PlainTokens)
    BY DEF PlainTokens
  <2> QED
    BY <1>2, <2>1, FirstMore, Zenon
<1>3. Seq(PlainTokens) \subseteq P
  <2> HIDE DEF P
  <2> QED
    BY <1>1, <1>2, TextInduction
<1> QED
  BY <1>3, StripPlain, Zenon DEF Read

LEMMA ImportedType == ASSUME NEW x \in Seq(Tokens) PROVE Imported(x) \in ImportStates
  BY ImportSnoc, Zenon

LEMMA ImportedSnoc ==
    ASSUME NEW x \in Seq(Tokens), NEW t \in Tokens
    PROVE  Imported(Append(x, t)) = ImportStep(Imported(x), t)
<1>1. \A u \in Tokens : Imported(Append(x, u)) = ImportStep(Imported(x), u)
  BY ImportSnoc, Zenon
<1> QED
  BY <1>1

LEMMA GoodSnoc ==
    ASSUME NEW x \in Seq(Tokens), NEW t \in Tokens
    PROVE  Good(Append(x, t)) <=> Good(x) /\ Fits(Imported(x), t)
<1> DEFINE more == Append(x, t)
           n == Len(x)
<1>1. /\ n \in Nat /\ more \in Seq(Tokens) /\ Len(more) = n + 1 /\ more[n + 1] = t /\ (n + 1) - 1 = n
      /\ \A k \in 1..n : more[k] = x[k] /\ k \in 1..(n + 1)
      /\ \A k \in 1..(n + 1) : k = n + 1 \/ k \in 1..n
      /\ n + 1 \in 1..(n + 1)
  OBVIOUS
<1>2. \A k \in 1..(n + 1) : SubSeq(more, 1, k - 1) = SubSeq(x, 1, k - 1)
  <2> SUFFICES ASSUME NEW k \in 1..(n + 1) PROVE SubSeq(more, 1, k - 1) = SubSeq(x, 1, k - 1)
    OBVIOUS
  <2> HIDE DEF more
  <2>1. k - 1 \in Nat /\ k - 1 <= n /\ k - 1 <= Len(more) /\ \A i \in 1..(k - 1) : more[i] = x[i]
    BY <1>1
  <2> QED
    BY <1>1, <2>1, SamePrefix
<1>3. SubSeq(x, 1, n) = x
  BY SubSeqFull
<1> HIDE DEF more, n
<1>4. Good(more) <=> \A k \in 1..(n + 1) : Fits(Imported(SubSeq(x, 1, k - 1)), more[k])
  BY <1>1, <1>2, Zenon DEF Good
<1>5. Good(x) <=> \A k \in 1..n : Fits(Imported(SubSeq(x, 1, k - 1)), more[k])
  BY <1>1, Zenon DEF Good, n
<1>6. Fits(Imported(SubSeq(x, 1, (n + 1) - 1)), more[n + 1]) <=> Fits(Imported(x), t)
  BY <1>1, <1>3, Zenon
<1> QED
  BY <1>1, <1>4, <1>5, <1>6, Zenon DEF more

LEMMA GoodPrefix ==
    ASSUME NEW x \in Seq(Tokens), Good(x), NEW k \in 0..Len(x)
    PROVE  SubSeq(x, 1, k) \in Seq(Tokens) /\ Good(SubSeq(x, 1, k))
<1>1. SubSeq(x, 1, k) \in Seq(Tokens) /\ Len(SubSeq(x, 1, k)) = k /\ \A i \in 1..k : SubSeq(x, 1, k)[i] = x[i]
  OBVIOUS
<1>2. ASSUME NEW i \in 1..k
      PROVE  Fits(Imported(SubSeq(SubSeq(x, 1, k), 1, i - 1)), SubSeq(x, 1, k)[i])
  <2>1. /\ i \in 1..Len(x) /\ i - 1 \in Nat /\ i - 1 <= k /\ i - 1 <= Len(x)
        /\ \A j \in 1..(i - 1) : SubSeq(x, 1, k)[j] = x[j]
    BY <1>1
  <2>2. SubSeq(SubSeq(x, 1, k), 1, i - 1) = SubSeq(x, 1, i - 1)
    BY <1>1, <2>1, SamePrefix
  <2>3. Fits(Imported(SubSeq(x, 1, i - 1)), x[i])
    BY <2>1 DEF Good
  <2> QED
    BY <1>1, <2>2, <2>3, Zenon
<1> QED
  BY <1>1, <1>2, Zenon DEF Good

-----------------------------------------------------------------------------
(* Import-Csv reads what Export-Csv wrote: field by field, row by row.     *)

Reader(table, fields, current, quoted, closed) ==
    [table |-> table, fields |-> fields, current |-> current, quoted |-> quoted, closed |-> closed]

LEMMA ConcatSnoc ==
    ASSUME NEW T, NEW x \in Seq(T), NEW y \in Seq(T), NEW t \in T
    PROVE  x \o Append(y, t) = Append(x \o y, t) /\ x \o <<t>> = Append(x, t)
<1>1. <<t>> \in Seq(T) /\ x \o y \in Seq(T)
  OBVIOUS
<1>2. \A z \in Seq(T) : Append(z, t) = z \o <<t>>
  OBVIOUS
<1>3. x \o (y \o <<t>>) = (x \o y) \o <<t>>
  BY <1>1, ConcatAssociative
<1> QED
  BY <1>1, <1>2, <1>3

LEMMA Join ==
    \A a, b, c \in Seq(Tokens) : a \o b \in Seq(Tokens) /\ a \o (b \o c) = (a \o b) \o c
  BY ConcatProperties, ConcatAssociative

LEMMA ReadOpeningQuote ==
    ASSUME NEW table, NEW fields, NEW current
    PROVE  ImportStep(Reader(table, fields, current, FALSE, FALSE), "quote")
             = Reader(table, fields, current, TRUE, FALSE)
  BY DEF Reader, ImportStep

LEMMA ReadSecondQuote ==
    ASSUME NEW table, NEW fields, NEW current
    PROVE  ImportStep(Reader(table, fields, current, FALSE, TRUE), "quote")
             = Reader(table, fields, Append(current, "quote"), TRUE, TRUE)
  BY DEF Reader, ImportStep

LEMMA ReadClosingQuote ==
    ASSUME NEW table, NEW fields, NEW current, NEW closed \in BOOLEAN
    PROVE  ImportStep(Reader(table, fields, current, TRUE, closed), "quote")
             = Reader(table, fields, current, FALSE, TRUE)
  BY DEF Reader, ImportStep

LEMMA ReadComma ==
    ASSUME NEW table, NEW fields, NEW current
    PROVE  ImportStep(Reader(table, fields, current, FALSE, TRUE), "comma")
             = Reader(table, Append(fields, current), <<>>, FALSE, FALSE)
  BY DEF Reader, ImportStep

LEMMA ReadNewline ==
    ASSUME NEW table, NEW fields, NEW current
    PROVE  ImportStep(Reader(table, fields, current, FALSE, TRUE), "newline")
             = Reader(Append(table, Append(fields, current)), <<>>, <<>>, FALSE, FALSE)
  BY DEF Reader, ImportStep

InQuotes(table, fields, current, t) == Reader(table, fields, Append(current, t), TRUE, FALSE)

LEMMA ReadInQuotes ==
    ASSUME NEW table, NEW fields, NEW current, NEW closed \in BOOLEAN, NEW t, t # "quote", t # "bom"
    PROVE  ImportStep(Reader(table, fields, current, TRUE, closed), t) = InQuotes(table, fields, current, t)
  BY DEF Reader, ImportStep, InQuotes

\* A step on a text that begins as one that was written.
LEMMA Feed ==
    ASSUME NEW x \in Seq(Tokens), Good(x), NEW t \in Tokens, Fits(Imported(x), t)
    PROVE  /\ Append(x, t) \in Seq(Tokens) /\ Good(Append(x, t))
           /\ Imported(Append(x, t)) = ImportStep(Imported(x), t)
<1>1. Append(x, t) \in Seq(Tokens)
  BY OneMore
<1> QED
  BY <1>1, GoodSnoc, ImportedSnoc, Zenon

LEMMA AlphabetOf ==
    ASSUME NEW n \in 0..4, NEW u \in Alphabet(n + 1)
    PROVE  /\ u \in Tokens /\ u # "bom"
           /\ n < 4 => u \notin {"quote", "newline"}
           /\ n = 4 => u \in NoteTokens
           /\ u = "quote" => n = 4
<1>1. n + 1 = Note <=> n = 4
  BY DEF Note
<1>2. u \in Tokens /\ u # "bom" /\ (n # 4 => u \notin {"quote", "newline"}) /\ (n = 4 => u \in NoteTokens)
  <2>1. CASE n = 4
    BY <1>1, <2>1 DEF Alphabet, NoteTokens, Structure, Tokens, Written
  <2>2. CASE n # 4
    BY <1>1, <2>2 DEF Alphabet, PlainTokens
  <2> QED
    BY <2>1, <2>2
<1> QED
  BY <1>2

LEMMA StructureTokens ==
    /\ "quote" \in Tokens /\ "comma" \in Tokens /\ "newline" \in Tokens /\ "bom" \in Tokens
    /\ "quote" \in NoteTokens
  BY DEF Tokens, NoteTokens, Structure

LEMMA QuoteFits ==
    ASSUME NEW table, NEW fields \in Seq(Field), NEW current, NEW quoted \in BOOLEAN, NEW closed \in BOOLEAN,
           NEW n \in 0..4, Len(fields) = n, quoted \/ ~closed \/ n = 4
    PROVE  Fits(Reader(table, fields, current, quoted, closed), "quote")
<1> DEFINE s == Reader(table, fields, current, quoted, closed)
<1>1. s.fields = fields /\ s.quoted = quoted /\ s.closed = closed
  BY DEF Reader
<1> HIDE DEF s
<1>2. "quote" \in Tokens \ {"bom"} /\ "quote" \in NoteTokens /\ "quote" # "newline"
  BY StructureTokens
<1>3. n <= 4 /\ (n < 4 => quoted \/ ~closed) /\ "quote" \in {"quote", "newline"}
  OBVIOUS
<1>4. Len(s.fields) <= 4 /\ (Len(s.fields) = 4 => IF s.quoted THEN "quote" \in NoteTokens ELSE "quote" \in {"quote", "newline"})
  BY <1>1, <1>2, <1>3, Zenon
<1>5. Len(s.fields) < 4 => "quote" # "newline" /\ ("quote" = "quote" /\ ~s.quoted => ~s.closed)
  BY <1>1, <1>2, <1>3, Zenon
<1> QED
  BY <1>2, <1>4, <1>5, Zenon DEF Fits, s

LEMMA TokenFits ==
    ASSUME NEW table, NEW fields \in Seq(Field), NEW current, NEW closed \in BOOLEAN,
           NEW n \in 0..4, Len(fields) = n, NEW u \in Tokens, u # "bom", u # "quote",
           n < 4 => u # "newline", n = 4 => u \in NoteTokens
    PROVE  Fits(Reader(table, fields, current, TRUE, closed), u)
<1> DEFINE s == Reader(table, fields, current, TRUE, closed)
<1>1. s.fields = fields /\ s.quoted = TRUE
  BY DEF Reader
<1> HIDE DEF s
<1>2. u \in Tokens \ {"bom"} /\ u # "quote" /\ n <= 4
  OBVIOUS
<1>3. Len(s.fields) <= 4 /\ (Len(s.fields) = 4 => IF s.quoted THEN u \in NoteTokens ELSE u \in {"quote", "newline"})
  BY <1>1, <1>2, Zenon
<1>4. Len(s.fields) < 4 => u # "newline" /\ (u = "quote" /\ ~s.quoted => ~s.closed)
  BY <1>1, <1>2, Zenon
<1> QED
  BY <1>2, <1>3, <1>4, Zenon DEF Fits, s

LEMMA QuoteTwice ==
    ASSUME NEW y \in Seq(Tokens)
    PROVE  y \o <<"quote", "quote">> = Append(Append(y, "quote"), "quote")
<1>1. ASSUME NEW t \in Tokens PROVE y \o <<t, t>> = Append(Append(y, t), t)
  OBVIOUS
<1> QED
  BY <1>1, StructureTokens, Zenon

\* A text that begins as one that was written and ends within a field.
EndsIn(y, table, fields, current) ==
    /\ y \in Seq(Tokens) /\ Good(y)
    /\ \E c \in BOOLEAN : Imported(y) = Reader(table, fields, current, TRUE, c)

\* One token of a field, a quote twice.
LEMMA FeedToken ==
    ASSUME NEW table, NEW fields \in Seq(Field), NEW n \in 0..4, Len(fields) = n,
           NEW current, NEW y, EndsIn(y, table, fields, current), NEW u \in Alphabet(n + 1),
           NEW more, more = y \o (IF u = "quote" THEN <<"quote", "quote">> ELSE <<u>>)
    PROVE  EndsIn(more, table, fields, Append(current, u))
<1>0. PICK closed \in BOOLEAN :
          y \in Seq(Tokens) /\ Good(y) /\ Imported(y) = Reader(table, fields, current, TRUE, closed)
  BY DEF EndsIn
<1>1. /\ u \in Tokens /\ u # "bom" /\ (n < 4 => u # "newline") /\ (n = 4 => u \in NoteTokens)
      /\ (u = "quote" => n = 4)
  BY AlphabetOf
<1>2. CASE u # "quote"
  <2>1. more = Append(y, u)
    BY <1>0, <1>1, <1>2, ConcatSnoc
  <2>2. Fits(Imported(y), u)
    <3>2. Fits(Reader(table, fields, current, TRUE, closed), u)
      BY <1>1, <1>2, TokenFits, Zenon
    <3> QED
      BY <1>0, <3>2, Zenon
  <2>3. Append(y, u) \in Seq(Tokens) /\ Good(Append(y, u)) /\ Imported(Append(y, u)) = ImportStep(Imported(y), u)
    BY <1>0, <1>1, <2>2, Feed
  <2>4. ImportStep(Imported(y), u) = Reader(table, fields, Append(current, u), TRUE, FALSE)
    <3>1. ImportStep(Reader(table, fields, current, TRUE, closed), u) = InQuotes(table, fields, current, u)
      BY <1>1, <1>2, ReadInQuotes, Zenon
    <3> QED
      BY <1>0, <3>1, Zenon DEF InQuotes
  <2>5. Imported(more) = Reader(table, fields, Append(current, u), TRUE, FALSE) /\ FALSE \in BOOLEAN
    BY <2>1, <2>3, <2>4, Zenon
  <2> QED
    BY <2>1, <2>3, <2>5, Zenon DEF EndsIn
<1>3. CASE u = "quote"
  <2> DEFINE y1 == Append(y, "quote")
             y2 == Append(y1, "quote")
  <2>1. Fits(Reader(table, fields, current, TRUE, closed), "quote")
    BY <1>1, <1>3, QuoteFits
  <2>2. Fits(Reader(table, fields, current, FALSE, TRUE), "quote")
    BY <1>1, <1>3, QuoteFits
  <2>3. y1 \in Seq(Tokens) /\ Good(y1) /\ Imported(y1) = ImportStep(Imported(y), "quote")
    BY <1>0, <2>1, Feed, StructureTokens, Zenon
  <2>4. Imported(y1) = Reader(table, fields, current, FALSE, TRUE)
    BY <1>0, <2>3, ReadClosingQuote, Zenon
  <2>5. y2 \in Seq(Tokens) /\ Good(y2) /\ Imported(y2) = ImportStep(Imported(y1), "quote")
    <3> HIDE DEF y1
    <3> QED
      BY <2>2, <2>3, <2>4, Feed, StructureTokens, Zenon
  <2>6. Imported(y2) = Reader(table, fields, Append(current, "quote"), TRUE, TRUE) /\ TRUE \in BOOLEAN
    <3> HIDE DEF y1, y2
    <3> QED
      BY <2>4, <2>5, ReadSecondQuote, Zenon
  <2>7. more = y2
    <3>1. more = y \o <<"quote", "quote">>
      BY <1>3
    <3> QED
      BY <1>0, <3>1, QuoteTwice, Zenon
  <2> HIDE DEF y2
  <2> QED
    BY <1>3, <2>5, <2>6, <2>7, Zenon DEF EndsIn
<1> QED
  BY <1>2, <1>3

\* What is between the quotes of a field, token by token.
Between(g, field, m) ==
    /\ g[0] = <<>> /\ Quoted(field) = (<<"quote">> \o g[m]) \o <<"quote">>
    /\ \A i \in 1..m : g[i] = g[i - 1] \o (IF field[i] = "quote" THEN <<"quote", "quote">> ELSE <<field[i]>>)

LEMMA QuotedParts ==
    ASSUME NEW n, NEW field \in Seq(Alphabet(n)), NEW m, m = Len(field)
    PROVE  \E g \in [0..m -> Seq(Tokens)] : Between(g, field, m)
<1> DEFINE doubled == [i \in DOMAIN field |-> IF field[i] = "quote" THEN <<"quote", "quote">> ELSE <<field[i]>>]
<1>1. m \in Nat /\ DOMAIN field = 1..m /\ \A i \in 1..m : field[i] \in Tokens
  <2>1. field \in Seq(Tokens)
    BY AlphabetTokens DEF Field
  <2> QED
    BY <2>1
<1>2. doubled \in [1..m -> Seq(Tokens)]
  <2>1. \A t \in Tokens : <<t>> \in Seq(Tokens) /\ <<t, t>> \in Seq(Tokens)
    OBVIOUS
  <2>2. \A i \in 1..m : (IF field[i] = "quote" THEN <<"quote", "quote">> ELSE <<field[i]>>) \in Seq(Tokens)
    BY <1>1, <2>1, StructureTokens, Zenon
  <2> QED
    BY <1>1, <2>2
<1>3. Quoted(field) = (<<"quote">> \o FlattenSeq(doubled)) \o <<"quote">>
  BY DEF Quoted
<1>4. \A i \in 1..m : doubled[i] = IF field[i] = "quote" THEN <<"quote", "quote">> ELSE <<field[i]>>
  BY <1>1
<1> HIDE DEF doubled
<1>5. PICK g \in [0..m -> Seq(Tokens)] : Gathers(g, m, doubled)
  BY <1>1, <1>2, Parts, Zenon
<1> QED
  BY <1>3, <1>4, <1>5, Zenon DEF Gathers, Between

LEMMA FeedField ==
    ASSUME NEW table, NEW fields \in Seq(Field), NEW n \in 0..4, Len(fields) = n,
           NEW x \in Seq(Tokens), Good(x), Imported(x) = Reader(table, fields, <<>>, FALSE, FALSE),
           NEW field \in Seq(Alphabet(n + 1))
    PROVE  /\ Quoted(field) \in Seq(Tokens) /\ x \o Quoted(field) \in Seq(Tokens)
           /\ Good(x \o Quoted(field))
           /\ Imported(x \o Quoted(field)) = Reader(table, fields, field, FALSE, TRUE)
<1> DEFINE y0 == Append(x, "quote")
           m == Len(field)
           part(i) == IF field[i] = "quote" THEN <<"quote", "quote">> ELSE <<field[i]>>
<1>1. m \in Nat /\ \A i \in 1..m : field[i] \in Alphabet(n + 1)
  OBVIOUS
<1>2. PICK g \in [0..m -> Seq(Tokens)] :
           /\ g[0] = <<>> /\ Quoted(field) = (<<"quote">> \o g[m]) \o <<"quote">>
           /\ \A i \in 1..m : g[i] = g[i - 1] \o part(i)
  <2>1. \E g \in [0..m -> Seq(Tokens)] : Between(g, field, m)
    BY QuotedParts, Zenon
  <2> QED
    BY <2>1, Zenon DEF Between
<1>3. y0 \in Seq(Tokens) /\ Good(y0) /\ Imported(y0) = Reader(table, fields, <<>>, TRUE, FALSE)
  <2>1. Fits(Imported(x), "quote")
    BY QuoteFits
  <2>2. y0 \in Seq(Tokens) /\ Good(y0) /\ Imported(y0) = ImportStep(Imported(x), "quote")
    BY <2>1, Feed, StructureTokens, Zenon
  <2> QED
    BY <2>2, ReadOpeningQuote, Zenon
<1> HIDE DEF y0, m, part
<1> DEFINE y(k) == y0 \o g[k]
           P == {k \in 0..m : EndsIn(y(k), table, fields, SubSeq(field, 1, k))}
<1>4. 0 \in P
  <2>1. y(0) = y0 /\ 0 \in 0..m
    BY <1>1, <1>2, <1>3, ConcatEmptySeq
  <2>2. SubSeq(field, 1, 0) = <<>>
    BY SubSeqEmpty
  <2> HIDE DEF y
  <2> QED
    BY <1>3, <2>1, <2>2, Zenon DEF EndsIn
<1>5. \A k \in 0..(m - 1) : k \in P => k + 1 \in P
  <2> SUFFICES ASSUME NEW k \in 0..(m - 1), k \in P PROVE k + 1 \in P
    OBVIOUS
  <2>1. k \in 0..m /\ k + 1 \in 0..m /\ k + 1 \in 1..m /\ (k + 1) - 1 = k
    BY <1>1
  <2>4. y(k + 1) = y(k) \o part(k + 1)
    <3>1. g[k + 1] = g[k] \o part(k + 1)
      BY <1>2, <2>1
    <3>2. g[k] \in Seq(Tokens) /\ part(k + 1) \in Seq(Tokens)
      <4>1. \A t \in Tokens : <<t>> \in Seq(Tokens) /\ <<t, t>> \in Seq(Tokens)
        OBVIOUS
      <4>2. field[k + 1] \in Tokens
        BY <1>1, <2>1, AlphabetOf
      <4>3. part(k + 1) \in Seq(Tokens)
        BY <4>1, <4>2, StructureTokens, Zenon DEF part
      <4> QED
        BY <2>1, <4>3
    <3>3. y0 \o (g[k] \o part(k + 1)) = (y0 \o g[k]) \o part(k + 1)
      BY <1>3, <3>2, Join, Zenon
    <3> QED
      BY <3>1, <3>3, Zenon
  <2>5. SubSeq(field, 1, k + 1) = Append(SubSeq(field, 1, k), field[k + 1])
    BY PrefixSnoc DEF m
  <2> HIDE DEF y, P
  <2>6. EndsIn(y(k + 1), table, fields, Append(SubSeq(field, 1, k), field[k + 1]))
    <3>1. field[k + 1] \in Alphabet(n + 1) /\ EndsIn(y(k), table, fields, SubSeq(field, 1, k))
      BY <1>1, <2>1 DEF P
    <3>2. y(k + 1) = y(k) \o (IF field[k + 1] = "quote" THEN <<"quote", "quote">> ELSE <<field[k + 1]>>)
      BY <2>4 DEF part
    <3> QED
      BY <3>1, <3>2, FeedToken, Zenon
  <2> QED
    BY <2>1, <2>5, <2>6, Zenon DEF P
<1>6. m \in P
  <2> HIDE DEF P
  <2>1. \A k \in 0..m : k \in P
    BY <1>1, <1>4, <1>5, Upwards
  <2> QED
    BY <1>1, <2>1
<1>7. PICK c \in BOOLEAN : /\ y(m) \in Seq(Tokens) /\ Good(y(m))
                           /\ Imported(y(m)) = Reader(table, fields, field, TRUE, c)
  <2>1. SubSeq(field, 1, m) = field
    BY SubSeqFull DEF m
  <2> QED
    BY <1>6, <2>1 DEF EndsIn
<1>8. x \o Quoted(field) = Append(y(m), "quote") /\ Quoted(field) \in Seq(Tokens)
  <2>1. g[m] \in Seq(Tokens) /\ <<"quote">> \in Seq(Tokens)
    <3>1. m \in 0..m /\ \A t \in Tokens : <<t>> \in Seq(Tokens)
      BY <1>1
    <3> QED
      BY <3>1, StructureTokens
  <2>2. <<"quote">> \o g[m] \in Seq(Tokens) /\ Quoted(field) \in Seq(Tokens)
    BY <1>2, <2>1
  <2>3. x \o Quoted(field) = (x \o (<<"quote">> \o g[m])) \o <<"quote">>
    <3> DEFINE w == <<"quote">> \o g[m]
               z == <<"quote">>
    <3>1. w \in Seq(Tokens) /\ z \in Seq(Tokens) /\ Quoted(field) = w \o z
      BY <1>2, <2>1, <2>2, Zenon
    <3> HIDE DEF w, z
    <3>2. x \o (w \o z) = (x \o w) \o z
      BY <3>1, Join, Zenon
    <3> QED
      BY <3>1, <3>2, Zenon DEF w, z
  <2>4. x \o (<<"quote">> \o g[m]) = (x \o <<"quote">>) \o g[m]
    BY <2>1, Join, Zenon
  <2>5. x \o <<"quote">> = y0
    BY ConcatSnoc, StructureTokens, EmptySeq, Zenon DEF y0
  <2>6. y(m) \o <<"quote">> = Append(y(m), "quote")
    <3> HIDE DEF y
    <3> QED
      BY <1>7, ConcatSnoc, StructureTokens, Zenon
  <2> QED
    BY <2>2, <2>3, <2>4, <2>5, <2>6, Zenon
<1> HIDE DEF y, P
<1>9. Fits(Reader(table, fields, field, TRUE, c), "quote")
  BY QuoteFits
<1>10. /\ Append(y(m), "quote") \in Seq(Tokens) /\ Good(Append(y(m), "quote"))
       /\ Imported(Append(y(m), "quote")) = ImportStep(Imported(y(m)), "quote")
  BY <1>7, <1>9, Feed, StructureTokens, Zenon
<1> QED
  BY <1>7, <1>8, <1>10, ReadClosingQuote, Zenon

LEMMA CommaFits ==
    ASSUME NEW table, NEW fields, NEW current, NEW n \in 0..3, Len(fields) = n
    PROVE  Fits(Reader(table, fields, current, FALSE, TRUE), "comma")
<1> DEFINE s == Reader(table, fields, current, FALSE, TRUE)
<1>1. s.fields = fields
  BY DEF Reader
<1> HIDE DEF s
<1>2. "comma" \in Tokens \ {"bom"} /\ "comma" # "newline" /\ "comma" # "quote" /\ n <= 4 /\ n # 4
  BY StructureTokens
<1> QED
  BY <1>1, <1>2, Zenon DEF Fits, s

LEMMA NewlineFits ==
    ASSUME NEW table, NEW fields, NEW current, Len(fields) = 4
    PROVE  Fits(Reader(table, fields, current, FALSE, TRUE), "newline")
<1> DEFINE s == Reader(table, fields, current, FALSE, TRUE)
<1>1. s.fields = fields /\ s.quoted = FALSE
  BY DEF Reader
<1> HIDE DEF s
<1>2. "newline" \in Tokens \ {"bom"} /\ 4 <= 4 /\ ~(4 < 4) /\ "newline" \in {"quote", "newline"}
  BY StructureTokens
<1> QED
  BY <1>1, <1>2, Zenon DEF Fits, s

Comma(c) == IF c = 1 THEN <<>> ELSE <<"comma">>

LEMMA RowFields ==
    ASSUME NEW row \in Row
    PROVE  row \in Seq(Field) /\ Len(row) = 5
<1>1. row \in [1..5 -> Field]
  BY DEF Row, Columns
<1>2. row \in Seq(Field)
  <2>1. \A S : \A n \in Nat : \A q \in [1..n -> S] : q \in Seq(S)
    OBVIOUS
  <2>2. 5 \in Nat
    OBVIOUS
  <2> QED
    BY <1>1, <2>1, <2>2, Zenon
<1>3. DOMAIN row = 1..5
  BY <1>1
<1> QED
  BY <1>2, <1>3

LEMMA RowField ==
    ASSUME NEW row \in Row, NEW c \in 1..5
    PROVE  row[c] \in Seq(Alphabet(c)) /\ Quoted(row[c]) \in Seq(Tokens)
<1>1. row[c] \in Seq(Alphabet(c))
  BY DEF Row, Columns
<1>2. PICK g \in [0..Len(row[c]) -> Seq(Tokens)] : Quoted(row[c]) = (<<"quote">> \o g[Len(row[c])]) \o <<"quote">>
  <2>1. \E g \in [0..Len(row[c]) -> Seq(Tokens)] : Between(g, row[c], Len(row[c]))
    BY <1>1, QuotedParts, Zenon
  <2> QED
    BY <2>1, Zenon DEF Between
<1>3. g[Len(row[c])] \in Seq(Tokens)
  <2>1. Len(row[c]) \in 0..Len(row[c])
    BY <1>1
  <2> QED
    BY <2>1, Zenon
<1>4. <<"quote">> \in Seq(Tokens)
  <2>1. \A t \in Tokens : <<t>> \in Seq(Tokens)
    OBVIOUS
  <2> QED
    BY <2>1, StructureTokens, Zenon
<1>5. <<"quote">> \o g[Len(row[c])] \in Seq(Tokens)
  BY <1>3, <1>4, Join, Zenon
<1> QED
  BY <1>1, <1>2, <1>4, <1>5, Join, Zenon

LEMMA RowParts ==
    ASSUME NEW row \in Row
    PROVE  \E g \in [0..5 -> Seq(Tokens)] :
               /\ g[0] = <<>> /\ ExportRow(row) = g[5] \o <<"newline">>
               /\ \A c \in 1..5 : g[c] = g[c - 1] \o (Comma(c) \o Quoted(row[c]))
<1> DEFINE parts == [c \in 1..5 |-> (IF c = 1 THEN <<>> ELSE <<"comma">>) \o Quoted(row[c])]
<1>1. ASSUME NEW c \in 1..5 PROVE Comma(c) \o Quoted(row[c]) \in Seq(Tokens)
  <2>1. Comma(c) \in Seq(Tokens)
    <3>1. <<>> \in Seq(Tokens) /\ \A t \in Tokens : <<t>> \in Seq(Tokens)
      OBVIOUS
    <3> QED
      BY <3>1, StructureTokens, Zenon DEF Comma
  <2> QED
    BY <2>1, RowField, Join, Zenon
<1>2. \A c \in 1..5 : parts[c] = Comma(c) \o Quoted(row[c])
  BY Zenon DEF Comma
<1>3. parts \in [1..5 -> Seq(Tokens)]
  <2>1. parts = [c \in 1..5 |-> Comma(c) \o Quoted(row[c])]
    BY Zenon DEF Comma
  <2> HIDE DEF parts
  <2> QED
    BY <1>1, <2>1
<1>4. ExportRow(row) = FlattenSeq(parts) \o <<"newline">>
  BY Zenon DEF ExportRow, Columns
<1> HIDE DEF parts
<1>5. PICK g \in [0..5 -> Seq(Tokens)] : Gathers(g, 5, parts)
  <2>1. 5 \in Nat
    OBVIOUS
  <2> QED
    BY <1>3, <2>1, Parts, Zenon
<1> QED
  BY <1>2, <1>4, <1>5, Zenon DEF Gathers

\* After c fields of a row.
AfterField(x, table, row, c) ==
    /\ x \in Seq(Tokens) /\ Good(x)
    /\ Imported(x) = IF c = 0 THEN Reader(table, <<>>, <<>>, FALSE, FALSE)
                     ELSE Reader(table, SubSeq(row, 1, c - 1), row[c], FALSE, TRUE)

LEMMA FeedColumn ==
    ASSUME NEW table, NEW row \in Row, NEW c \in 0..4, NEW x, AfterField(x, table, row, c)
    PROVE  AfterField(x \o (Comma(c + 1) \o Quoted(row[c + 1])), table, row, c + 1)
<1> DEFINE fields == SubSeq(row, 1, c)
           q == Quoted(row[c + 1])
           start == Reader(table, fields, <<>>, FALSE, FALSE)
<1>1. /\ c + 1 \in 1..5 /\ c + 1 # 0 /\ (c + 1) - 1 = c /\ c \in Nat /\ c \in 0..(5 - 1)
      /\ c # 0 => c \in 1..5 /\ c + 1 # 1 /\ c - 1 \in 0..3 /\ (c - 1) + 1 = c /\ c - 1 \in 0..(5 - 1)
  OBVIOUS
<1>2. row \in Seq(Field) /\ Len(row) = 5 /\ x \in Seq(Tokens) /\ Good(x)
  BY RowFields, Zenon DEF AfterField
<1>3. row[c + 1] \in Seq(Alphabet(c + 1)) /\ q \in Seq(Tokens)
  BY <1>1, RowField, Zenon
<1>4. fields \in Seq(Field) /\ Len(fields) = c
  BY <1>1, <1>2, PrefixSnoc
<1> HIDE DEF q
<1>5. \E y \in Seq(Tokens) : Good(y) /\ Imported(y) = start /\ x \o (Comma(c + 1) \o q) = y \o q
  <2>1. CASE c = 0
    <3>1. Imported(x) = Reader(table, <<>>, <<>>, FALSE, FALSE)
      BY <2>1, Zenon DEF AfterField
    <3>2. fields = <<>>
      BY <1>4, <2>1, EmptySeq
    <3>3. Comma(c + 1) = <<>>
      BY <2>1 DEF Comma
    <3>4. <<>> \o q = q
      BY <1>3
    <3> HIDE DEF fields
    <3> QED
      BY <1>2, <3>1, <3>2, <3>3, <3>4, Zenon
  <2>2. CASE c # 0
    <3> DEFINE before == SubSeq(row, 1, c - 1)
               s == Reader(table, before, row[c], FALSE, TRUE)
               y == Append(x, "comma")
    <3>1. Imported(x) = s
      BY <2>2, Zenon DEF AfterField
    <3>2. Len(before) = c - 1 /\ fields = Append(before, row[c])
      <4> DEFINE k == c - 1
      <4>1. k \in 0..(5 - 1) /\ k + 1 = c
        BY <1>1, <2>2
      <4> HIDE DEF k
      <4>2. k \in 0..(Len(row) - 1)
        BY <1>2, <4>1
      <4>3. Len(SubSeq(row, 1, k)) = k /\ SubSeq(row, 1, k + 1) = Append(SubSeq(row, 1, k), row[k + 1])
        BY <1>2, <4>2, PrefixSnoc
      <4> QED
        BY <4>1, <4>3, Zenon DEF k
    <3> HIDE DEF before, fields
    <3>3. Fits(s, "comma")
      BY <1>1, <2>2, <3>2, CommaFits, Zenon
    <3>4. y \in Seq(Tokens) /\ Good(y) /\ Imported(y) = ImportStep(s, "comma")
      <4>1. Fits(Imported(x), "comma")
        BY <3>1, <3>3, Zenon
      <4>2. y \in Seq(Tokens) /\ Good(y) /\ Imported(y) = ImportStep(Imported(x), "comma")
        <5> HIDE DEF s
        <5> QED
          BY <1>2, <4>1, Feed, StructureTokens, Zenon
      <4> QED
        BY <3>1, <4>2, Zenon
    <3>5. ImportStep(s, "comma") = start
      <4>1. ImportStep(s, "comma") = Reader(table, Append(before, row[c]), <<>>, FALSE, FALSE)
        BY ReadComma, Zenon
      <4> QED
        BY <3>2, <4>1, Zenon
    <3>6. Comma(c + 1) = <<"comma">>
      BY <1>1, <2>2, Zenon DEF Comma
    <3>7. x \o (<<"comma">> \o q) = y \o q
      <4>1. <<"comma">> \in Seq(Tokens) /\ x \o <<"comma">> = y
        BY <1>2, StructureTokens
      <4> HIDE DEF y
      <4> QED
        BY <1>2, <1>3, <4>1, Join, Zenon
    <3> HIDE DEF y, s, start
    <3> QED
      BY <3>4, <3>5, <3>6, <3>7, Zenon
  <2> QED
    BY <2>1, <2>2
<1>6. PICK y \in Seq(Tokens) : Good(y) /\ Imported(y) = start /\ x \o (Comma(c + 1) \o q) = y \o q
  BY <1>5, Zenon
<1> HIDE DEF fields
<1>7. /\ y \o Quoted(row[c + 1]) \in Seq(Tokens) /\ Good(y \o Quoted(row[c + 1]))
      /\ Imported(y \o Quoted(row[c + 1])) = Reader(table, fields, row[c + 1], FALSE, TRUE)
  BY <1>3, <1>4, <1>6, FeedField, Zenon
<1> QED
  BY <1>1, <1>6, <1>7, Zenon DEF AfterField, q, fields

\* A row.
LEMMA FeedRow ==
    ASSUME NEW table, NEW row \in Row,
           NEW x \in Seq(Tokens), Good(x), Imported(x) = Reader(table, <<>>, <<>>, FALSE, FALSE)
    PROVE  /\ ExportRow(row) \in Seq(Tokens) /\ x \o ExportRow(row) \in Seq(Tokens)
           /\ Good(x \o ExportRow(row))
           /\ Imported(x \o ExportRow(row)) = Reader(Append(table, row), <<>>, <<>>, FALSE, FALSE)
<1>1. PICK g \in [0..5 -> Seq(Tokens)] :
          /\ g[0] = <<>> /\ ExportRow(row) = g[5] \o <<"newline">>
          /\ \A c \in 1..5 : g[c] = g[c - 1] \o (Comma(c) \o Quoted(row[c]))
  BY RowParts, Zenon
<1> DEFINE P == {c \in 0..5 : AfterField(x \o g[c], table, row, c)}
<1>2. 0 \in P
  <2>1. x \o <<>> = x /\ 0 \in 0..5
    OBVIOUS
  <2> QED
    BY <1>1, <2>1, Zenon DEF AfterField
<1>3. \A c \in 0..(5 - 1) : c \in P => c + 1 \in P
  <2> SUFFICES ASSUME NEW c \in 0..(5 - 1), AfterField(x \o g[c], table, row, c) PROVE c + 1 \in P
    BY Zenon
  <2>1. c \in 0..4 /\ c \in 0..5 /\ c + 1 \in 0..5 /\ c + 1 \in 1..5 /\ (c + 1) - 1 = c
    OBVIOUS
  <2> DEFINE more == Comma(c + 1) \o Quoted(row[c + 1])
  <2>2. AfterField((x \o g[c]) \o more, table, row, c + 1)
    BY <2>1, FeedColumn, Zenon
  <2>3. g[c + 1] = g[c] \o more /\ g[c] \in Seq(Tokens)
    BY <1>1, <2>1
  <2>4. more \in Seq(Tokens)
    <3>1. Comma(c + 1) \in Seq(Tokens)
      <4>1. <<>> \in Seq(Tokens) /\ \A t \in Tokens : <<t>> \in Seq(Tokens)
        OBVIOUS
      <4> QED
        BY <4>1, StructureTokens, Zenon DEF Comma
    <3> QED
      BY <2>1, <3>1, RowField, Join, Zenon
  <2> HIDE DEF more
  <2>5. x \o g[c + 1] = (x \o g[c]) \o more
    <3>1. x \o (g[c] \o more) = (x \o g[c]) \o more
      BY <2>3, <2>4, Join, Zenon
    <3> QED
      BY <2>3, <3>1, Zenon
  <2> QED
    BY <2>1, <2>2, <2>5, Zenon
<1>4. AfterField(x \o g[5], table, row, 5)
  <2> HIDE DEF P
  <2>1. 5 \in Nat /\ 5 \in 0..5
    OBVIOUS
  <2>2. \A c \in 0..5 : c \in P
    BY <1>2, <1>3, <2>1, Upwards, Zenon
  <2> QED
    BY <2>1, <2>2, Zenon DEF P
<1> DEFINE y == x \o g[5]
           fields == SubSeq(row, 1, 4)
           s == Reader(table, fields, row[5], FALSE, TRUE)
<1>5. g[5] \in Seq(Tokens)
  OBVIOUS
<1>6. y \in Seq(Tokens) /\ Good(y) /\ Imported(y) = s
  <2>1. 5 # 0 /\ 5 - 1 = 4
    OBVIOUS
  <2> QED
    BY <1>4, <2>1, Zenon DEF AfterField
<1>7. row \in Seq(Field) /\ Len(row) = 5
  BY RowFields, Zenon
<1>8. Len(fields) = 4 /\ Append(fields, row[5]) = row
  <2>1. 4 \in 0..(Len(row) - 1) /\ 4 + 1 = 5
    BY <1>7
  <2>2. Len(SubSeq(row, 1, 4)) = 4 /\ SubSeq(row, 1, 4 + 1) = Append(SubSeq(row, 1, 4), row[4 + 1])
    BY <1>7, <2>1, PrefixSnoc, Zenon
  <2>3. SubSeq(row, 1, 5) = row
    BY <1>7, SubSeqFull
  <2> QED
    BY <2>1, <2>2, <2>3, Zenon
<1> HIDE DEF fields, y
<1>9. Fits(Imported(y), "newline")
  BY <1>6, <1>8, NewlineFits, Zenon
<1> DEFINE z == Append(y, "newline")
<1>10. z \in Seq(Tokens) /\ Good(z) /\ Imported(z) = ImportStep(Imported(y), "newline")
  <2> HIDE DEF s
  <2> QED
    BY <1>6, <1>9, Feed, StructureTokens, Zenon
<1>11. Imported(z) = Reader(Append(table, row), <<>>, <<>>, FALSE, FALSE)
  <2>1. ImportStep(s, "newline") = Reader(Append(table, Append(fields, row[5])), <<>>, <<>>, FALSE, FALSE)
    BY ReadNewline, Zenon
  <2> QED
    BY <1>6, <1>8, <1>10, <2>1, Zenon
<1>12. x \o ExportRow(row) = z /\ ExportRow(row) \in Seq(Tokens)
  <2> DEFINE nl == <<"newline">>
  <2>1. nl \in Seq(Tokens)
    BY StructureTokens
  <2>2. y \o nl = z
    BY <1>6, StructureTokens
  <2> HIDE DEF nl
  <2> DEFINE u == g[5]
  <2>0. u \in Seq(Tokens)
    BY <1>5, Zenon
  <2> HIDE DEF u
  <2>3. x \o (g[5] \o nl) = (x \o g[5]) \o nl /\ g[5] \o nl \in Seq(Tokens)
    <3>1. x \o (u \o nl) = (x \o u) \o nl
      BY <2>0, <2>1, Join, Zenon
    <3>2. u \o nl \in Seq(Tokens)
      BY <2>0, <2>1, Join, Zenon
    <3> QED
      BY <3>1, <3>2, Zenon DEF u
  <2> HIDE DEF z
  <2> QED
    BY <1>1, <2>2, <2>3, Zenon DEF y, nl
<1> HIDE DEF z
<1> QED
  BY <1>10, <1>11, <1>12, Zenon

\* The text of a table, without a byte order mark.
Text(all) == FlattenSeq([i \in DOMAIN all |-> ExportRow(all[i])])

LEMMA StartReader == ImportStart = Reader(<<>>, <<>>, <<>>, FALSE, FALSE)
  BY DEF ImportStart, Reader

LEMMA EmptyText == <<>> \in Seq(Tokens) /\ Good(<<>>) /\ Imported(<<>>) = ImportStart
<1>1. <<>> \in Seq(Tokens) /\ 1..Len(<<>>) = {}
  OBVIOUS
<1>2. Imported(<<>>) = ImportStart
  BY <1>1, ImportSnoc, Zenon
<1> QED
  BY <1>1, <1>2 DEF Good

LEMMA FeedTable ==
    ASSUME NEW all \in Seq(Row)
    PROVE  /\ Text(all) \in Seq(Tokens) /\ Good(Text(all))
           /\ Imported(Text(all)) = Reader(all, <<>>, <<>>, FALSE, FALSE)
<1> DEFINE n == Len(all)
           parts == [i \in DOMAIN all |-> ExportRow(all[i])]
<1>1. n \in Nat /\ DOMAIN all = 1..n /\ \A i \in 1..n : all[i] \in Row
  OBVIOUS
<1>2. ASSUME NEW row \in Row PROVE ExportRow(row) \in Seq(Tokens)
  <2>1. <<>> \in Seq(Tokens) /\ Good(<<>>) /\ Imported(<<>>) = Reader(<<>>, <<>>, <<>>, FALSE, FALSE)
    BY EmptyText, StartReader, Zenon
  <2> QED
    BY <2>1, FeedRow
<1>3. parts \in [1..n -> Seq(Tokens)] /\ \A i \in 1..n : parts[i] = ExportRow(all[i])
  BY <1>1, <1>2
<1>4. Text(all) = FlattenSeq(parts)
  BY Zenon DEF Text
<1> HIDE DEF parts, n
<1>5. PICK g \in [0..n -> Seq(Tokens)] : Gathers(g, n, parts)
  BY <1>1, <1>3, Parts, Zenon
<1>6. g[0] = <<>> /\ g[n] = Text(all) /\ \A i \in 1..n : g[i] = g[i - 1] \o ExportRow(all[i])
  BY <1>3, <1>4, <1>5, Zenon DEF Gathers
<1> DEFINE P == {k \in 0..n : Good(g[k]) /\ Imported(g[k]) = Reader(SubSeq(all, 1, k), <<>>, <<>>, FALSE, FALSE)}
<1>7. 0 \in P
  <2>1. SubSeq(all, 1, 0) = <<>> /\ 0 \in 0..n
    BY <1>1, SubSeqEmpty
  <2> QED
    BY <1>6, <2>1, EmptyText, StartReader, Zenon
<1>8. \A k \in 0..(n - 1) : k \in P => k + 1 \in P
  <2> SUFFICES ASSUME NEW k \in 0..(n - 1), k \in P PROVE k + 1 \in P
    OBVIOUS
  <2>1. k \in 0..n /\ k + 1 \in 0..n /\ k + 1 \in 1..n /\ (k + 1) - 1 = k
    BY <1>1
  <2>2. g[k] \in Seq(Tokens) /\ Good(g[k]) /\ Imported(g[k]) = Reader(SubSeq(all, 1, k), <<>>, <<>>, FALSE, FALSE)
    BY <2>1
  <2>3. g[k + 1] = g[k] \o ExportRow(all[k + 1]) /\ all[k + 1] \in Row
    BY <1>1, <1>6, <2>1
  <2>4. SubSeq(all, 1, k + 1) = Append(SubSeq(all, 1, k), all[k + 1])
    BY PrefixSnoc DEF n
  <2>5. /\ Good(g[k] \o ExportRow(all[k + 1]))
        /\ Imported(g[k] \o ExportRow(all[k + 1])) = Reader(Append(SubSeq(all, 1, k), all[k + 1]), <<>>, <<>>, FALSE, FALSE)
    BY <2>2, <2>3, FeedRow
  <2> QED
    BY <2>1, <2>3, <2>4, <2>5, Zenon
<1>9. n \in P
  <2> HIDE DEF P
  <2>1. \A k \in 0..n : k \in P
    BY <1>1, <1>7, <1>8, Upwards
  <2> QED
    BY <1>1, <2>1
<1>10. SubSeq(all, 1, n) = all /\ g[n] \in Seq(Tokens)
  <2>1. n \in 0..n
    BY <1>1
  <2> QED
    BY <2>1, SubSeqFull DEF n
<1> QED
  BY <1>6, <1>9, <1>10, Zenon

LEMMA HeaderRow == Header \in Row
<1>1. ASSUME NEW f \in {<<"run_id">>, <<"model_name">>, <<"tokens_per_sec">>, <<"run_success">>}
      PROVE  f \in Seq(PlainTokens)
  <2>1. {"run_id", "model_name", "tokens_per_sec", "run_success"} \subseteq PlainTokens
    BY DEF PlainTokens, Tokens, Written
  <2>2. \A t \in PlainTokens : <<t>> \in Seq(PlainTokens)
    OBVIOUS
  <2> QED
    BY <2>1, <2>2
<1>2. <<"notes">> \in Seq(NoteTokens)
  <2>1. "notes" \in NoteTokens /\ \A t \in NoteTokens : <<t>> \in Seq(NoteTokens)
    BY DEF NoteTokens, Tokens, Written
  <2> QED
    BY <2>1
<1>3. \A c \in 1..5 : Header[c] \in Seq(Alphabet(c))
  <2>1. /\ Header[1] = <<"run_id">> /\ Header[2] = <<"model_name">> /\ Header[3] = <<"tokens_per_sec">>
        /\ Header[4] = <<"run_success">> /\ Header[5] = <<"notes">>
    BY DEF Header
  <2>2. \A c \in 1..4 : Alphabet(c) = PlainTokens
    BY DEF Alphabet, Note
  <2>3. Alphabet(5) = NoteTokens
    BY DEF Alphabet, Note
  <2>4. \A c \in 1..5 : c = 1 \/ c = 2 \/ c = 3 \/ c = 4 \/ c = 5
    OBVIOUS
  <2>5. 1 \in 1..4 /\ 2 \in 1..4 /\ 3 \in 1..4 /\ 4 \in 1..4
    OBVIOUS
  <2> QED
    BY <1>1, <1>2, <2>1, <2>2, <2>3, <2>4, <2>5, Zenon
<1>4. Header \in [1..5 -> Field]
  <2>1. \A c \in 1..5 : Header[c] \in Field
    BY <1>3, AlphabetTokens
  <2>2. Header = [c \in 1..5 |-> Header[c]]
    BY DEF Header
  <2> QED
    BY <2>1, <2>2, Zenon
<1> QED
  BY <1>3, <1>4 DEF Row, Columns

-----------------------------------------------------------------------------
(* What Import-Csv holds in the middle of such a text.                     *)

LEMMA ImportQuote ==
    ASSUME NEW s \in ImportStates, NEW t, t = "quote", NEW r, r = ImportStep(s, t)
    PROVE  /\ r.table = s.table /\ r.fields = s.fields /\ r.quoted = ~s.quoted
           /\ r.current = IF ~s.quoted /\ s.closed THEN Append(s.current, t) ELSE s.current
  BY DEF ImportStates, ImportStep

LEMMA ImportComma ==
    ASSUME NEW s \in ImportStates, NEW t, t = "comma", ~s.quoted, NEW r, r = ImportStep(s, t)
    PROVE  /\ r.table = s.table /\ r.fields = Append(s.fields, s.current)
           /\ r.current = <<>> /\ r.quoted = FALSE
  BY DEF ImportStates, ImportStep

LEMMA ImportNewline ==
    ASSUME NEW s \in ImportStates, NEW t, t = "newline", ~s.quoted, NEW r, r = ImportStep(s, t)
    PROVE  /\ r.table = Append(s.table, Append(s.fields, s.current))
           /\ r.fields = <<>> /\ r.current = <<>> /\ r.quoted = FALSE
  BY DEF ImportStates, ImportStep

LEMMA ImportOther ==
    ASSUME NEW s \in ImportStates, NEW t, t # "bom", t # "quote", s.quoted \/ t \notin {"comma", "newline"},
           NEW r, r = ImportStep(s, t)
    PROVE  /\ r.table = s.table /\ r.fields = s.fields /\ r.quoted = s.quoted
           /\ r.current = Append(s.current, t)
  BY DEF ImportStates, ImportStep

\* The rows that are complete, the fields of the next one, and the field that is being read.
Typed(s) ==
    /\ s.table \in Seq(Row)
    /\ s.fields \in Seq(Field) /\ Len(s.fields) \in 0..4
    /\ \A c \in 1..Len(s.fields) : s.fields[c] \in Seq(PlainTokens)
    /\ s.current \in Seq(Alphabet(Len(s.fields) + 1))

LEMMA AppendedField ==
    \A f \in Seq(Field), c \in Field :
        /\ Append(f, c) \in Seq(Field) /\ Len(Append(f, c)) = Len(f) + 1
        /\ Append(f, c)[Len(f) + 1] = c
        /\ \A i \in 1..Len(f) : Append(f, c)[i] = f[i]
<1> DEFINE Holds(T) == \A y \in Seq(T), t \in T :
                          /\ Append(y, t) \in Seq(T) /\ Len(Append(y, t)) = Len(y) + 1
                          /\ Append(y, t)[Len(y) + 1] = t
                          /\ \A i \in 1..Len(y) : Append(y, t)[i] = y[i]
<1>1. ASSUME NEW T PROVE Holds(T)
  OBVIOUS
<1> HIDE DEF Holds
<1>2. Holds(Field)
  BY <1>1, Zenon
<1> QED
  BY <1>2, Zenon DEF Holds

LEMMA UpToFour == \A n \in 0..4 : (n < 4 /\ n # 4) \/ n = 4
  OBVIOUS

LEMMA RowComplete ==
    ASSUME NEW fields \in Seq(Field), Len(fields) = 4, \A c \in 1..4 : fields[c] \in Seq(PlainTokens),
           NEW current \in Seq(NoteTokens)
    PROVE  Append(fields, current) \in Row
<1> DEFINE row == Append(fields, current)
<1>1. current \in Field
  <2>1. Alphabet(5) = NoteTokens
    BY DEF Alphabet, Note
  <2> QED
    BY <2>1, AlphabetTokens
<1>2. /\ Len(row) = 5 /\ row \in Seq(Field) /\ row[5] = current
      /\ \A c \in 1..4 : row[c] = fields[c]
  <2>1. /\ Append(fields, current) \in Seq(Field) /\ Len(Append(fields, current)) = Len(fields) + 1
        /\ Append(fields, current)[Len(fields) + 1] = current
        /\ \A c \in 1..Len(fields) : Append(fields, current)[c] = fields[c]
    BY <1>1, AppendedField, Zenon
  <2>2. Len(fields) + 1 = 5 /\ 1..Len(fields) = 1..4
    OBVIOUS
  <2> QED
    BY <2>1, <2>2, Zenon
<1> HIDE DEF row
<1>3. row \in [1..5 -> Field]
  <2>1. row \in [1..Len(row) -> Field]
    BY <1>2, LenProperties, Zenon
  <2> QED
    BY <1>2, <2>1, Zenon
<1>4. ASSUME NEW c \in 1..5 PROVE row[c] \in Seq(Alphabet(c))
  <2>1. CASE c = 5
    BY <1>2, <2>1 DEF Alphabet, Note
  <2>2. CASE c # 5
    <3>1. c \in 1..4 /\ Alphabet(c) = PlainTokens
      BY <2>2 DEF Alphabet, Note
    <3> QED
      BY <1>2, <3>1
  <2> QED
    BY <2>1, <2>2
<1> QED
  BY <1>3, <1>4 DEF Row, Columns, row

LEMMA AlphabetIs ==
    ASSUME NEW n \in 0..4
    PROVE  Alphabet(n + 1) = IF n = 4 THEN NoteTokens ELSE PlainTokens
  BY DEF Alphabet, Note

LEMMA TypedStep ==
    ASSUME NEW s \in ImportStates, Typed(s), NEW t, Fits(s, t), NEW r, r = ImportStep(s, t),
           NEW n \in 0..4, n = Len(s.fields)
    PROVE  Typed(r)
<1>1. /\ n \in 0..4 /\ n \in Nat /\ s.table \in Seq(Row) /\ s.fields \in Seq(Field)
      /\ \A c \in 1..n : s.fields[c] \in Seq(PlainTokens)
      /\ s.current \in Seq(Alphabet(n + 1))
  BY DEF Typed
<1>2. Alphabet(n + 1) = IF n = 4 THEN NoteTokens ELSE PlainTokens
  BY <1>1, AlphabetIs
<1>3. /\ t \in Tokens /\ t # "bom"
      /\ n < 4 => t # "newline" /\ (t = "quote" /\ ~s.quoted => ~s.closed)
      /\ n = 4 => IF s.quoted THEN t \in NoteTokens ELSE t \in {"quote", "newline"}
  BY DEF Fits
<1>4. (n < 4 /\ n # 4) \/ n = 4
  BY UpToFour, Zenon
<1>5. CASE t = "quote"
  <2>1. /\ r.table = s.table /\ r.fields = s.fields
        /\ r.current = IF ~s.quoted /\ s.closed THEN Append(s.current, t) ELSE s.current
    BY <1>5, ImportQuote
  <2>2. r.current \in Seq(Alphabet(n + 1))
    <3>1. CASE ~s.quoted /\ s.closed
      <4>1. n = 4 /\ t \in NoteTokens /\ s.current \in Seq(NoteTokens)
        BY <1>1, <1>2, <1>3, <1>4, <1>5, <3>1, StructureTokens
      <4>2. Append(s.current, t) \in Seq(NoteTokens)
        BY <4>1
      <4> QED
        BY <1>2, <2>1, <3>1, <4>1, <4>2
    <3>2. CASE ~(~s.quoted /\ s.closed)
      BY <1>1, <2>1, <3>2
    <3> QED
      BY <3>1, <3>2
  <2> QED
    BY <1>1, <2>1, <2>2 DEF Typed
<1>6. CASE t = "comma" /\ ~s.quoted
  <2>1. /\ r.table = s.table /\ r.fields = Append(s.fields, s.current) /\ r.current = <<>>
    BY <1>6, ImportComma, Zenon
  <2>2. n < 4 /\ s.current \in Seq(PlainTokens)
    BY <1>1, <1>2, <1>3, <1>4, <1>6
  <2>3. PlainTokens \subseteq Tokens
    BY DEF PlainTokens
  <2>4. s.current \in Field
    BY <2>2, <2>3 DEF Field
  <2>5. /\ r.fields \in Seq(Field) /\ Len(r.fields) = n + 1 /\ r.fields[n + 1] = s.current
        /\ \A c \in 1..n : r.fields[c] = s.fields[c]
    <3> DEFINE more == Append(s.fields, s.current)
    <3>0. s.fields \in Seq(Field)
      BY <1>1
    <3>1. /\ more \in Seq(Field) /\ Len(more) = Len(s.fields) + 1 /\ more[Len(s.fields) + 1] = s.current
          /\ \A c \in 1..Len(s.fields) : more[c] = s.fields[c]
      BY <2>4, <3>0, AppendedField, Zenon
    <3>2. r.fields = more
      BY <2>1
    <3> HIDE DEF more
    <3> QED
      BY <3>1, <3>2
  <2>6. Len(r.fields) \in 0..4
    BY <1>1, <2>2, <2>5
  <2>7. ASSUME NEW c \in 1..Len(r.fields) PROVE r.fields[c] \in Seq(PlainTokens)
    <3>1. c \in 1..n \/ c = n + 1
      BY <1>1, <2>5
    <3> QED
      BY <1>1, <2>2, <2>5, <3>1, Zenon
  <2>8. r.current \in Seq(Alphabet(Len(r.fields) + 1))
    BY <2>1
  <2> QED
    BY <1>1, <2>1, <2>5, <2>6, <2>7, <2>8, Zenon DEF Typed
<1>7. CASE t = "newline" /\ ~s.quoted
  <2>1. /\ r.table = Append(s.table, Append(s.fields, s.current)) /\ r.fields = <<>> /\ r.current = <<>>
    BY <1>7, ImportNewline, Zenon
  <2>2. n = 4 /\ s.current \in Seq(NoteTokens)
    BY <1>1, <1>2, <1>3, <1>4, <1>7
  <2>3. Append(s.fields, s.current) \in Row
    BY <1>1, <2>2, RowComplete
  <2>4. r.table \in Seq(Row)
    BY <1>1, <2>1, <2>3, AppendedType, Zenon
  <2>5. /\ r.fields \in Seq(Field) /\ Len(r.fields) \in 0..4 /\ 1..Len(r.fields) = {}
        /\ r.current \in Seq(Alphabet(Len(r.fields) + 1))
    BY <2>1
  <2> QED
    BY <2>4, <2>5 DEF Typed
<1>8. CASE t # "quote" /\ (s.quoted \/ t \notin {"comma", "newline"})
  <2>1. /\ r.table = s.table /\ r.fields = s.fields /\ r.current = Append(s.current, t)
    BY <1>3, <1>8, ImportOther, Zenon
  <2>2. t \in Alphabet(n + 1)
    <3>1. CASE n < 4 /\ n # 4
      <4>1. t \in PlainTokens
        BY <1>3, <1>8, <3>1 DEF PlainTokens
      <4>2. n # 4
        BY <3>1
      <4> QED
        BY <1>2, <4>1, <4>2, Zenon
    <3>2. CASE n = 4
      BY <1>2, <1>3, <1>8, <3>2
    <3> QED
      BY <1>4, <3>1, <3>2
  <2>3. r.current \in Seq(Alphabet(n + 1))
    BY <1>1, <2>1, <2>2, AppendedType, Zenon
  <2> QED
    BY <1>1, <2>1, <2>3 DEF Typed
<1> QED
  BY <1>5, <1>6, <1>7, <1>8

LEMMA TypedHolds ==
    ASSUME NEW x \in Seq(Tokens), Good(x)
    PROVE  Typed(Imported(x)) /\ Imported(x) \in ImportStates
<1> DEFINE P == {y \in Seq(Tokens) : Good(y) => Typed(Imported(y))}
<1>1. <<>> \in P
  <2>1. /\ ImportStart.table \in Seq(Row) /\ ImportStart.fields \in Seq(Field)
        /\ Len(ImportStart.fields) \in 0..4 /\ 1..Len(ImportStart.fields) = {}
        /\ ImportStart.current \in Seq(Alphabet(Len(ImportStart.fields) + 1))
    BY DEF ImportStart
  <2>2. Typed(ImportStart)
    BY <2>1 DEF Typed
  <2> QED
    BY <2>2, EmptyText
<1>2. ASSUME NEW y \in Seq(Tokens), y \in P, NEW t \in Tokens PROVE Append(y, t) \in P
  <2>1. Append(y, t) \in Seq(Tokens)
    BY AppendedType, Zenon
  <2>2. ASSUME Good(Append(y, t)) PROVE Typed(Imported(Append(y, t)))
    <3>1. Good(y) /\ Fits(Imported(y), t)
      BY <2>2, GoodSnoc
    <3>2. Imported(y) \in ImportStates /\ Typed(Imported(y))
      BY <1>2, <3>1, ImportedType
    <3>3. Imported(Append(y, t)) = ImportStep(Imported(y), t)
      BY ImportedSnoc
    <3>4. PICK n \in 0..4 : n = Len(Imported(y).fields)
      BY <3>2 DEF Typed
    <3> QED
      BY <3>1, <3>2, <3>3, <3>4, TypedStep, Zenon
  <2> QED
    BY <2>1, <2>2
<1>3. Seq(Tokens) \subseteq P
  <2> HIDE DEF P
  <2> QED
    BY <1>1, <1>2, TextInduction
<1> QED
  BY <1>3, ImportedType

-----------------------------------------------------------------------------
(* The lines of such a text, as llmos splits them, beside its rows.        *)

\* What llmos and Import-Csv hold of the fields of a row, and of a row that is not complete.
Alike(f, g) == Len(f) = Len(g) /\ \A c \in 1..Len(g) : f[c] = Read(g[c])
AlikeSoFar(f, g, current) == /\ Len(f) = Len(g) + 1 /\ f[Len(g) + 1] = Read(current)
                             /\ \A c \in 1..Len(g) : f[c] = Read(g[c])

LEMMA AlikeComplete ==
    ASSUME NEW f, NEW g \in Seq(Field), NEW current \in Field, AlikeSoFar(f, g, current)
    PROVE  Alike(f, Append(g, current))
<1> DEFINE row == Append(g, current)
<1>1. /\ row \in Seq(Field) /\ Len(row) = Len(g) + 1 /\ row[Len(g) + 1] = current
      /\ \A i \in 1..Len(g) : row[i] = g[i]
  BY AppendedField, Zenon
<1> HIDE DEF row
<1>2. Len(g) \in Nat
  OBVIOUS
<1>3. ASSUME NEW c \in 1..Len(row) PROVE f[c] = Read(row[c])
  <2>1. c \in 1..Len(g) \/ c = Len(g) + 1
    BY <1>1, <1>2
  <2> QED
    BY <1>1, <2>1, Zenon DEF AlikeSoFar
<1>4. Len(f) = Len(row)
  BY <1>1 DEF AlikeSoFar
<1> QED
  BY <1>3, <1>4, Zenon DEF Alike, row

LEMMA SplitQuote ==
    ASSUME NEW p \in SplitStates(Tokens), NEW t \in Tokens, t = "quote", NEW r, r = SplitStep(p, t)
    PROVE  r.fields = p.fields /\ r.in_quotes = ~p.in_quotes
  BY DEF SplitStates, SplitStep

LEMMA SplitComma ==
    ASSUME NEW p \in SplitStates(Tokens), NEW t \in Tokens, t = "comma", ~p.in_quotes, NEW r, r = SplitStep(p, t)
    PROVE  r.fields = Append(p.fields, <<>>) /\ r.in_quotes = FALSE
  BY DEF SplitStates, SplitStep

LEMMA SplitOther ==
    ASSUME NEW p \in SplitStates(Tokens), NEW t \in Tokens, t # "quote", t # "comma" \/ p.in_quotes,
           NEW r, r = SplitStep(p, t)
    PROVE  /\ r.fields = [p.fields EXCEPT ![Len(p.fields)] = Append(@, t)]
           /\ r.in_quotes = p.in_quotes
  BY DEF SplitStates, SplitStep

LEMMA AlikeComma ==
    ASSUME NEW f \in Seq(Seq(Tokens)), NEW g \in Seq(Field), NEW current \in Field,
           AlikeSoFar(f, g, current)
    PROVE  AlikeSoFar(Append(f, <<>>), Append(g, current), <<>>)
<1> DEFINE row == Append(g, current)
           more == Append(f, <<>>)
<1>1. /\ Len(row) = Len(g) + 1 /\ Alike(f, row)
  BY AppendedField, AlikeComplete, Zenon
<1>2. /\ Len(more) = Len(f) + 1 /\ more[Len(f) + 1] = <<>> /\ \A i \in 1..Len(f) : more[i] = f[i]
  OBVIOUS
<1> HIDE DEF row, more
<1> QED
  BY <1>1, <1>2, ReadNone, Zenon DEF Alike, AlikeSoFar, row, more

LEMMA AlikeSame ==
    ASSUME NEW f, NEW g, NEW current, NEW more, Read(more) = Read(current), AlikeSoFar(f, g, current)
    PROVE  AlikeSoFar(f, g, more)
  BY Zenon DEF AlikeSoFar

LEMMA AlikeToken ==
    ASSUME NEW f \in Seq(Seq(Tokens)), NEW g \in Seq(Field), NEW current \in Field, NEW t \in Tokens,
           t # "quote", t # "newline", OneLine(current), AlikeSoFar(f, g, current)
    PROVE  AlikeSoFar([f EXCEPT ![Len(f)] = Append(@, t)], g, Append(current, t))
<1> DEFINE n == Len(g)
           more == [f EXCEPT ![Len(f)] = Append(@, t)]
<1>1. n \in Nat /\ Len(f) = n + 1 /\ f[n + 1] = Read(current) /\ \A c \in 1..n : f[c] = Read(g[c])
  BY DEF AlikeSoFar
<1> HIDE DEF n
<1>2. Len(more) = n + 1 /\ more[n + 1] = Append(f[n + 1], t) /\ \A c \in 1..n : more[c] = f[c]
  BY <1>1
<1>3. Read(Append(current, t)) = Append(Read(current), t)
  <2>1. current \in Seq(Tokens)
    BY DEF Field
  <2> QED
    BY <2>1, ReadMore, Zenon
<1> HIDE DEF more
<1> QED
  BY <1>1, <1>2, <1>3, Zenon DEF AlikeSoFar, n, more

\* llmos in the middle of a line is where Import-Csv is in the middle of a row.
Follows(p, s) == /\ p.in_quotes = s.quoted /\ OneLine(s.current)
                 /\ AlikeSoFar(p.fields, s.fields, s.current)

\* A token within a line takes both the same way.
LEMMA SplitFollows ==
    ASSUME NEW p \in SplitStates(Tokens), NEW s \in ImportStates, Follows(p, s),
           NEW t \in Tokens, t # "bom", t # "newline"
    PROVE  Follows(SplitStep(p, t), ImportStep(s, t))
<1> DEFINE r == ImportStep(s, t)
           q == SplitStep(p, t)
<1>1. /\ s.fields \in Seq(Field) /\ s.current \in Field /\ s.quoted \in BOOLEAN
      /\ p.fields \in Seq(Seq(Tokens)) /\ p.in_quotes \in BOOLEAN
  BY DEF ImportStates, SplitStates
<1>2. /\ p.in_quotes = s.quoted /\ OneLine(s.current)
      /\ AlikeSoFar(p.fields, s.fields, s.current)
  BY DEF Follows
<1>6. s.current \in Seq(Tokens) /\ OneLine(Append(s.current, t))
  <2>1. s.current \in Seq(Tokens)
    BY <1>1 DEF Field
  <2> QED
    BY <1>2, <2>1, FirstMore, Zenon
<1>3. CASE t = "quote"
  <2>1. /\ r.fields = s.fields /\ r.quoted = ~s.quoted
        /\ r.current = s.current \/ r.current = Append(s.current, t)
    <3>1. /\ r.table = s.table /\ r.fields = s.fields /\ r.quoted = ~s.quoted
          /\ r.current = IF ~s.quoted /\ s.closed THEN Append(s.current, t) ELSE s.current
      BY <1>3, ImportQuote
    <3> HIDE DEF r, q
    <3> QED
      BY <3>1
  <2>2. q.fields = p.fields /\ q.in_quotes = ~p.in_quotes
    BY <1>3, SplitQuote
  <2>3. Read(r.current) = Read(s.current) /\ OneLine(r.current)
    <3>1. Read(Append(s.current, t)) = Read(s.current)
      BY <1>3, <1>6, ReadMore, Zenon
    <3> QED
      BY <1>2, <1>6, <2>1, <3>1, Zenon
  <2> HIDE DEF r, q
  <2>4. AlikeSoFar(q.fields, r.fields, r.current)
    BY <1>2, <2>1, <2>2, <2>3, AlikeSame, Zenon
  <2> QED
    BY <1>2, <2>1, <2>2, <2>3, <2>4, Zenon DEF Follows, r, q
<1>4. CASE t = "comma" /\ ~s.quoted
  <2>1. r.fields = Append(s.fields, s.current) /\ r.current = <<>> /\ r.quoted = FALSE
    BY <1>4, ImportComma
  <2>2. q.fields = Append(p.fields, <<>>) /\ q.in_quotes = FALSE
    BY <1>2, <1>4, SplitComma
  <2> HIDE DEF r, q
  <2>3. AlikeSoFar(q.fields, r.fields, r.current)
    BY <1>1, <1>2, <2>1, <2>2, AlikeComma, Zenon
  <2> QED
    BY <2>1, <2>2, <2>3, ReadNone, Zenon DEF Follows, r, q
<1>5. CASE t # "quote" /\ (t # "comma" \/ s.quoted)
  <2>1. r.fields = s.fields /\ r.quoted = s.quoted /\ r.current = Append(s.current, t)
    BY <1>5, ImportOther
  <2>2. /\ q.fields = [p.fields EXCEPT ![Len(p.fields)] = Append(@, t)]
        /\ q.in_quotes = p.in_quotes
    BY <1>2, <1>5, SplitOther, Zenon
  <2> HIDE DEF r, q
  <2>3. AlikeSoFar(q.fields, r.fields, r.current)
    <3>1. t # "quote" /\ t # "newline"
      BY <1>5
    <3>2. AlikeSoFar([p.fields EXCEPT ![Len(p.fields)] = Append(@, t)], s.fields, Append(s.current, t))
      BY <1>1, <1>2, <3>1, AlikeToken
    <3> QED
      BY <2>1, <2>2, <3>2
  <2> QED
    BY <1>2, <1>6, <2>1, <2>2, <2>3, Zenon DEF Follows, r, q
<1> QED
  BY <1>3, <1>4, <1>5

LEMMA SplitEmpty == SplitState(<<>>) = [fields |-> <<<<>>>>, in_quotes |-> FALSE]
<1>1. <<>> \in Seq(Tokens)
  OBVIOUS
<1> QED
  BY <1>1, SplitSnoc, Zenon DEF SplitStart

LEMMA NotEmpty == \A f : Len(f) = 4 => f # <<>>
<1>1. Len(<<>>) # 4
  OBVIOUS
<1> QED
  BY <1>1, Zenon

LEMMA AlikeNone == AlikeSoFar(<<<<>>>>, <<>>, <<>>)
<1>1. Len(<<<<>>>>) = Len(<<>>) + 1 /\ <<<<>>>>[Len(<<>>) + 1] = <<>> /\ 1..Len(<<>>) = {}
  OBVIOUS
<1> QED
  BY <1>1, ReadNone DEF AlikeSoFar

\* Where llmos is when Import-Csv is in s and R are the lines so far that begin outside a
\* note: at the row that Import-Csv is at, the j-th, after the same rows; or, inside a note
\* that goes on in further lines, still at the line that the row began with.
LiveAt(R, s, inside, j) ==
    /\ j = Len(s.table) + 1 /\ j = Len(R)
    /\ \A i \in 1..(j - 1) : R[i] # <<>> /\ Alike(SplitState(R[i]).fields, s.table[i])
    /\ AlikeSoFar(SplitState(R[j]).fields, s.fields, s.current)
    /\ R[j] = <<>> => s.fields = <<>> /\ s.current = <<>>
    /\ ~inside => SplitState(R[j]).in_quotes = s.quoted /\ OneLine(s.current)
    /\ inside => Len(s.fields) = 4 /\ ~OneLine(s.current)

Live(R, s, inside) == \E j \in Nat \ {0} : LiveAt(R, s, inside, j)

LEMMA SameTable ==
    ASSUME NEW s \in ImportStates, NEW t, t # "bom", t # "newline" \/ s.quoted
    PROVE  ImportStep(s, t).table = s.table
  BY DEF ImportStates, ImportStep

LEMMA LiveInLine ==
    ASSUME NEW R \in LineStates(Tokens), NEW s \in ImportStates, NEW j \in Nat \ {0}, LiveAt(R, s, FALSE, j),
           NEW t \in Tokens, t # "bom", t # "newline"
    PROVE  LiveAt(LineStep(R, t), ImportStep(s, t), FALSE, j)
<1> DEFINE r == ImportStep(s, t)
           K == LineStep(R, t)
           p == SplitState(R[j])
<1>0. Len(R) = j
  BY Zenon DEF LiveAt
<1>1. /\ Len(K) = j /\ K[j] = Append(R[j], t)
      /\ \A k \in 1..j : k # j => K[k] = R[k]
  BY <1>0, LineCases
<1>2. j \in 1..j /\ R[j] \in Seq(Tokens)
  BY <1>0, LineType
<1>3. p \in SplitStates(Tokens) /\ SplitState(K[j]) = SplitStep(p, t)
  BY <1>1, <1>2, SplitSnoc, Zenon
<1>4. Follows(p, s)
  BY Zenon DEF LiveAt, Follows
<1>5. Follows(SplitState(K[j]), r)
  BY <1>3, <1>4, SplitFollows, Zenon
<1>6. r.table = s.table
  BY SameTable, Zenon
<1>7. K[j] # <<>>
  BY <1>1, <1>2, OneMore
<1> HIDE DEF r, K, p
<1>8. j = Len(r.table) + 1 /\ j = Len(K)
  BY <1>1, <1>6 DEF LiveAt
<1>9. \A i \in 1..(j - 1) : K[i] # <<>> /\ Alike(SplitState(K[i]).fields, r.table[i])
  <2> SUFFICES ASSUME NEW i \in 1..(j - 1) PROVE K[i] # <<>> /\ Alike(SplitState(K[i]).fields, r.table[i])
    OBVIOUS
  <2>1. i \in 1..j /\ i # j
    OBVIOUS
  <2> QED
    BY <1>1, <1>6, <2>1, Zenon DEF LiveAt
<1> QED
  BY <1>5, <1>7, <1>8, <1>9, Zenon DEF LiveAt, Follows, r, K

LEMMA LiveNewRow ==
    ASSUME NEW R \in LineStates(Tokens), NEW s \in ImportStates, NEW j \in Nat \ {0}, NEW inside,
           LiveAt(R, s, inside, j), ~s.quoted, Len(s.fields) = 4
    PROVE  LiveAt(LineStep(R, "newline"), ImportStep(s, "newline"), FALSE, j + 1)
<1> DEFINE r == ImportStep(s, "newline")
           K == LineStep(R, "newline")
           row == Append(s.fields, s.current)
<1>0. Len(R) = j
  BY Zenon DEF LiveAt
<1>1. /\ Len(K) = j + 1 /\ K[j + 1] = <<>> /\ \A k \in 1..j : K[k] = R[k]
  BY <1>0, LineCases, StructureTokens
<1>2. /\ r.table = Append(s.table, row) /\ r.fields = <<>> /\ r.current = <<>> /\ r.quoted = FALSE
  BY ImportNewline, Zenon
<1>3. s.fields \in Seq(Field) /\ s.current \in Field /\ s.table \in Seq(Seq(Field))
  BY DEF ImportStates
<1>4. Alike(SplitState(R[j]).fields, row) /\ row \in Seq(Field)
  BY <1>3, AlikeComplete, AppendedField, Zenon DEF LiveAt
<1>5. R[j] # <<>>
  <2>1. s.fields # <<>>
    BY NotEmpty, Zenon
  <2> QED
    BY <2>1, Zenon DEF LiveAt
<1> HIDE DEF row
<1>6. /\ Len(r.table) = j /\ r.table[j] = row /\ \A i \in 1..(j - 1) : r.table[i] = s.table[i]
  <2>1. Len(s.table) = j - 1
    BY <1>3 DEF LiveAt
  <2> HIDE DEF r
  <2> QED
    BY <1>2, <1>3, <1>4, <2>1
<1> HIDE DEF r, K
<1>7. j + 1 = Len(r.table) + 1 /\ j + 1 = Len(K)
  BY <1>1, <1>6
<1>8. \A i \in 1..((j + 1) - 1) : K[i] # <<>> /\ Alike(SplitState(K[i]).fields, r.table[i])
  <2> SUFFICES ASSUME NEW i \in 1..((j + 1) - 1) PROVE K[i] # <<>> /\ Alike(SplitState(K[i]).fields, r.table[i])
    OBVIOUS
  <2>1. i \in 1..j /\ (i = j \/ i \in 1..(j - 1))
    OBVIOUS
  <2> QED
    BY <1>1, <1>4, <1>5, <1>6, <2>1, Zenon DEF LiveAt
<1>9. AlikeSoFar(SplitState(K[j + 1]).fields, r.fields, r.current) /\ SplitState(K[j + 1]).in_quotes = FALSE
  <2>1. /\ SplitState(K[j + 1]).fields = <<<<>>>> /\ SplitState(K[j + 1]).in_quotes = FALSE
    BY <1>1, SplitEmpty
  <2> QED
    BY <1>2, <2>1, AlikeNone, Zenon
<1> QED
  BY <1>1, <1>2, <1>7, <1>8, <1>9, ReadNone, Zenon DEF LiveAt, r, K

\* A token of a note that adds nothing to the line that its row began with.
LEMMA LiveInNote ==
    ASSUME NEW R, NEW s \in ImportStates, NEW j \in Nat \ {0}, NEW inside,
           LiveAt(R, s, inside, j), Len(s.fields) = 4,
           NEW t \in Tokens, t # "bom", s.quoted \/ t = "quote", inside \/ t = "newline"
    PROVE  LiveAt(R, ImportStep(s, t), TRUE, j)
<1> DEFINE r == ImportStep(s, t)
<1>1. s.current \in Seq(Tokens)
  BY DEF ImportStates, Field
<1>2. /\ r.table = s.table /\ r.fields = s.fields
      /\ r.current = Append(s.current, t) \/ (inside /\ r.current = s.current)
  <2>1. CASE t = "quote"
    <3>1. inside
      BY <2>1
    <3>2. r.table = s.table /\ r.fields = s.fields /\ r.current \in {s.current, Append(s.current, t)}
      <4>1. /\ r.table = s.table /\ r.fields = s.fields
            /\ r.current = IF ~s.quoted /\ s.closed THEN Append(s.current, t) ELSE s.current
        BY <2>1, ImportQuote
      <4> HIDE DEF r
      <4> QED
        BY <4>1
    <3> QED
      BY <3>1, <3>2, Zenon
  <2>2. CASE t # "quote"
    <3>1. s.quoted
      BY <2>2
    <3> QED
      BY <2>2, <3>1, ImportOther, Zenon
  <2> QED
    BY <2>1, <2>2
<1>3. inside => ~OneLine(s.current)
  BY Zenon DEF LiveAt
<1>4. Read(r.current) = Read(s.current) /\ ~OneLine(r.current)
  <2>1. /\ t = "newline" \/ ~OneLine(s.current) => Read(Append(s.current, t)) = Read(s.current)
        /\ OneLine(Append(s.current, t)) <=> OneLine(s.current) /\ t # "newline"
    BY <1>1, FirstMore, ReadMore, Zenon
  <2> HIDE DEF r
  <2> QED
    BY <1>2, <1>3, <2>1
<1> HIDE DEF r
<1>5. AlikeSoFar(SplitState(R[j]).fields, r.fields, r.current)
  <2>1. AlikeSoFar(SplitState(R[j]).fields, s.fields, s.current)
    BY Zenon DEF LiveAt
  <2> QED
    BY <1>2, <1>4, <2>1, AlikeSame, Zenon
<1>6. R[j] # <<>>
  <2>1. s.fields # <<>>
    BY NotEmpty, Zenon
  <2> QED
    BY <2>1, Zenon DEF LiveAt
<1> QED
  BY <1>2, <1>4, <1>5, <1>6, Zenon DEF LiveAt, r

\* A token after which the text is in a line that begins within a note.
Within(s, inside, t) == IF t = "newline" THEN s.quoted ELSE inside

LEMMA LiveStep ==
    ASSUME NEW R \in LineStates(Tokens), NEW s \in ImportStates, NEW inside \in BOOLEAN, Live(R, s, inside),
           NEW t \in Tokens, Fits(s, t)
    PROVE  Live(IF Within(s, inside, t) THEN R ELSE LineStep(R, t), ImportStep(s, t), Within(s, inside, t))
<1>1. PICK j \in Nat \ {0} : LiveAt(R, s, inside, j)
  BY Zenon DEF Live
<1>2. j + 1 \in Nat \ {0} /\ t # "bom" /\ s.quoted \in BOOLEAN
  BY DEF Fits, ImportStates
<1>3. t = "newline" => Len(s.fields) = 4
  <2>1. Len(s.fields) \in Nat
    BY DEF ImportStates
  <2>2. \A n \in Nat : n <= 4 => n < 4 \/ n = 4
    OBVIOUS
  <2> QED
    BY <2>1, <2>2, Zenon DEF Fits
<1>4. CASE t # "newline" /\ ~inside
  <2>1. LiveAt(LineStep(R, t), ImportStep(s, t), FALSE, j)
    BY <1>1, <1>2, <1>4, LiveInLine, Zenon
  <2>2. Within(s, inside, t) = FALSE
    BY <1>4 DEF Within
  <2> QED
    BY <2>1, <2>2, Zenon DEF Live
<1>5. CASE t # "newline" /\ inside
  <2>1. Len(s.fields) = 4
    BY <1>1, <1>5, Zenon DEF LiveAt
  <2>2. s.quoted \/ t = "quote"
    BY <1>5, <2>1 DEF Fits
  <2>3. LiveAt(R, ImportStep(s, t), TRUE, j)
    BY <1>1, <1>2, <1>5, <2>1, <2>2, LiveInNote, Zenon
  <2>4. Within(s, inside, t) = TRUE
    BY <1>5 DEF Within
  <2> QED
    BY <2>3, <2>4, Zenon DEF Live
<1>6. CASE t = "newline" /\ s.quoted
  <2>1. LiveAt(R, ImportStep(s, t), TRUE, j)
    BY <1>1, <1>2, <1>3, <1>6, LiveInNote, Zenon
  <2>2. Within(s, inside, t) = TRUE
    BY <1>2, <1>6 DEF Within
  <2> QED
    BY <2>1, <2>2, Zenon DEF Live
<1>7. CASE t = "newline" /\ ~s.quoted
  <2>1. LiveAt(LineStep(R, t), ImportStep(s, t), FALSE, j + 1)
    BY <1>1, <1>2, <1>3, <1>7, LiveNewRow, Zenon
  <2>2. Within(s, inside, t) = FALSE
    BY <1>2, <1>7 DEF Within
  <2> QED
    BY <1>2, <2>1, <2>2, Zenon DEF Live
<1> QED
  BY <1>4, <1>5, <1>6, <1>7

\* The text up to a token does not change when more is read.
LEMMA PrefixOfMore ==
    ASSUME NEW y \in Seq(Tokens), NEW t \in Tokens
    PROVE  /\ \A i \in DOMAIN y : /\ i \in DOMAIN Append(y, t) /\ Append(y, t)[i] = y[i]
                                  /\ SubSeq(Append(y, t), 1, i) = SubSeq(y, 1, i)
           /\ LET n == Len(y) + 1
              IN  n \in DOMAIN Append(y, t) /\ Append(y, t)[n] = t /\ SubSeq(Append(y, t), 1, n) = Append(y, t)
<1> DEFINE z == Append(y, t)
           n == Len(y) + 1
<1>1. /\ z \in Seq(Tokens) /\ Len(z) = n /\ z[n] = t /\ n \in Nat \ {0} /\ n \in DOMAIN z
      /\ DOMAIN y = 1..Len(y) /\ DOMAIN z = 1..Len(z) /\ \A i \in 1..Len(y) : z[i] = y[i]
  BY OneMore
<1>2. SubSeq(z, 1, n) = z
  BY <1>1, SubSeqFull, Zenon
<1>3. ASSUME NEW i \in 1..Len(y) PROVE i \in 1..Len(z) /\ SubSeq(z, 1, i) = SubSeq(y, 1, i)
  <2>1. i \in 1..Len(z) /\ i \in Nat /\ \A j \in 1..i : j \in 1..Len(y)
    BY <1>1
  <2>2. SubSeq(z, 1, i) = [j \in 1..i |-> z[j]] /\ SubSeq(y, 1, i) = [j \in 1..i |-> y[j]]
    <3> HIDE DEF z
    <3> QED
      BY <1>1, <2>1
  <2>3. [j \in 1..i |-> z[j]] = [j \in 1..i |-> y[j]]
    BY <1>1, <2>1, Zenon
  <2> QED
    BY <2>1, <2>2, <2>3, Zenon
<1> HIDE DEF z
<1> QED
  BY <1>1, <1>2, <1>3, Zenon DEF z

LEMMA NoteLinesSnoc ==
    ASSUME NEW y \in Seq(Tokens), NEW t \in Tokens
    PROVE  NoteLines(Append(y, t)) = NoteLines(y) \cup (IF t = "newline" /\ Imported(y).quoted
                                                        THEN {Len(Lines(y)) + 1} ELSE {})
<1> DEFINE z == Append(y, t)
           n == Len(y) + 1
           Breaks(x) == {i \in DOMAIN x : x[i] = "newline" /\ Imported(SubSeq(x, 1, i)).quoted}
<1>1. /\ \A i \in DOMAIN y : i \in DOMAIN z /\ z[i] = y[i] /\ SubSeq(z, 1, i) = SubSeq(y, 1, i)
      /\ n \in DOMAIN z /\ z[n] = t /\ SubSeq(z, 1, n) = z
      /\ \A i \in DOMAIN z : i \in DOMAIN y \/ i = n
  <2>1. DOMAIN z = 1..(Len(y) + 1) /\ DOMAIN y = 1..Len(y) /\ Len(y) \in Nat
    BY OneMore
  <2>2. \A i \in DOMAIN z : i \in DOMAIN y \/ i = n
    <3> HIDE DEF z
    <3> QED
      BY <2>1
  <2> QED
    BY <2>2, PrefixOfMore, Zenon
<1>2. \A x : NoteLines(x) = {Len(Lines(SubSeq(x, 1, i))) : i \in Breaks(x)}
  BY Zenon DEF NoteLines, Imported
<1>3. t = "newline" => Imported(z).quoted = Imported(y).quoted /\ Len(Lines(z)) = Len(Lines(y)) + 1
  <2> SUFFICES ASSUME t = "newline" PROVE Imported(z).quoted = Imported(y).quoted /\ Len(Lines(z)) = Len(Lines(y)) + 1
    OBVIOUS
  <2>1. Imported(z) = ImportStep(Imported(y), t) /\ Imported(y) \in ImportStates
    BY ImportedSnoc, ImportedType, Zenon
  <2>2. ImportStep(Imported(y), t).quoted = Imported(y).quoted
    <3> DEFINE s == Imported(y)
    <3>1. s \in ImportStates
      BY <2>1
    <3> HIDE DEF s
    <3>2. ImportStep(s, "newline").quoted = s.quoted
      BY <3>1 DEF ImportStates, ImportStep
    <3> QED
      BY <3>2 DEF s
  <2>3. Lines(z) = LineStep(Lines(y), t) /\ Lines(y) \in LineStates(Tokens)
    BY LineSnoc, Zenon
  <2>4. Len(LineStep(Lines(y), t)) = Len(Lines(y)) + 1
    BY <2>3, LineCases
  <2> QED
    BY <2>1, <2>2, <2>3, <2>4, Zenon
<1> HIDE DEF z, n
<1>4. \A i : i \in Breaks(z) <=> i \in Breaks(y) \/ (i = n /\ t = "newline" /\ Imported(y).quoted)
  <2>1. ASSUME NEW i \in DOMAIN y PROVE i \in Breaks(z) <=> i \in Breaks(y)
    BY <1>1, Zenon
  <2>2. n \in Breaks(z) <=> t = "newline" /\ Imported(y).quoted
    BY <1>1, <1>3, Zenon
  <2>3. \A i : (i \in Breaks(z) => i \in DOMAIN z) /\ (i \in Breaks(y) => i \in DOMAIN y)
    BY Zenon
  <2> HIDE DEF Breaks
  <2> QED
    BY <1>1, <2>1, <2>2, <2>3, Zenon
<1>5. \A i \in Breaks(y) : SubSeq(z, 1, i) = SubSeq(y, 1, i)
  BY <1>1, Zenon
<1> HIDE DEF Breaks
<1>6. CASE t = "newline" /\ Imported(y).quoted
  <2>1. \A i : i \in Breaks(z) <=> i \in Breaks(y) \/ i = n
    BY <1>4, <1>6, Zenon
  <2>2. Len(Lines(SubSeq(z, 1, n))) = Len(Lines(y)) + 1
    BY <1>1, <1>3, <1>6, Zenon
  <2>3. NoteLines(z) = NoteLines(y) \cup {Len(Lines(y)) + 1}
    BY <1>2, <1>5, <2>1, <2>2, Zenon
  <2> QED
    BY <1>6, <2>3, Zenon DEF z
<1>7. CASE ~(t = "newline" /\ Imported(y).quoted)
  <2>1. \A i : i \in Breaks(z) <=> i \in Breaks(y)
    BY <1>4, <1>7, Zenon
  <2>2. NoteLines(z) = NoteLines(y)
    BY <1>2, <1>5, <2>1, Zenon
  <2>3. NoteLines(y) \cup {} = NoteLines(y)
    OBVIOUS
  <2> QED
    BY <1>7, <2>2, <2>3, Zenon DEF z
<1> QED
  BY <1>6, <1>7

LEMMA NoNoteLines == NoteLines(<<>>) = {}
<1>1. DOMAIN <<>> = {}
  OBVIOUS
<1> QED
  BY <1>1, Zenon DEF NoteLines

\* The lines that begin outside a note; and whether the text ends in one that does not.
Outside(L, N) == At(L, DOMAIN L \ N)
RowLines(x) == Outside(Lines(x), NoteLines(x))
Inside(x) == IF Len(Lines(x)) \in NoteLines(x) THEN TRUE ELSE FALSE

LEMMA LastLine ==
    ASSUME NEW T, NEW L \in LineStates(T)
    PROVE  \E q \in Seq(Seq(T)), l \in Seq(T) : L = Append(q, l)
<1> DEFINE k == Len(L) - 1
<1>1. L \in Seq(Seq(T)) /\ k \in 0..(Len(L) - 1) /\ k + 1 = Len(L)
  BY DEF LineStates
<1> HIDE DEF k
<1>2. /\ SubSeq(L, 1, k) \in Seq(Seq(T)) /\ L[k + 1] \in Seq(T)
      /\ SubSeq(L, 1, k + 1) = Append(SubSeq(L, 1, k), L[k + 1])
  BY <1>1, PrefixSnoc, Zenon
<1>3. SubSeq(L, 1, Len(L)) = L
  BY <1>1, SubSeqFull, Zenon
<1> QED
  BY <1>1, <1>2, <1>3, Zenon

Replaced(a, l, m, b) == a[Len(a)] = l /\ [a EXCEPT ![Len(a)] = m] = b

LEMMA LastReplaced ==
    ASSUME NEW T, NEW q \in Seq(T), NEW l \in T, NEW m \in T
    PROVE  Replaced(Append(q, l), l, m, Append(q, m))
<1> DEFINE a == Append(q, l)
           e == [a EXCEPT ![Len(a)] = m]
           b == Append(q, m)
<1>1. /\ a \in Seq(T) /\ Len(a) = Len(q) + 1 /\ a[Len(q) + 1] = l /\ Len(q) \in Nat
      /\ DOMAIN a = 1..(Len(q) + 1) /\ \A i \in 1..Len(q) : a[i] = q[i]
  BY OneMore
<1> HIDE DEF a
<1>2. /\ b \in Seq(T) /\ Len(b) = Len(q) + 1 /\ b[Len(q) + 1] = m
      /\ \A i \in 1..Len(q) : b[i] = q[i]
  BY OneMore
<1>3. e \in Seq(T) /\ Len(e) = Len(a)
  BY <1>1, ExceptSeq
<1>4. \A i \in 1..(Len(q) + 1) : e[i] = IF i = Len(a) THEN m ELSE a[i]
  BY <1>1
<1> HIDE DEF e, b
<1>5. \A i \in 1..(Len(q) + 1) : i = Len(q) + 1 \/ (i # Len(q) + 1 /\ i \in 1..Len(q))
  BY <1>1
<1>6. \A i \in 1..Len(e) : e[i] = b[i]
  BY <1>1, <1>2, <1>3, <1>4, <1>5, Zenon
<1>7. e = b
  BY <1>1, <1>2, <1>3, <1>6, SeqEqual
<1> QED
  BY <1>1, <1>7, Zenon DEF Replaced, a, e, b

\* They grow by the same steps as all the lines, but for what is within a note.
NotesWith(L, N, t, quoted) == N \cup (IF t = "newline" /\ quoted THEN {Len(L) + 1} ELSE {})
InNote(L, N, t, quoted) == IF t = "newline" THEN quoted ELSE IF Len(L) \in N THEN TRUE ELSE FALSE
Grows(L, N, K, M, t, within) ==
    /\ Outside(K, M) = IF within THEN Outside(L, N) ELSE LineStep(Outside(L, N), t)
    /\ Len(K) \in M <=> within
    /\ \A k \in M : k \in 2..Len(K)

LEMMA OutsideStep ==
    ASSUME NEW L \in LineStates(Tokens), NEW N, \A k \in N : k \in 2..Len(L), NEW t \in Tokens, NEW quoted \in BOOLEAN
    PROVE  Grows(L, N, LineStep(L, t), NotesWith(L, N, t, quoted), t, InNote(L, N, t, quoted))
<1> DEFINE K == LineStep(L, t)
           M == NotesWith(L, N, t, quoted)
           within == InNote(L, N, t, quoted)
           n == Len(L) + 1
           P == DOMAIN L \ N
           Q == DOMAIN K \ M
<1>1. L \in Seq(Seq(Tokens)) /\ Len(L) \in Nat \ {0} /\ DOMAIN L = 1..Len(L) /\ n \notin N /\ n \in 2..n
      /\ <<>> \in Seq(Tokens)
  BY DEF LineStates
<1>4. M = N \cup (IF t = "newline" /\ quoted THEN {Len(L) + 1} ELSE {})
  BY Zenon DEF NotesWith
<1>5. /\ t = "newline" => (within <=> quoted)
      /\ t # "newline" => (within <=> Len(L) \in N)
  BY Zenon DEF InNote
<1> HIDE DEF M, within
<1>2. CASE t = "newline"
  <2>1. K = Append(L, <<>>)
    BY <1>2 DEF LineStep
  <2>2. Len(K) = n /\ DOMAIN K = 1..n
    BY <1>1, <2>1
  <2>3. At(K, Q) = AtOneMore(L, <<>>, Q)
    <3> HIDE DEF Q
    <3> QED
      BY <1>1, <2>1, AtSnoc, Zenon
  <2> HIDE DEF K
  <2>4. \A i \in DOMAIN L : i \in Q <=> i \in P
    <3>1. \A i \in 1..Len(L) : i \in 1..n /\ i # n
      BY <1>1
    <3>2. \A i \in 1..Len(L) : i \in M <=> i \in N
      BY <1>4, <3>1
    <3> QED
      BY <1>1, <2>2, <3>1, <3>2, Zenon
  <2>5. At(L, Q) = At(L, P)
    <3> HIDE DEF P, Q
    <3> QED
      BY <2>4, AtSame, Zenon
  <2>6. n \in M <=> quoted
    BY <1>1, <1>2, <1>4
  <2>7. n \in Q <=> ~quoted
    BY <1>1, <2>2, <2>6
  <2>8. At(K, Q) = IF within THEN At(L, P) ELSE LineStep(At(L, P), t)
    <3> HIDE DEF P, Q, n
    <3> QED
      BY <1>2, <1>5, <2>3, <2>5, <2>7, Zenon DEF AtOneMore, LineStep, n
  <2>9. \A k \in M : k \in 2..n
    BY <1>1, <1>4
  <2> QED
    BY <1>2, <1>5, <2>2, <2>6, <2>8, <2>9, Zenon DEF Grows, Outside, K, M, within
<1>3. CASE t # "newline"
  <2>1. PICK q \in Seq(Seq(Tokens)), l \in Seq(Tokens) : L = Append(q, l)
    BY LastLine
  <2> DEFINE m == Append(l, t)
  <2>2. m \in Seq(Tokens) /\ Len(L) = Len(q) + 1 /\ L[Len(L)] = l /\ Len(L) \in DOMAIN L
    BY <1>1, <2>1
  <2> HIDE DEF m
  <2>3. K = Append(q, m)
    <3>1. K = [L EXCEPT ![Len(L)] = m]
      <4>1. K = [L EXCEPT ![Len(L)] = Append(@, t)]
        BY <1>3 DEF LineStep
      <4> QED
        BY <2>2, <4>1 DEF m
    <3>2. Replaced(Append(q, l), l, m, Append(q, m))
      BY <2>2, LastReplaced, Zenon
    <3> QED
      BY <2>1, <3>1, <3>2, Zenon DEF Replaced
  <2>4. Len(K) = Len(L) /\ DOMAIN K = DOMAIN L /\ M = N
    BY <1>3, <1>4, <2>1, <2>2, <2>3
  <2> HIDE DEF K
  <2>5. Q = P
    BY <2>4, Zenon
  <2> HIDE DEF P, Q
  <2>6. At(L, P) = AtOneMore(q, l, P) /\ At(K, P) = AtOneMore(q, m, P) /\ At(q, P) \in Seq(Seq(Tokens))
    BY <2>1, <2>2, <2>3, AtSnoc, AtType, Zenon
  <2>7. Len(q) + 1 \in P <=> ~within
    BY <1>3, <1>5, <2>2, Zenon DEF P
  <2>8. CASE within
    <3>1. At(K, P) = At(L, P)
      BY <2>6, <2>7, <2>8, Zenon DEF AtOneMore
    <3> QED
      BY <1>3, <1>5, <2>4, <2>5, <2>8, <3>1, Zenon DEF Grows, Outside, K, P, Q, M, within
  <2>9. CASE ~within
    <3> DEFINE a == At(q, P)
    <3>1. At(L, P) = Append(a, l) /\ At(K, P) = Append(a, m) /\ a \in Seq(Seq(Tokens))
      BY <2>6, <2>7, <2>9, Zenon DEF AtOneMore
    <3> HIDE DEF a
    <3>2. LineStep(Append(a, l), t) = Append(a, m)
      <4> DEFINE al == Append(a, l)
      <4>1. al[Len(al)] = l /\ [al EXCEPT ![Len(al)] = m] = Append(a, m)
        <5>1. Replaced(Append(a, l), l, m, Append(a, m))
          BY <2>2, <3>1, LastReplaced, Zenon
        <5> QED
          BY <5>1, Zenon DEF Replaced
      <4> HIDE DEF al
      <4>2. LineStep(al, t) = [al EXCEPT ![Len(al)] = Append(al[Len(al)], t)]
        BY <1>3 DEF LineStep
      <4>3. LineStep(al, t) = [al EXCEPT ![Len(al)] = m]
        BY <4>1, <4>2, Zenon DEF m
      <4> QED
        BY <4>1, <4>3, Zenon DEF al
    <3> QED
      BY <1>3, <1>5, <2>4, <2>5, <2>9, <3>1, <3>2, Zenon DEF Grows, Outside, K, P, Q, M, within
  <2> QED
    BY <2>8, <2>9
<1> QED
  BY <1>2, <1>3

\* What is true of the two at every point of a text.
LEMMA RowLinesSnoc ==
    ASSUME NEW y \in Seq(Tokens), NEW t \in Tokens, \A k \in NoteLines(y) : k \in 2..Len(Lines(y))
    PROVE  LET z == Append(y, t)
               within == Within(Imported(y), Inside(y), t)
           IN  /\ RowLines(z) = IF within THEN RowLines(y) ELSE LineStep(RowLines(y), t)
               /\ Inside(z) <=> within
               /\ \A k \in NoteLines(z) : k \in 2..Len(Lines(z))
<1> DEFINE L == Lines(y)
           N == NoteLines(y)
           s == Imported(y)
<1>1. L \in LineStates(Tokens) /\ Lines(Append(y, t)) = LineStep(L, t)
  BY LineSnoc, Zenon
<1>2. s.quoted \in BOOLEAN
  <2>1. s \in ImportStates
    BY ImportedType, Zenon
  <2> QED
    BY <2>1 DEF ImportStates
<1>3. NoteLines(Append(y, t)) = NotesWith(L, N, t, s.quoted)
  BY NoteLinesSnoc, Zenon DEF NotesWith
<1>4. Within(s, Inside(y), t) = InNote(L, N, t, s.quoted)
  BY Zenon DEF Within, Inside, InNote
<1>5. Grows(L, N, LineStep(L, t), NotesWith(L, N, t, s.quoted), t, InNote(L, N, t, s.quoted))
  BY <1>1, <1>2, OutsideStep, Zenon
<1> QED
  BY <1>1, <1>3, <1>4, <1>5, Zenon DEF Grows, RowLines, Inside

LEMMA RowLinesType ==
    ASSUME NEW y \in Seq(Tokens), \A k \in NoteLines(y) : k \in 2..Len(Lines(y))
    PROVE  RowLines(y) \in LineStates(Tokens) /\ Inside(y) \in BOOLEAN
<1> DEFINE L == Lines(y)
           P == DOMAIN L \ NoteLines(y)
<1>1. L \in LineStates(Tokens)
  BY LineSnoc, Zenon
<1>2. L \in Seq(Seq(Tokens)) /\ 1 \in 1..Len(L) /\ DOMAIN L = 1..Len(L)
  BY <1>1, LineType DEF LineStates
<1>3. 1 \notin NoteLines(y)
  <2>1. \A n : 1 \notin 2..n
    OBVIOUS
  <2> QED
    BY <2>1, Zenon
<1>4. 1 \in P
  BY <1>2, <1>3, Zenon
<1> HIDE DEF L, P
<1>5. Has(At(L, P), L[1]) /\ At(L, P) \in Seq(Seq(Tokens))
  BY <1>2, <1>4, AtHas, AtType, Zenon
<1>6. At(L, P) # <<>>
  <2>1. DOMAIN <<>> = {}
    OBVIOUS
  <2> QED
    BY <1>5, <2>1, Zenon DEF Has
<1>7. Inside(y) \in BOOLEAN
  BY DEF Inside
<1> QED
  BY <1>5, <1>6, <1>7, Zenon DEF LineStates, RowLines, Outside, L, P

\* At every point of such a text.
Reading(y) == /\ \A k \in NoteLines(y) : k \in 2..Len(Lines(y))
              /\ Good(y) => Live(RowLines(y), Imported(y), Inside(y))

LEMMA ReadingHolds == ASSUME NEW x \in Seq(Tokens) PROVE Reading(x)
<1> DEFINE P == {y \in Seq(Tokens) : Reading(y)}
<1>1. <<>> \in P
  <2> DEFINE s == ImportStart
             L == <<<<>>>>
  <2>0. Lines(<<>>) = L /\ Imported(<<>>) = s /\ <<>> \in Seq(Tokens)
    BY EmptyText, LineSnoc, Zenon
  <2>1. RowLines(<<>>) = L /\ Inside(<<>>) = FALSE
    <3>1. L \in Seq(Seq(Tokens)) /\ \A i \in 1..Len(L) : i \in DOMAIN L
      OBVIOUS
    <3> HIDE DEF L
    <3>2. At(L, DOMAIN L) = L
      BY <3>1, AtAll, Zenon
    <3>3. DOMAIN L \ {} = DOMAIN L
      OBVIOUS
    <3>4. RowLines(<<>>) = L
      BY <2>0, <3>2, <3>3, NoNoteLines, Zenon DEF RowLines, Outside
    <3>5. ~Inside(<<>>) /\ Inside(<<>>) \in BOOLEAN
      BY NoNoteLines, Zenon DEF Inside
    <3> QED
      BY <3>4, <3>5, Zenon
  <2>2. /\ 1 = Len(s.table) + 1 /\ 1 = Len(L) /\ s.fields = <<>> /\ s.current = <<>>
        /\ \A i \in 1..(1 - 1) : FALSE
        /\ L[1] = <<>> /\ s.quoted = FALSE
    BY DEF ImportStart
  <2>3. SplitState(L[1]).fields = <<<<>>>> /\ SplitState(L[1]).in_quotes = FALSE
    BY <2>2, SplitEmpty
  <2> HIDE DEF s, L
  <2>4. LiveAt(L, s, FALSE, 1)
    BY <2>2, <2>3, AlikeNone, ReadNone, Zenon DEF LiveAt
  <2>5. 1 \in Nat \ {0}
    OBVIOUS
  <2> QED
    BY <2>0, <2>1, <2>4, <2>5, NoNoteLines, Zenon DEF Live, Reading
<1>2. ASSUME NEW y \in Seq(Tokens), y \in P, NEW t \in Tokens PROVE Append(y, t) \in P
  <2> DEFINE z == Append(y, t)
             s == Imported(y)
             within == Within(s, Inside(y), t)
  <2>1. z \in Seq(Tokens)
    BY AppendedType, Zenon
  <2>2. \A k \in NoteLines(y) : k \in 2..Len(Lines(y))
    BY <1>2, Zenon DEF Reading
  <2>3. /\ RowLines(z) = IF within THEN RowLines(y) ELSE LineStep(RowLines(y), t)
        /\ Inside(z) <=> within
        /\ \A k \in NoteLines(z) : k \in 2..Len(Lines(z))
    BY <2>2, RowLinesSnoc, Zenon
  <2>4. RowLines(y) \in LineStates(Tokens) /\ Inside(y) \in BOOLEAN /\ Inside(z) \in BOOLEAN
    BY <2>1, <2>2, <2>3, RowLinesType, Zenon
  <2>5. /\ Imported(z) = ImportStep(s, t) /\ s \in ImportStates
        /\ Good(z) => Good(y) /\ Fits(s, t)
    BY ImportedSnoc, ImportedType, GoodSnoc, Zenon
  <2>6. ASSUME Good(z) PROVE Live(RowLines(z), Imported(z), Inside(z))
    <3>1. Live(RowLines(y), s, Inside(y))
      BY <1>2, <2>5, <2>6, Zenon DEF Reading
    <3>2. Live(IF within THEN RowLines(y) ELSE LineStep(RowLines(y), t), ImportStep(s, t), within)
      BY <2>4, <2>5, <2>6, <3>1, LiveStep, Zenon
    <3>3. within \in BOOLEAN
      BY <2>4, <2>5 DEF Within, ImportStates
    <3>4. Inside(z) = within
      BY <2>3, <2>4, <3>3, Zenon
    <3> QED
      BY <2>3, <2>5, <3>2, <3>4, Zenon
  <2> QED
    BY <2>1, <2>3, <2>6, Zenon DEF Reading
<1>3. Seq(Tokens) \subseteq P
  <2> HIDE DEF P
  <2> QED
    BY <1>1, <1>2, TextInduction
<1> QED
  BY <1>3, Zenon

-----------------------------------------------------------------------------
(* The records of the lines that begin outside a note.                     *)

LEMMA SplitIs == \A line : split_csv_row(line) = SplitState(line).fields
  BY Zenon DEF split_csv_row, SplitState, SplitStart

Idx(q) == [k \in DOMAIN q |-> k]
Splits(q) == [i \in DOMAIN q |-> split_csv_row(q[i])]

\* What ReadersAgree looks at: of the records of the lines at P, those of lines not in N.
RecordsOutside(q, P, N) == At(Splits(At(q, P)), {i \in DOMAIN At(q, P) : At(Idx(q), P)[i] \notin N})

LEMMA IdxSnoc == ASSUME NEW T, NEW q \in Seq(T), NEW t \in T
                 PROVE  Idx(q) \in Seq(Nat) /\ Idx(Append(q, t)) = Append(Idx(q), Len(q) + 1)
<1> DEFINE n == Len(q) + 1
           z == Append(q, t)
<1>1. /\ DOMAIN z = 1..n /\ DOMAIN q = 1..Len(q) /\ Len(q) \in Nat /\ n \in Nat
      /\ \A i \in 1..n : i \in 1..Len(q) \/ i = n
  BY OneMore
<1> HIDE DEF z
<1>2. Idx(q) \in Seq(Nat) /\ Len(Idx(q)) = Len(q) /\ \A i \in 1..Len(q) : Idx(q)[i] = i
  BY <1>1 DEF Idx
<1>3. Idx(z) \in Seq(Nat) /\ Len(Idx(z)) = n /\ \A i \in 1..n : Idx(z)[i] = i
  BY <1>1 DEF Idx
<1>4. /\ Append(Idx(q), n) \in Seq(Nat) /\ Len(Append(Idx(q), n)) = n /\ Append(Idx(q), n)[n] = n
      /\ \A i \in 1..Len(q) : Append(Idx(q), n)[i] = i
  BY <1>1, <1>2
<1>5. \A i \in 1..n : Idx(z)[i] = Append(Idx(q), n)[i]
  BY <1>1, <1>3, <1>4
<1>6. Idx(z) = Append(Idx(q), n)
  BY <1>3, <1>4, <1>5, SeqEqual
<1> QED
  BY <1>2, <1>6 DEF z

LEMMA SplitType == ASSUME NEW line \in Seq(Tokens) PROVE split_csv_row(line) \in Seq(Field)
<1>1. SplitState(line) \in SplitStates(Tokens)
  BY SplitSnoc, Zenon
<1> QED
  BY <1>1, SplitIs, Zenon DEF SplitStates, Field

LEMMA SplitsSnoc ==
    ASSUME NEW q \in Seq(Seq(Tokens)), NEW t \in Seq(Tokens)
    PROVE  /\ Splits(q) \in Seq(Seq(Field)) /\ Len(Splits(q)) = Len(q)
           /\ Splits(Append(q, t)) = Append(Splits(q), split_csv_row(t))
<1> DEFINE n == Len(q) + 1
           z == Append(q, t)
           l == split_csv_row(t)
<1>1. /\ DOMAIN z = 1..n /\ DOMAIN q = 1..Len(q) /\ Len(q) \in Nat /\ n \in Nat /\ z[n] = t
      /\ \A i \in 1..Len(q) : z[i] = q[i]
  BY OneMore
<1>2. \A i \in 1..n : i \in 1..Len(q) \/ i = n
  BY <1>1
<1>3. l \in Seq(Field) /\ \A i \in 1..Len(q) : split_csv_row(q[i]) \in Seq(Field)
  <2>1. \A i \in 1..Len(q) : q[i] \in Seq(Tokens)
    OBVIOUS
  <2> QED
    BY <2>1, SplitType, Zenon
<1> HIDE DEF z, l, n
<1>4. /\ Splits(q) \in Seq(Seq(Field)) /\ Len(Splits(q)) = Len(q)
      /\ \A i \in 1..Len(q) : Splits(q)[i] = split_csv_row(q[i])
  <2>1. Splits(q) = [i \in 1..Len(q) |-> split_csv_row(q[i])]
    BY <1>1, Zenon DEF Splits
  <2> QED
    BY <1>1, <1>3, <2>1
<1>5. \A i \in 1..n : split_csv_row(z[i]) \in Seq(Field)
  BY <1>1, <1>2, <1>3, Zenon DEF l
<1>6. /\ Splits(z) \in Seq(Seq(Field)) /\ Len(Splits(z)) = n
      /\ \A i \in 1..n : Splits(z)[i] = split_csv_row(z[i])
  <2>1. Splits(z) = [i \in 1..n |-> split_csv_row(z[i])]
    BY <1>1, Zenon DEF Splits
  <2> QED
    BY <1>1, <1>5, <2>1
<1>7. /\ Append(Splits(q), l) \in Seq(Seq(Field)) /\ Len(Append(Splits(q), l)) = n /\ Append(Splits(q), l)[n] = l
      /\ \A i \in 1..Len(q) : Append(Splits(q), l)[i] = Splits(q)[i]
  BY <1>3, <1>4 DEF n
<1>8. \A i \in 1..n : Splits(z)[i] = Append(Splits(q), l)[i]
  BY <1>1, <1>2, <1>4, <1>6, <1>7, Zenon DEF l
<1>9. Splits(z) = Append(Splits(q), l)
  BY <1>6, <1>7, <1>8, SeqEqual
<1> QED
  BY <1>4, <1>9, Zenon DEF z, l

LEMMA OwnLines ==
    ASSUME NEW q \in Seq(Seq(Tokens)), NEW P, NEW N
    PROVE  RecordsOutside(q, P, N) = Splits(At(q, P \ N))
<1> DEFINE Holds(y) == /\ Len(At(Idx(y), P)) = Len(At(y, P))
                       /\ RecordsOutside(y, P, N) = Splits(At(y, P \ N))
           W == {y \in Seq(Seq(Tokens)) : Holds(y)}
<1>1. <<>> \in W
  <2>1. Idx(<<>>) = <<>> /\ Splits(<<>>) = <<>>
    BY DEF Idx, Splits
  <2>2. At(<<>>, P) = <<>> /\ At(<<>>, P \ N) = <<>>
    BY AtNone, Zenon
  <2>3. Holds(<<>>)
    BY <2>1, <2>2, AtNone, Zenon DEF RecordsOutside
  <2> QED
    BY <2>3, EmptySeq
<1>2. ASSUME NEW y \in Seq(Seq(Tokens)), y \in W, NEW t \in Seq(Tokens) PROVE Append(y, t) \in W
  <2> DEFINE z == Append(y, t)
             n == Len(y) + 1
             a == At(y, P)
             f == At(Idx(y), P)
             X == {i \in DOMAIN a : f[i] \notin N}
             b == At(z, P)
             g == At(Idx(z), P)
             Y == {i \in DOMAIN b : g[i] \notin N}
             o == At(y, P \ N)
  <2>1. z \in Seq(Seq(Tokens)) /\ Idx(y) \in Seq(Nat) /\ Idx(z) = Append(Idx(y), n) /\ Len(Idx(y)) = Len(y) /\ n \in Nat
    <3>1. Len(Idx(y)) = Len(y) /\ n \in Nat
      BY DEF Idx
    <3> QED
      BY <3>1, IdxSnoc, AppendedType, Zenon
  <2>2. Len(f) = Len(a) /\ At(Splits(a), X) = Splits(o)
    BY <1>2, Zenon DEF RecordsOutside
  <2>3. /\ b = IF n \in P THEN Append(a, t) ELSE a
        /\ g = IF n \in P THEN Append(f, n) ELSE f
        /\ At(z, P \ N) = IF n \in P \ N THEN Append(o, t) ELSE o
    <3>1. b = AtOneMore(y, t, P) /\ At(z, P \ N) = AtOneMore(y, t, P \ N)
      BY AtSnoc, Zenon
    <3>2. g = AtOneMore(Idx(y), n, P)
      <4>1. At(Append(Idx(y), n), P) = AtOneMore(Idx(y), n, P)
        BY <2>1, AtSnoc, Zenon
      <4> QED
        BY <2>1, <4>1, Zenon
    <3> QED
      BY <2>1, <3>1, <3>2, Zenon DEF AtOneMore
  <2>4. a \in Seq(Seq(Tokens)) /\ f \in Seq(Nat) /\ o \in Seq(Seq(Tokens))
    BY <2>1, AtType, Zenon
  <2>5. RecordsOutside(z, P, N) = At(Splits(b), Y)
    BY Zenon DEF RecordsOutside
  <2> HIDE DEF z, n, a, f, b, g, o
  <2>6. CASE n \notin P
    <3>1. b = a /\ g = f /\ At(z, P \ N) = o
      BY <2>3, <2>6
    <3>2. Y = X
      BY <3>1, Zenon
    <3>3. Holds(z)
      BY <2>2, <2>5, <3>1, <3>2, Zenon DEF b, g
    <3> QED
      BY <2>1, <3>3, Zenon DEF z
  <2>7. CASE n \in P
    <3>1. b = Append(a, t) /\ g = Append(f, n) /\ At(z, P \ N) = IF n \in N THEN o ELSE Append(o, t)
      BY <2>3, <2>7
    <3>2. /\ DOMAIN b = 1..(Len(a) + 1) /\ DOMAIN a = 1..Len(a) /\ Len(a) \in Nat /\ Len(b) = Len(a) + 1
          /\ Len(g) = Len(a) + 1 /\ g[Len(a) + 1] = n /\ \A i \in 1..Len(a) : g[i] = f[i]
      <4>1. /\ DOMAIN b = 1..(Len(a) + 1) /\ DOMAIN a = 1..Len(a) /\ Len(a) \in Nat /\ Len(b) = Len(a) + 1
        BY <2>4, <3>1
      <4>2. Len(g) = Len(f) + 1 /\ g[Len(f) + 1] = n /\ \A i \in 1..Len(f) : g[i] = f[i]
        BY <2>1, <2>4, <3>1
      <4> QED
        BY <2>2, <4>1, <4>2, Zenon
    <3> DEFINE r == Splits(a)
               l == split_csv_row(t)
    <3>3. r \in Seq(Seq(Field)) /\ Len(r) = Len(a) /\ Splits(b) = Append(r, l) /\ l \in Seq(Field)
      BY <2>4, <3>1, SplitsSnoc, SplitType, Zenon
    <3>4. \A i \in DOMAIN r : i \in Y <=> i \in X
      <4>1. DOMAIN r = 1..Len(a) /\ \A i \in 1..Len(a) : i \in 1..(Len(a) + 1)
        BY <3>2 DEF Splits
      <4> HIDE DEF r
      <4> QED
        BY <3>2, <4>1, Zenon
    <3>5. Len(r) + 1 \in Y <=> n \notin N
      <4>1. Len(a) + 1 \in 1..(Len(a) + 1)
        BY <3>2
      <4> QED
        BY <3>2, <3>3, <4>1, Zenon
    <3> HIDE DEF r, X, Y, l
    <3>6. At(r, Y) = Splits(o)
      <4>1. At(r, Y) = At(r, X)
        BY <3>4, AtSame, Zenon
      <4> QED
        BY <2>2, <4>1, Zenon DEF r
    <3>7. At(Append(r, l), Y) = IF n \in N THEN Splits(o) ELSE Append(Splits(o), l)
      <4>1. At(Append(r, l), Y) = AtOneMore(r, l, Y)
        BY <3>3, AtSnoc, Zenon
      <4> QED
        BY <3>5, <3>6, <4>1, Zenon DEF AtOneMore
    <3>8. Splits(Append(o, t)) = Append(Splits(o), l)
      BY <2>4, SplitsSnoc, Zenon DEF l
    <3>9. RecordsOutside(z, P, N) = Splits(At(z, P \ N))
      BY <2>5, <3>1, <3>3, <3>7, <3>8, Zenon
    <3>10. Holds(z)
      BY <3>2, <3>9, Zenon DEF b, g
    <3> QED
      BY <2>1, <3>10, Zenon DEF z
  <2> QED
    BY <2>6, <2>7
<1>3. Seq(Seq(Tokens)) \subseteq W
  <2>1. \A y \in Seq(Seq(Tokens)) : y \in W => \A t \in Seq(Tokens) : Append(y, t) \in W
    BY <1>2, Zenon
  <2> HIDE DEF W
  <2> QED
    BY <1>1, <2>1, TextInduction, Zenon
<1> QED
  BY <1>3, Zenon

\* Data lines outside notes are those of the lines that are left without the notes.
SameData(q, R, N) == /\ q = <<>> <=> R = <<>>
                     /\ q # <<>> => R[1] = q[1]
                     /\ At(q, DataLines(q) \ N) = At(R, DataLines(R))

LEMMA DataOutside ==
    ASSUME NEW q \in Seq(Seq(Tokens)), NEW N, 1 \notin N
    PROVE  SameData(q, Outside(q, N), N)
<1> DEFINE Holds(y) == SameData(y, Outside(y, N), N)
           W == {y \in Seq(Seq(Tokens)) : Holds(y)}
<1>1. <<>> \in W
  <2>1. Outside(<<>>, N) = <<>>
    BY AtNone, Zenon DEF Outside
  <2>2. Holds(<<>>)
    BY <2>1, AtNone, Zenon DEF SameData
  <2> QED
    BY <2>2, EmptySeq
<1>2. ASSUME NEW y \in Seq(Seq(Tokens)), y \in W, NEW t \in Seq(Tokens) PROVE Append(y, t) \in W
  <2> DEFINE z == Append(y, t)
             n == Len(y) + 1
             R == Outside(y, N)
             K == Outside(z, N)
             D == DataLines(y) \ N
             E == DataLines(z) \ N
  <2>1. /\ z \in Seq(Seq(Tokens)) /\ z # <<>> /\ DOMAIN z = 1..n /\ DOMAIN y = 1..Len(y) /\ Len(y) \in Nat /\ Len(z) = n
        /\ z[n] = t /\ \A i \in 1..Len(y) : z[i] = y[i]
    <3>1. z # <<>>
      BY AppendedNotNone, Zenon
    <3> QED
      BY <3>1, OneMore
  <2>2. (y = <<>> <=> R = <<>>) /\ (y # <<>> => R[1] = y[1])
    BY <1>2, Zenon DEF SameData
  <2>3. At(y, D) = At(R, DataLines(R))
    BY <1>2, Zenon DEF SameData
  <2>4. R \in Seq(Seq(Tokens))
    BY AtType, Zenon DEF Outside
  <2>5. y = <<>> <=> n \notin 2..n
    BY <2>1, EmptySeq
  <2>6. n \in DataLines(z) <=> y # <<>> /\ t # <<>>
    BY <2>1, <2>5, Zenon DEF DataLines
  <2>7. \A i \in DOMAIN y : i \in DataLines(z) <=> i \in DataLines(y)
    <3>1. \A i \in 1..Len(y) : i \in 2..n <=> i \in 2..Len(y)
      BY <2>1
    <3> HIDE DEF z, n
    <3> QED
      BY <2>1, <3>1, Zenon DEF DataLines
  <2> HIDE DEF n
  <2>8. At(z, E) = IF n \in E THEN Append(At(y, D), t) ELSE At(y, D)
    <3>1. At(z, E) = AtOneMore(y, t, E)
      <4> HIDE DEF E
      <4> QED
        BY AtSnoc, Zenon
    <3>2. At(y, E) = At(y, D)
      <4>1. \A i \in DOMAIN y : i \in E <=> i \in D
        BY <2>7, Zenon
      <4> HIDE DEF E, D
      <4> QED
        BY <4>1, AtSame, Zenon
    <3> QED
      BY <3>1, <3>2, Zenon DEF AtOneMore, n
  <2>9. K = IF n \in N THEN R ELSE Append(R, t)
    <3> DEFINE P == DOMAIN y \ N
               Q == DOMAIN z \ N
    <3>1. At(z, Q) = AtOneMore(y, t, Q)
      <4> HIDE DEF Q
      <4> QED
        BY AtSnoc, Zenon
    <3>2. At(y, Q) = At(y, P)
      <4>1. \A i \in DOMAIN y : i \in DOMAIN z
        BY <2>1 DEF n
      <4>2. \A i \in DOMAIN y : i \in Q <=> i \in P
        BY <4>1, Zenon
      <4> HIDE DEF P, Q
      <4> QED
        BY <4>2, AtSame, Zenon
    <3>3. n \in Q <=> n \notin N
      BY <2>1 DEF n
    <3> HIDE DEF P, Q, z
    <3>4. At(z, Q) = IF n \in N THEN At(y, P) ELSE Append(At(y, P), t)
      BY <3>1, <3>2, <3>3, Zenon DEF AtOneMore, n, z
    <3> QED
      BY <3>4, Zenon DEF Outside, P, Q, z
  <2> HIDE DEF R, K, z, E, D
  <2>10. Append(R, t) # <<>> /\ Append(R, t) \in Seq(Seq(Tokens))
    BY <2>4, AppendedType, AppendedNotNone, Zenon
  <2>11. K # <<>>
    <3>1. CASE n \in N
      <4>1. y # <<>>
        <5>1. y = <<>> => n = 1
          BY DEF n
        <5> QED
          BY <3>1, <5>1, Zenon
      <4> QED
        BY <2>2, <2>9, <3>1, <4>1, Zenon
    <3> QED
      BY <2>9, <2>10, <3>1, Zenon
  <2>12. K[1] = z[1]
    <3>1. CASE y # <<>>
      <4>1. 1 \in 1..Len(y) /\ R # <<>>
        BY <2>1, <2>2, <3>1, EmptySeq
      <4>2. Append(R, t)[1] = R[1]
        BY <2>4, <4>1
      <4> QED
        BY <2>1, <2>2, <2>9, <3>1, <4>1, <4>2, Zenon
    <3>2. CASE y = <<>>
      <4>1. n = 1
        BY <3>2 DEF n
      <4>2. R = <<>> /\ K = Append(R, t)
        BY <2>2, <2>9, <3>2, <4>1, Zenon
      <4>3. Append(<<>>, t)[1] = t
        OBVIOUS
      <4> QED
        BY <2>1, <4>1, <4>2, <4>3, Zenon
    <3> QED
      BY <3>1, <3>2
  <2>13. At(z, E) = At(K, DataLines(K))
    <3>1. CASE n \in N
      BY <2>3, <2>8, <2>9, <3>1, Zenon DEF E
    <3>2. CASE n \notin N
      <4>1. K = Append(R, t)
        BY <2>9, <3>2, Zenon
      <4>2. n \in E <=> R # <<>> /\ t # <<>>
        BY <2>2, <2>6, <3>2, Zenon DEF E
      <4> DEFINE m == Len(R) + 1
      <4>3. /\ DOMAIN R = 1..Len(R) /\ Len(R) \in Nat /\ Len(K) = m /\ K[m] = t /\ \A i \in 1..Len(R) : K[i] = R[i]
        BY <2>4, <4>1, OneMore
      <4>4. m \in 2..m <=> R # <<>>
        BY <2>4, EmptySeq
      <4>5. \A i \in 1..Len(R) : i \in 2..m <=> i \in 2..Len(R)
        BY <4>3
      <4> HIDE DEF m
      <4>6. m \in DataLines(K) <=> R # <<>> /\ t # <<>>
        BY <4>3, <4>4, Zenon DEF DataLines
      <4>7. \A i \in DOMAIN R : i \in DataLines(K) <=> i \in DataLines(R)
        BY <4>3, <4>5, Zenon DEF DataLines
      <4>8. At(K, DataLines(K)) = AtOneMore(R, t, DataLines(K))
        BY <2>4, <4>1, AtSnoc, Zenon
      <4>9. At(R, DataLines(K)) = At(R, DataLines(R))
        BY <4>7, AtSame, Zenon
      <4>10. At(K, DataLines(K)) = IF m \in DataLines(K) THEN Append(At(R, DataLines(R)), t) ELSE At(R, DataLines(R))
        BY <4>8, <4>9, Zenon DEF AtOneMore, m
      <4> QED
        BY <2>3, <2>8, <4>2, <4>6, <4>10, Zenon
    <3> QED
      BY <3>1, <3>2
  <2> QED
    BY <2>1, <2>11, <2>12, <2>13, Zenon DEF K, z, E, SameData
<1>3. Seq(Seq(Tokens)) \subseteq W
  <2>1. \A y \in Seq(Seq(Tokens)) : y \in W => \A t \in Seq(Tokens) : Append(y, t) \in W
    BY <1>2, Zenon
  <2> HIDE DEF W
  <2> QED
    BY <1>1, <2>1, TextInduction, Zenon
<1> QED
  BY <1>3, Zenon

\* Whatever is at some of the places was at one of them.
ComesFrom(a, q, P) == \A e \in DOMAIN a : \E k \in DOMAIN q : k \in P /\ a[e] = q[k]

LEMMA AtFrom ==
    ASSUME NEW S, NEW q \in Seq(S), NEW P
    PROVE  ComesFrom(At(q, P), q, P)
<1> DEFINE Holds(y) == \A e \in DOMAIN At(y, P) : \E k \in DOMAIN y : k \in P /\ At(y, P)[e] = y[k]
           W == {y \in Seq(S) : Holds(y)}
<1>1. <<>> \in W
  <2>1. DOMAIN <<>> = {} /\ <<>> \in Seq(S)
    OBVIOUS
  <2> QED
    BY <2>1, AtNone, Zenon
<1>2. ASSUME NEW y \in Seq(S), y \in W, NEW t \in S PROVE Append(y, t) \in W
  <2> DEFINE z == Append(y, t)
             n == Len(y) + 1
             a == At(y, P)
             b == At(z, P)
  <2>1. /\ z \in Seq(S) /\ z[n] = t /\ n \in DOMAIN z
        /\ \A d \in DOMAIN y : d \in DOMAIN z /\ z[d] = y[d]
    OBVIOUS
  <2>2. a \in Seq(S) /\ b = IF n \in P THEN Append(a, t) ELSE a
    <3>1. a \in Seq(S) /\ b = AtOneMore(y, t, P)
      BY AtType, AtSnoc, Zenon
    <3> HIDE DEF b
    <3> QED
      BY <3>1, Zenon DEF AtOneMore
  <2>3. \A e \in DOMAIN a : \E k \in DOMAIN y : k \in P /\ a[e] = y[k]
    BY <1>2, Zenon
  <2>4. \A e \in DOMAIN Append(a, t) : (e \in DOMAIN a /\ Append(a, t)[e] = a[e]) \/ Append(a, t)[e] = t
    <3> HIDE DEF a
    <3> QED
      BY <2>2
  <2> HIDE DEF z, n, a, b
  <2>5. ASSUME NEW e \in DOMAIN b PROVE \E k \in DOMAIN z : k \in P /\ b[e] = z[k]
    <3>1. CASE e \in DOMAIN a /\ b[e] = a[e]
      BY <2>1, <2>3, <3>1, Zenon
    <3>2. CASE n \in P /\ b[e] = t
      BY <2>1, <3>2, Zenon
    <3> QED
      BY <2>2, <2>4, <2>5, <3>1, <3>2, Zenon
  <2> QED
    BY <2>1, <2>5, Zenon DEF z, b
<1>3. Seq(S) \subseteq W
  <2>1. \A y \in Seq(S) : y \in W => \A t \in S : Append(y, t) \in W
    BY <1>2, Zenon
  <2> HIDE DEF W
  <2> QED
    BY <1>1, <2>1, TextInduction, Zenon
<1> QED
  BY <1>3, Zenon DEF ComesFrom

\* All but the first of some.
LEMMA AtRange ==
    ASSUME NEW S, NEW q \in Seq(S), NEW m \in 1..Len(q)
    PROVE  Len(At(q, 2..m)) = m - 1 /\ \A i \in 1..(m - 1) : At(q, 2..m)[i] = q[i + 1]
<1> DEFINE Holds(y) == \A k \in 1..Len(y) : /\ Len(At(y, 2..k)) = k - 1
                                            /\ \A i \in 1..(k - 1) : At(y, 2..k)[i] = y[i + 1]
           W == {y \in Seq(S) : Holds(y)}
<1>1. <<>> \in W
  OBVIOUS
<1>2. ASSUME NEW y \in Seq(S), y \in W, NEW t \in S PROVE Append(y, t) \in W
  <2> DEFINE z == Append(y, t)
             n == Len(y) + 1
  <2>1. /\ z \in Seq(S) /\ Len(z) = n /\ z[n] = t /\ Len(y) \in Nat /\ DOMAIN y = 1..Len(y)
        /\ \A i \in 1..Len(y) : z[i] = y[i]
    BY OneMore
  <2>2. ASSUME NEW k \in 1..n
        PROVE  Len(At(z, 2..k)) = k - 1 /\ \A i \in 1..(k - 1) : At(z, 2..k)[i] = z[i + 1]
    <3>1. At(z, 2..k) = IF n \in 2..k THEN Append(At(y, 2..k), t) ELSE At(y, 2..k)
      <4>1. At(z, 2..k) = AtOneMore(y, t, 2..k)
        BY AtSnoc, Zenon
      <4> QED
        BY <4>1, Zenon DEF AtOneMore
    <3>2. CASE k \in 1..Len(y)
      <4>1. n \notin 2..k /\ \A i \in 1..(k - 1) : i + 1 \in 1..Len(y)
        BY <2>1, <3>2
      <4>2. Len(At(y, 2..k)) = k - 1 /\ \A i \in 1..(k - 1) : At(y, 2..k)[i] = y[i + 1]
        BY <1>2, <3>2, Zenon
      <4> HIDE DEF z, n
      <4> QED
        BY <2>1, <3>1, <4>1, <4>2, Zenon
    <3>3. CASE k = n /\ y = <<>>
      <4>1. n = 1 /\ n \notin 2..k /\ 1..(k - 1) = {} /\ k - 1 = 0
        BY <3>3
      <4>2. At(z, 2..k) = <<>>
        BY <3>1, <3>3, <4>1, AtNone, Zenon
      <4>3. Len(<<>>) = 0
        OBVIOUS
      <4> QED
        BY <4>1, <4>2, <4>3, Zenon
    <3>4. CASE k = n /\ y # <<>>
      <4> DEFINE h == Len(y)
                 a == At(y, 2..h)
      <4>1. h \in 1..Len(y) /\ n \in 2..k /\ h \in Nat \ {0} /\ k - 1 = h /\ n = h + 1 /\ \A i \in 1..h : i \in 2..k <=> i \in 2..h
        BY <2>1, <3>4, EmptySeq
      <4>2. At(y, 2..k) = a
        BY <2>1, <4>1, AtSame, Zenon
      <4>3. Len(a) = h - 1 /\ \A i \in 1..(h - 1) : a[i] = y[i + 1]
        BY <1>2, <4>1, Zenon
      <4>4. a \in Seq(S)
        BY AtType, Zenon
      <4>5. At(z, 2..k) = Append(a, t)
        BY <3>1, <4>1, <4>2, Zenon
      <4> HIDE DEF h, a, z, n
      <4>6. Len(Append(a, t)) = h /\ Append(a, t)[h] = t /\ \A i \in 1..(h - 1) : Append(a, t)[i] = a[i]
        BY <4>1, <4>3, <4>4
      <4>7. \A i \in 1..h : (i = h \/ i \in 1..(h - 1)) /\ (i \in 1..(h - 1) => i + 1 \in 1..Len(y))
        BY <4>1 DEF h
      <4>8. \A i \in 1..h : Append(a, t)[i] = z[i + 1]
        BY <2>1, <4>1, <4>3, <4>6, <4>7, Zenon
      <4> QED
        BY <4>1, <4>5, <4>6, <4>8, Zenon
    <3>5. k \in 1..Len(y) \/ k = n
      BY <2>1
    <3> QED
      BY <3>2, <3>3, <3>4, <3>5, Zenon
  <2>3. Holds(z)
    <3> HIDE DEF z
    <3> QED
      BY <2>1, <2>2, Zenon
  <2> QED
    BY <2>1, <2>3, Zenon
<1>3. Seq(S) \subseteq W
  <2>1. \A y \in Seq(S) : y \in W => \A t \in S : Append(y, t) \in W
    BY <1>2, Zenon
  <2> HIDE DEF W
  <2> QED
    BY <1>1, <2>1, TextInduction, Zenon
<1> QED
  BY <1>3, Zenon

-----------------------------------------------------------------------------
(* What llmos and Import-Csv make of such a text.                          *)

LEMMA EmptyLine == ~ValidHeader(<<>>)
<1>1. split_csv_row(<<>>) = <<<<>>>>
  BY SplitIs, SplitEmpty
<1>2. ~(Len(<<<<>>>>) >= 5)
  OBVIOUS
<1> QED
  BY <1>1, <1>2 DEF ValidHeader, Columns

\* The data of a table: all but the header.
Data(all) == [i \in 1..(Len(all) - 1) |-> all[i + 1]]

\* The row that is not complete, and all rows with it.
Open(s) == IF s.fields = <<>> /\ s.current = <<>> THEN <<>> ELSE <<Append(s.fields, s.current)>>

LEMMA DataRow ==
    ASSUME NEW all \in Seq(Row), NEW i \in 1..(Len(all) - 1)
    PROVE  all[i + 1] \in Row
  OBVIOUS

LEMMA ImportRows ==
    ASSUME NEW x, NEW all \in Seq(Row), all # <<>>, all = Imported(x).table \o Open(Imported(x))
    PROVE  ImportCsv(x) = Data(all)
<1> DEFINE Padded(fields) == [c \in 1..Columns |-> IF c \in DOMAIN fields THEN fields[c] ELSE Blank]
<1>1. ASSUME NEW row \in Row PROVE Padded(row) = row
  BY DEF Row
<1>2. ImportCsv(x) = [i \in 1..(Len(all) - 1) |-> Padded(all[i + 1])]
  BY Zenon DEF ImportCsv, Imported, Open
<1>3. ASSUME NEW i \in 1..(Len(all) - 1) PROVE Padded(all[i + 1]) = all[i + 1]
  <2>1. all[i + 1] \in Row
    BY DataRow, Zenon
  <2> HIDE DEF Padded
  <2> QED
    BY <1>1, <2>1
<1> HIDE DEF Padded
<1> QED
  BY <1>2, <1>3, Zenon DEF Data

\* The records of the lines that begin outside a note.
Own(x) == RecordsOutside(Lines(x), DataLines(Lines(x)), NoteLines(x))

\* The two readers of a text: these records are the rows of Import-Csv.
Agree(x, all) ==
    /\ ImportCsv(x) = Data(all)
    /\ DOMAIN Own(x) = 1..(Len(all) - 1) /\ Len(Own(x)) = Len(all) - 1
    /\ \A i \in 1..(Len(all) - 1) : Alike(Own(x)[i], all[i + 1])

LEMMA OwnIs ==
    ASSUME NEW x \in Seq(Tokens)
    PROVE  /\ RowLines(x) \in LineStates(Tokens) /\ RowLines(x)[1] = Lines(x)[1]
           /\ Own(x) = Splits(At(RowLines(x), DataLines(RowLines(x))))
           /\ At(Lines(x), DataLines(Lines(x)) \ NoteLines(x)) = At(RowLines(x), DataLines(RowLines(x)))
<1> DEFINE L == Lines(x)
           N == NoteLines(x)
<1>1. L \in Seq(Seq(Tokens)) /\ L # <<>>
  <2>1. L \in LineStates(Tokens)
    BY LineSnoc, Zenon
  <2> QED
    BY <2>1, Zenon DEF LineStates
<1>2. \A k \in N : k \in 2..Len(L)
  BY ReadingHolds, Zenon DEF Reading
<1>3. 1 \notin N
  <2>1. \A n : 1 \notin 2..n
    OBVIOUS
  <2> QED
    BY <1>2, <2>1, Zenon
<1>4. RowLines(x) \in LineStates(Tokens)
  BY <1>2, RowLinesType, Zenon
<1> HIDE DEF L, N
<1>5. /\ Outside(L, N)[1] = L[1]
      /\ At(L, DataLines(L) \ N) = At(Outside(L, N), DataLines(Outside(L, N)))
  <2>1. SameData(L, Outside(L, N), N)
    BY <1>1, <1>3, DataOutside, Zenon
  <2> QED
    BY <1>1, <2>1, Zenon DEF SameData
<1>6. RecordsOutside(L, DataLines(L), N) = Splits(At(L, DataLines(L) \ N))
  BY <1>1, OwnLines, Zenon
<1> QED
  BY <1>4, <1>5, <1>6, Zenon DEF Own, RowLines, L, N

\* The lines are the rows, and after them comes at most an empty line.
RowsAre(L, all) ==
    /\ Len(all) <= Len(L) /\ Len(all) # 0
    /\ \A i \in 1..Len(all) : L[i] # <<>> /\ Alike(SplitState(L[i]).fields, all[i])
    /\ \A k \in 1..Len(L) : k > Len(all) => L[k] = <<>>

LEMMA ParseAll ==
    ASSUME NEW x \in Seq(Tokens), NEW all \in Seq(Row), RowsAre(RowLines(x), all)
    PROVE  /\ DOMAIN Own(x) = 1..(Len(all) - 1) /\ Len(Own(x)) = Len(all) - 1
           /\ \A i \in 1..(Len(all) - 1) : Alike(Own(x)[i], all[i + 1])
<1> DEFINE R == RowLines(x)
           m == Len(all)
           data == At(R, DataLines(R))
<1>0. R \in LineStates(Tokens) /\ Own(x) = Splits(data)
  BY OwnIs, Zenon
<1> HIDE DEF R
<1>1. R \in Seq(Seq(Tokens)) /\ DOMAIN R = 1..Len(R) /\ Len(R) \in Nat /\ m \in 1..Len(R)
  <2>1. R \in Seq(Seq(Tokens)) /\ m \in Nat
    BY <1>0 DEF LineStates
  <2>2. m <= Len(R) /\ m # 0
    BY Zenon DEF RowsAre, R
  <2> QED
    BY <2>1, <2>2
<1>2. \A i \in DOMAIN R : i \in DataLines(R) <=> i \in 2..m
  <2> SUFFICES ASSUME NEW i \in 1..Len(R) PROVE i \in DataLines(R) <=> i \in 2..m
    BY <1>1, Zenon
  <2>1. i \in DataLines(R) <=> i \in 2..Len(R) /\ R[i] # <<>>
    BY Zenon DEF DataLines
  <2>2. CASE i \in 2..m
    <3>1. i \in 1..m /\ i \in 2..Len(R)
      BY <1>1, <2>2
    <3> QED
      BY <2>1, <2>2, <3>1, Zenon DEF RowsAre, R
  <2>3. CASE i \notin 2..m
    <3>1. i = 1 \/ i > m
      BY <1>1, <2>3
    <3>2. 1 \notin 2..Len(R)
      OBVIOUS
    <3> QED
      BY <2>1, <2>3, <3>1, <3>2, Zenon DEF RowsAre, R
  <2> QED
    BY <2>2, <2>3
<1>3. data = At(R, 2..m)
  BY <1>2, AtSame, Zenon
<1>4. Len(data) = m - 1 /\ \A i \in 1..(m - 1) : data[i] = R[i + 1]
  <2>1. Len(At(R, 2..m)) = m - 1 /\ \A i \in 1..(m - 1) : At(R, 2..m)[i] = R[i + 1]
    BY <1>1, AtRange, Zenon
  <2> QED
    BY <1>3, <2>1, Zenon
<1>5. data \in Seq(Seq(Tokens))
  BY <1>1, AtType, Zenon
<1> HIDE DEF data, m
<1>6. DOMAIN data = 1..(m - 1)
  BY <1>4, <1>5
<1>7. /\ DOMAIN Own(x) = 1..(m - 1)
      /\ \A i \in 1..(m - 1) : Own(x)[i] = SplitState(R[i + 1]).fields
  BY <1>0, <1>4, <1>6, SplitIs, Zenon DEF Splits
<1>8. Len(Own(x)) = m - 1
  <2>1. Len(Splits(data)) = Len(data)
    BY <1>5, SplitsSnoc, EmptySeq, Zenon
  <2> QED
    BY <1>0, <1>4, <2>1, Zenon
<1>9. \A i \in 1..(m - 1) : i + 1 \in 1..m
  BY <1>1
<1> QED
  BY <1>7, <1>8, <1>9, Zenon DEF RowsAre, R, m

LEMMA RowsBefore ==
    ASSUME NEW R \in LineStates(Tokens), NEW s \in ImportStates, NEW inside, NEW j \in Nat \ {0},
           LiveAt(R, s, inside, j), j # 1, R[j] = <<>>
    PROVE  RowsAre(R, s.table)
<1>1. Len(R) = j /\ j = Len(s.table) + 1 /\ Len(s.table) \in Nat
  BY DEF LiveAt, ImportStates
<1>2. Len(s.table) <= Len(R) /\ Len(s.table) # 0 /\ Len(s.table) = j - 1
  BY <1>1
<1>3. ASSUME NEW k \in 1..Len(R), k > Len(s.table) PROVE R[k] = <<>>
  <2>1. k = j
    BY <1>1, <1>3
  <2> QED
    BY <2>1, Zenon
<1>4. \A i \in 1..Len(s.table) : R[i] # <<>> /\ Alike(SplitState(R[i]).fields, s.table[i])
  BY <1>2, Zenon DEF LiveAt
<1> QED
  BY <1>2, <1>3, <1>4, Zenon DEF RowsAre

LEMMA RowsWith ==
    ASSUME NEW R \in LineStates(Tokens), NEW s \in ImportStates, NEW inside, NEW j \in Nat \ {0},
           LiveAt(R, s, inside, j), R[j] # <<>>
    PROVE  RowsAre(R, Append(s.table, Append(s.fields, s.current)))
<1> DEFINE row == Append(s.fields, s.current)
           all == Append(s.table, row)
<1>1. /\ Len(R) = j /\ j = Len(s.table) + 1 /\ Len(s.table) \in Nat
      /\ s.table \in Seq(Seq(Field)) /\ s.fields \in Seq(Field) /\ s.current \in Field
  BY DEF LiveAt, ImportStates
<1>2. row \in Seq(Field) /\ Alike(SplitState(R[j]).fields, row)
  BY <1>1, AlikeComplete, AppendedField, Zenon DEF LiveAt
<1> HIDE DEF row
<1>3. Len(all) = j /\ all[j] = row /\ \A i \in 1..(j - 1) : all[i] = s.table[i]
  BY <1>1, <1>2
<1> HIDE DEF all
<1>4. ASSUME NEW i \in 1..Len(all) PROVE R[i] # <<>> /\ Alike(SplitState(R[i]).fields, all[i])
  <2>1. i = j \/ i \in 1..(j - 1)
    BY <1>3
  <2> QED
    BY <1>2, <1>3, <2>1, Zenon DEF LiveAt
<1>5. Len(all) <= Len(R) /\ Len(all) # 0 /\ \A k \in 1..Len(R) : ~(k > Len(all))
  BY <1>1, <1>3
<1> QED
  BY <1>4, <1>5, Zenon DEF RowsAre, all, row

\* What parse_benchmark_csv has checked when it returns.
LEMMA ParseIs ==
    ASSUME NEW x, parse_benchmark_csv(x) # Error
    PROVE  LET L == Lines(x)
               data == At(L, DataLines(L))
           IN  /\ ValidHeader(L[1]) /\ \A i \in DOMAIN data : ParsesAsRow(data[i])
               /\ parse_benchmark_csv(x) = Splits(data)
  BY Zenon DEF parse_benchmark_csv, Splits

LEMMA DataParses ==
    ASSUME NEW x \in Seq(Tokens), parse_benchmark_csv(x) # Error, NEW k \in DataLines(Lines(x))
    PROVE  ParsesAsRow(Lines(x)[k])
<1> DEFINE L == Lines(x)
<1>1. L \in Seq(Seq(Tokens))
  <2>1. L \in LineStates(Tokens)
    BY LineSnoc, Zenon
  <2> QED
    BY <2>1, Zenon DEF LineStates
<1>2. \A i \in DOMAIN At(L, DataLines(L)) : ParsesAsRow(At(L, DataLines(L))[i])
  BY ParseIs, Zenon
<1> HIDE DEF L
<1>3. k \in 1..Len(L)
  <2>1. k \in 2..Len(L) /\ Len(L) \in Nat
    BY <1>1 DEF DataLines, L
  <2> QED
    BY <2>1
<1>4. Has(At(L, DataLines(L)), L[k])
  BY <1>1, <1>3, AtHas, Zenon DEF L
<1> QED
  BY <1>2, <1>4, Zenon DEF Has, L

LEMMA ParseChecks ==
    ASSUME NEW x \in Seq(Tokens), parse_benchmark_csv(x) # Error
    PROVE  LET R == RowLines(x)
           IN  ValidHeader(R[1]) /\ \A k \in 2..Len(R) : R[k] # <<>> => ParsesAsRow(R[k])
<1> DEFINE L == Lines(x)
           R == RowLines(x)
           N == NoteLines(x)
           data == At(R, DataLines(R))
           Q == DataLines(L) \ N
<1>1. R \in LineStates(Tokens) /\ R[1] = L[1] /\ At(L, Q) = data
  BY OwnIs, Zenon
<1>2. L \in Seq(Seq(Tokens)) /\ R \in Seq(Seq(Tokens))
  <2>1. L \in LineStates(Tokens)
    BY LineSnoc, Zenon
  <2> QED
    BY <1>1, <2>1, Zenon DEF LineStates
<1>3. ValidHeader(L[1]) /\ \A k \in DataLines(L) : ParsesAsRow(L[k])
  BY ParseIs, DataParses, Zenon
<1> HIDE DEF L, R, N, data
<1>4. ASSUME NEW k \in 2..Len(R), R[k] # <<>> PROVE ParsesAsRow(R[k])
  <2>1. k \in 1..Len(R) /\ k \in DataLines(R)
    <3>1. k \in 1..Len(R)
      BY <1>2
    <3>2. k \in DataLines(R)
      BY <1>4, Zenon DEF DataLines
    <3> QED
      BY <3>1, <3>2
  <2>2. Has(At(R, DataLines(R)), R[k])
    BY <1>2, <2>1, AtHas, Zenon
  <2>3. PICK i \in DOMAIN At(L, Q) : At(L, Q)[i] = R[k]
    BY <1>1, <2>2, Zenon DEF Has, data
  <2> HIDE DEF Q
  <2>4. PICK d \in DOMAIN L : d \in Q /\ At(L, Q)[i] = L[d]
    <3>1. ComesFrom(At(L, Q), L, Q)
      BY <1>2, AtFrom, Zenon
    <3> QED
      BY <3>1, Zenon DEF ComesFrom
  <2>5. d \in DataLines(L)
    BY <2>4, Zenon DEF Q
  <2> QED
    BY <1>3, <2>3, <2>4, <2>5, Zenon
<1> QED
  BY <1>1, <1>3, <1>4, Zenon DEF R

\* The rows that are complete, and the one that is not when it has all its fields.
Reaches(s, all) ==
    \/ all = s.table
    \/ Len(s.fields) = 4 /\ all = Append(s.table, Append(s.fields, s.current))

LEMMA FourFields ==
    ASSUME NEW n \in 0..4, NEW m, m = n + 1, m >= 5
    PROVE  n = 4
  OBVIOUS

LEMMA TwoReaders ==
    ASSUME NEW x \in Seq(Tokens), Good(x), parse_benchmark_csv(x) # Error
    PROVE  \E all \in Seq(Row) : Agree(x, all) /\ all # <<>> /\ Reaches(Imported(x), all)
<1> DEFINE s == Imported(x)
           R == RowLines(x)
<1>1. R \in LineStates(Tokens) /\ s \in ImportStates /\ Typed(s)
  BY OwnIs, ImportedType, TypedHolds, Zenon
<1>2. ValidHeader(R[1]) /\ \A k \in 2..Len(R) : R[k] # <<>> => ParsesAsRow(R[k])
  BY ParseChecks, Zenon
<1>3. Live(R, s, Inside(x))
  BY ReadingHolds, Zenon DEF Reading
<1>4. PICK j \in Nat \ {0} : LiveAt(R, s, Inside(x), j)
  BY <1>3, Zenon DEF Live
<1>5. R[j] = <<>> => j # 1
  BY <1>2, EmptyLine, Zenon
<1>6. /\ s.table \in Seq(Row) /\ s.fields \in Seq(Field) /\ Len(s.fields) \in 0..4
      /\ \A c \in 1..Len(s.fields) : s.fields[c] \in Seq(PlainTokens)
      /\ s.current \in Seq(Alphabet(Len(s.fields) + 1))
  BY <1>1, Zenon DEF Typed
<1>7. j = Len(R) /\ AlikeSoFar(SplitState(R[j]).fields, s.fields, s.current)
  BY <1>4, Zenon DEF LiveAt
<1> HIDE DEF s, R
<1>8. ASSUME NEW all \in Seq(Row), RowsAre(R, all), all = s.table \o Open(s), Reaches(s, all)
      PROVE  \E a \in Seq(Row) : Agree(x, a) /\ a # <<>> /\ Reaches(s, a)
  <2>1. all # <<>>
    <3>1. Len(all) # 0
      BY <1>8, Zenon DEF RowsAre
    <3> QED
      BY <3>1
  <2>2. ImportCsv(x) = Data(all)
    BY <1>8, <2>1, ImportRows, Zenon DEF s
  <2>3. /\ DOMAIN Own(x) = 1..(Len(all) - 1) /\ Len(Own(x)) = Len(all) - 1
        /\ \A i \in 1..(Len(all) - 1) : Alike(Own(x)[i], all[i + 1])
    BY <1>8, ParseAll, Zenon DEF R
  <2> QED
    BY <1>8, <2>1, <2>2, <2>3, Zenon DEF Agree
<1>9. CASE R[j] = <<>>
  <2>1. RowsAre(R, s.table)
    BY <1>1, <1>4, <1>5, <1>9, RowsBefore, Zenon
  <2>2. s.table = s.table \o Open(s) /\ Reaches(s, s.table)
    <3>1. Open(s) = <<>>
      BY <1>4, <1>9, Zenon DEF LiveAt, Open
    <3>2. s.table = s.table \o <<>>
      BY <1>6, ConcatEmptySeq, Zenon
    <3> QED
      BY <3>1, <3>2, Zenon DEF Reaches
  <2> QED
    BY <1>6, <1>8, <2>1, <2>2, Zenon DEF s
<1>10. CASE R[j] # <<>>
  <2> DEFINE f == SplitState(R[j]).fields
             row == Append(s.fields, s.current)
             all == Append(s.table, row)
  <2>1. Len(f) >= 5
    <3>1. split_csv_row(R[j]) = f
      BY SplitIs, Zenon
    <3>2. CASE j = 1
      BY <1>2, <3>1, <3>2, Zenon DEF ValidHeader, Columns
    <3>3. CASE j # 1
      <4>1. j \in 2..Len(R)
        BY <1>7, <3>3
      <4> QED
        BY <1>2, <1>10, <3>1, <4>1, Zenon DEF ParsesAsRow, Columns
    <3> QED
      BY <3>2, <3>3
  <2>2. Len(f) = Len(s.fields) + 1
    BY <1>7, Zenon DEF AlikeSoFar
  <2> HIDE DEF f
  <2>3. Len(s.fields) = 4
    BY <1>6, <2>1, <2>2, FourFields, Zenon
  <2>4. s.current \in Seq(NoteTokens)
    <3>1. Alphabet(4 + 1) = NoteTokens
      BY DEF Alphabet, Note
    <3> QED
      BY <1>6, <2>3, <3>1, Zenon
  <2>5. row \in Row
    BY <1>6, <2>3, <2>4, RowComplete
  <2>6. all \in Seq(Row) /\ all = s.table \o <<row>>
    <3> HIDE DEF row
    <3>1. \A T : \A q \in Seq(T), r \in T : Append(q, r) \in Seq(T) /\ Append(q, r) = q \o <<r>>
      OBVIOUS
    <3> QED
      BY <1>6, <2>5, <3>1, Zenon
  <2>7. Open(s) = <<row>>
    <3>1. s.fields # <<>>
      <4>1. Len(<<>>) # 4
        OBVIOUS
      <4> QED
        BY <2>3, <4>1, Zenon
    <3> QED
      BY <3>1, Zenon DEF Open
  <2>8. RowsAre(R, all)
    BY <1>1, <1>4, <1>10, RowsWith, Zenon
  <2>9. Reaches(s, all)
    BY <2>3, Zenon DEF Reaches
  <2>10. all = s.table \o Open(s)
    BY <2>6, <2>7, Zenon
  <2> HIDE DEF all
  <2> QED
    BY <1>8, <2>6, <2>8, <2>9, <2>10, Zenon DEF s
<1> QED
  BY <1>9, <1>10

LEMMA DataType ==
    ASSUME NEW all \in Seq(Row), all # <<>>
    PROVE  /\ Data(all) \in Seq(Row) /\ Len(Data(all)) = Len(all) - 1
           /\ Len(all) \in Nat \ {0} /\ DOMAIN Data(all) = 1..(Len(all) - 1)
           /\ \A i \in 1..(Len(all) - 1) : Data(all)[i] = all[i + 1] /\ all[i + 1] \in Row
  BY DEF Data

\* What ReadersAgree says of a text.
AgreeOn(text) ==
    LET own == Own(text)
        table == ImportCsv(text)
    IN  parse_benchmark_csv(text) # Error =>
            /\ Len(own) = Len(table)
            /\ \A i \in DOMAIN table :
                  /\ \A c \in {Id, Model, Metric, Success} : own[i][c] = table[i][c]
                  /\ own[i][Note] = Read(table[i][Note])

LEMMA AgreeInFull ==
    ASSUME NEW x \in Seq(Tokens), Good(x)
    PROVE  AgreeOn(x)
<1> DEFINE own == Own(x)
           table == ImportCsv(x)
<1> SUFFICES ASSUME parse_benchmark_csv(x) # Error
             PROVE  /\ Len(own) = Len(table)
                    /\ \A i \in DOMAIN table :
                          /\ \A c \in {Id, Model, Metric, Success} : own[i][c] = table[i][c]
                          /\ own[i][Note] = Read(table[i][Note])
  BY Zenon DEF AgreeOn
<1>1. PICK all \in Seq(Row) : Agree(x, all) /\ all # <<>>
  BY TwoReaders, Zenon
<1>2. /\ table = Data(all) /\ Len(own) = Len(all) - 1
      /\ \A i \in 1..(Len(all) - 1) : Alike(own[i], all[i + 1])
  BY <1>1, Zenon DEF Agree
<1> HIDE DEF own, table
<1>3. ASSUME NEW i \in DOMAIN table
      PROVE  /\ \A c \in {Id, Model, Metric, Success} : own[i][c] = table[i][c]
             /\ own[i][Note] = Read(table[i][Note])
  <2> DEFINE row == table[i]
  <2>1. row \in Row /\ Alike(own[i], row)
    BY <1>1, <1>2, DataType, Zenon
  <2> HIDE DEF row
  <2>2. \A c \in 1..5 : own[i][c] = Read(row[c])
    BY <2>1, RowFields, Zenon DEF Alike
  <2>3. ASSUME NEW c \in 1..4 PROVE row[c] \in Seq(PlainTokens) /\ c \in 1..5
    <3>1. c \in 1..5 /\ Alphabet(c) = PlainTokens
      BY DEF Alphabet, Note
    <3> QED
      BY <2>1, <3>1, RowField, Zenon
  <2>4. {Id, Model, Metric, Success} \subseteq 1..4 /\ Note \in 1..5
    BY DEF Id, Model, Metric, Success, Note
  <2> QED
    BY <2>2, <2>3, <2>4, ReadPlain, Zenon DEF row
<1>4. Len(own) = Len(table)
  BY <1>1, <1>2, DataType, Zenon
<1> QED
  BY <1>3, <1>4, Zenon

\* A byte order mark stays in the first field that llmos reads.
Marked(L) == /\ L[1] \in Seq(Tokens) /\ SplitState(L[1]).fields[1] # <<>>
             /\ SplitState(L[1]).fields[1][1] = "bom"

LEMMA SplitKeepsFirst ==
    ASSUME NEW p \in SplitStates(Tokens), NEW t \in Tokens, p.fields[1] # <<>>
    PROVE  /\ SplitStep(p, t).fields[1] # <<>>
           /\ SplitStep(p, t).fields[1][1] = p.fields[1][1]
<1> DEFINE r == SplitStep(p, t)
           f == p.fields
<1>1. f \in Seq(Seq(Tokens)) /\ Len(f) \in Nat \ {0} /\ f[1] \in Seq(Tokens) /\ 1 \in 1..Len(f)
  BY DEF SplitStates
<1>2. CASE t = "quote"
  <2>1. r.fields = f
    BY <1>2, SplitQuote
  <2> QED
    BY <2>1
<1>3. CASE t = "comma" /\ ~p.in_quotes
  <2>1. r.fields = Append(f, <<>>)
    BY <1>3, SplitComma
  <2> HIDE DEF r, f
  <2>2. Append(f, <<>>)[1] = f[1]
    BY <1>1
  <2> QED
    BY <2>1, <2>2, Zenon DEF r, f
<1>4. CASE t # "quote" /\ (t # "comma" \/ p.in_quotes)
  <2>1. r.fields = [f EXCEPT ![Len(f)] = Append(@, t)]
    BY <1>4, SplitOther, Zenon
  <2> HIDE DEF r, f
  <2>2. r.fields[1] = IF Len(f) = 1 THEN Append(f[1], t) ELSE f[1]
    BY <1>1, <2>1
  <2>3. Append(f[1], t) # <<>> /\ (f[1] # <<>> => Append(f[1], t)[1] = f[1][1])
    <3>1. \A q \in Seq(Tokens) : Append(q, t) # <<>> /\ (q # <<>> => Append(q, t)[1] = q[1])
      <4>1. \A q \in Seq(Tokens) : q # <<>> => Append(q, t)[1] = q[1]
        <5> SUFFICES ASSUME NEW q \in Seq(Tokens), q # <<>> PROVE Append(q, t)[1] = q[1]
          OBVIOUS
        <5>1. 1 \in 1..Len(q)
          BY EmptySeq
        <5> QED
          BY <5>1
      <4> QED
        BY <4>1, AppendedNotNone, Zenon
    <3> QED
      BY <1>1, <3>1, Zenon
  <2> QED
    BY <2>2, <2>3, Zenon DEF r, f
<1> QED
  BY <1>2, <1>3, <1>4

LEMMA BomFails ==
    ASSUME NEW x \in Seq(Tokens), x # <<>>, x[1] = "bom"
    PROVE  ~ValidHeader(Lines(x)[1])
<1> DEFINE P == {y \in Seq(Tokens) : y # <<>> /\ y[1] = "bom" => Marked(Lines(y))}
<1>1. <<>> \in P
  OBVIOUS
<1>2. ASSUME NEW y \in Seq(Tokens), y \in P, NEW t \in Tokens PROVE Append(y, t) \in P
  <2> DEFINE L == Lines(y)
             K == Lines(Append(y, t))
  <2>1. Append(y, t) \in Seq(Tokens)
    BY AppendedType, Zenon
  <2>2. L \in LineStates(Tokens) /\ K = LineStep(L, t)
    BY LineSnoc, Zenon
  <2>3. CASE y # <<>> /\ y[1] = "bom"
    <3>1. Marked(L)
      BY <1>2, <2>3, Zenon
    <3> HIDE DEF K, L
    <3>2. Len(L) \in Nat \ {0} /\ 1 \in 1..Len(L)
      BY <2>2, LineType
    <3>3. K[1] = L[1] \/ K[1] = Append(L[1], t)
      BY <2>2, <3>2, LineCases
    <3>4. L[1] \in Seq(Tokens) /\ Append(L[1], t) \in Seq(Tokens)
      BY <2>2, <3>2, LineType, AppendedType, Zenon
    <3>5. /\ SplitState(Append(L[1], t)) = SplitStep(SplitState(L[1]), t)
          /\ SplitState(L[1]) \in SplitStates(Tokens)
      BY <3>4, SplitSnoc, Zenon
    <3>6. Marked(K)
      <4>1. CASE K[1] = L[1]
        BY <3>1, <4>1, Zenon DEF Marked
      <4>2. CASE K[1] = Append(L[1], t)
        <5>1. /\ SplitStep(SplitState(L[1]), t).fields[1] # <<>>
              /\ SplitStep(SplitState(L[1]), t).fields[1][1] = "bom"
          BY <3>1, <3>5, SplitKeepsFirst, Zenon DEF Marked
        <5> QED
          BY <3>4, <3>5, <4>2, <5>1, Zenon DEF Marked
      <4> QED
        BY <3>3, <4>1, <4>2
    <3> QED
      BY <2>1, <3>6, Zenon DEF K
  <2>4. CASE y = <<>> /\ t = "bom"
    <3>1. L = <<<<>>>>
      BY <2>4, LineSnoc, Zenon
    <3>2. K[1] = <<"bom">>
      <4>1. K = LineStep(<<<<>>>>, "bom")
        BY <2>2, <2>4, <3>1, Zenon
      <4>2. LineStep(<<<<>>>>, "bom") = <<<<"bom">>>>
        BY DEF LineStep
      <4> HIDE DEF K, L
      <4> QED
        BY <4>1, <4>2
    <3>3. SplitState(Append(<<>>, t)) = SplitStep(SplitState(<<>>), t)
      BY <2>4, SplitSnoc, Zenon
    <3>4. SplitState(<<"bom">>) = SplitStep(SplitStart, "bom")
      <4>1. Append(<<>>, t) = <<"bom">>
        BY <2>4
      <4>2. SplitState(<<>>) = SplitStart
        BY SplitEmpty DEF SplitStart
      <4> QED
        BY <2>4, <3>3, <4>1, <4>2, Zenon
    <3>5. SplitStep(SplitStart, "bom").fields[1] = <<"bom">>
      BY DEF SplitStep, SplitStart
    <3>6. <<"bom">> \in Seq(Tokens) /\ <<"bom">> # <<>> /\ <<"bom">>[1] = "bom"
      BY StructureTokens
    <3> HIDE DEF K
    <3>7. Marked(K)
      BY <3>2, <3>4, <3>5, <3>6, Zenon DEF Marked
    <3> QED
      BY <2>1, <3>7, Zenon DEF K
  <2>5. CASE ~(y # <<>> /\ y[1] = "bom") /\ ~(y = <<>> /\ t = "bom")
    <3>1. Append(y, t)[1] # "bom"
      BY <2>5
    <3> QED
      BY <2>1, <3>1, Zenon
  <2> QED
    BY <2>3, <2>4, <2>5
<1>3. Seq(Tokens) \subseteq P
  <2> HIDE DEF P
  <2> QED
    BY <1>1, <1>2, TextInduction
<1>4. Marked(Lines(x))
  BY <1>3, Zenon
<1>5. <<"run_id">>[1] # "bom"
  OBVIOUS
<1> QED
  BY <1>4, <1>5, SplitIs, Zenon DEF ValidHeader, Marked, Id

-----------------------------------------------------------------------------
(* Files: such a text, with a byte order mark or without, up to some point. *)

All(table) == <<Header>> \o table
Exported(b, table) == (IF b THEN <<"bom">> ELSE <<>>) \o Text(All(table))

LEMMA ExportedIs == \A table : ExportCsv(table) = Exported(bom, table)
  BY Zenon DEF ExportCsv, Exported, Text, All

LEMMA JoinProperties ==
    \A a, c \in Seq(Tokens) :
        /\ a \o c \in Seq(Tokens) /\ Len(a \o c) = Len(a) + Len(c)
        /\ \A i \in 1..Len(a) : (a \o c)[i] = a[i]
        /\ \A i \in 1..Len(c) : (a \o c)[Len(a) + i] = c[i]
  OBVIOUS

LEMMA BomFirst ==
    ASSUME NEW q \in Seq(Tokens)
    PROVE  /\ <<"bom">> \o q \in Seq(Tokens) /\ Len(<<"bom">> \o q) = Len(q) + 1 /\ (<<"bom">> \o q)[1] = "bom"
           /\ \A i \in 1..Len(q) : (<<"bom">> \o q)[i + 1] = q[i]
<1> DEFINE b == <<"bom">>
<1>1. b \in Seq(Tokens) /\ Len(b) = 1 /\ b[1] = "bom"
  BY StructureTokens
<1> HIDE DEF b
<1>2. /\ b \o q \in Seq(Tokens) /\ Len(b \o q) = Len(q) + 1 /\ (b \o q)[1] = "bom"
      /\ \A i \in 1..Len(q) : (b \o q)[i + 1] = q[i]
  <2> DEFINE z == b \o q
  <2>2. /\ z \in Seq(Tokens) /\ Len(z) = Len(b) + Len(q)
        /\ \A i \in 1..Len(b) : z[i] = b[i]
        /\ \A i \in 1..Len(q) : z[Len(b) + i] = q[i]
    BY <1>1, JoinProperties, Zenon
  <2> HIDE DEF z
  <2>3. Len(q) \in Nat
    OBVIOUS
  <2>4. Len(z) = Len(q) + 1 /\ z[1] = "bom" /\ \A i \in 1..Len(q) : z[i + 1] = q[i]
    BY <1>1, <2>2, <2>3
  <2> QED
    BY <2>2, <2>4, Zenon DEF z
<1> QED
  BY <1>2, Zenon DEF b

LEMMA JoinSnoc == \A u, v \in Seq(Tokens), w \in Tokens : u \o Append(v, w) = Append(u \o v, w)
  BY ConcatSnoc

LEMMA AllType ==
    ASSUME NEW table \in Seq(Row)
    PROVE  /\ All(table) \in Seq(Row) /\ Len(All(table)) = Len(table) + 1 /\ All(table) # <<>>
           /\ \A i \in 1..Len(table) : All(table)[i + 1] = table[i]
<1>1. \A T : \A h \in T, q \in Seq(T) :
          /\ <<h>> \o q \in Seq(T) /\ Len(<<h>> \o q) = Len(q) + 1 /\ <<h>> \o q # <<>>
          /\ \A i \in 1..Len(q) : (<<h>> \o q)[i + 1] = q[i]
  OBVIOUS
<1> QED
  BY <1>1, HeaderRow, Zenon DEF All

LEMMA ImportBom ==
    ASSUME NEW x \in Seq(Tokens)
    PROVE  <<"bom">> \o x \in Seq(Tokens) /\ Imported(<<"bom">> \o x) = Imported(x)
<1> DEFINE b == <<"bom">>
           P == {y \in Seq(Tokens) : Imported(b \o y) = Imported(y)}
<1>1. b \in Seq(Tokens) /\ b = Append(<<>>, "bom") /\ b \o <<>> = b
  BY StructureTokens
<1>2. <<>> \in P
  <2>1. Imported(b) = ImportStep(ImportStart, "bom")
    BY <1>1, EmptyText, ImportedSnoc, StructureTokens, Zenon
  <2>2. ImportStep(ImportStart, "bom") = ImportStart
    BY DEF ImportStep
  <2> HIDE DEF b
  <2> QED
    BY <1>1, <2>1, <2>2, EmptyText, Zenon
<1>3. ASSUME NEW y \in Seq(Tokens), y \in P, NEW t \in Tokens PROVE Append(y, t) \in P
  <2> HIDE DEF b
  <2>1. Append(y, t) \in Seq(Tokens) /\ b \o y \in Seq(Tokens)
    BY <1>1, AppendedType, Join, Zenon
  <2>2. b \o Append(y, t) = Append(b \o y, t)
    BY <1>1, JoinSnoc, Zenon
  <2>3. Imported(Append(b \o y, t)) = ImportStep(Imported(b \o y), t)
    BY <2>1, ImportedSnoc, Zenon
  <2>4. Imported(Append(y, t)) = ImportStep(Imported(y), t)
    BY ImportedSnoc, Zenon
  <2> QED
    BY <1>3, <2>1, <2>2, <2>3, <2>4, Zenon
<1>4. Seq(Tokens) \subseteq P
  <2> HIDE DEF P
  <2> QED
    BY <1>2, <1>3, TextInduction
<1> QED
  BY <1>1, <1>4, Join, Zenon

LEMMA AfterBom ==
    ASSUME NEW x \in Seq(Tokens), NEW k \in 1..(Len(x) + 1)
    PROVE  /\ SubSeq(<<"bom">> \o x, 1, k) = <<"bom">> \o SubSeq(x, 1, k - 1)
           /\ SubSeq(<<"bom">> \o x, 1, k)[1] = "bom" /\ SubSeq(<<"bom">> \o x, 1, k) # <<>>
<1> DEFINE b == <<"bom">>
           y == SubSeq(b \o x, 1, k)
           z == b \o SubSeq(x, 1, k - 1)
<1>1. b \in Seq(Tokens) /\ Len(b) = 1 /\ b[1] = "bom" /\ Len(x) \in Nat /\ k - 1 \in 0..Len(x)
  BY StructureTokens
<1> HIDE DEF b
<1>2. ASSUME NEW q \in Seq(Tokens)
      PROVE  /\ b \o q \in Seq(Tokens) /\ Len(b \o q) = Len(q) + 1 /\ (b \o q)[1] = "bom"
             /\ \A i \in 2..(Len(q) + 1) : (b \o q)[i] = q[i - 1]
  <2>1. /\ b \o q \in Seq(Tokens) /\ Len(b \o q) = Len(q) + 1 /\ (b \o q)[1] = "bom"
        /\ \A i \in 1..Len(q) : (b \o q)[i + 1] = q[i]
    BY BomFirst, Zenon DEF b
  <2>2. \A i \in 2..(Len(q) + 1) : i - 1 \in 1..Len(q) /\ (i - 1) + 1 = i
    OBVIOUS
  <2> QED
    BY <2>1, <2>2, Zenon
<1>3. /\ SubSeq(x, 1, k - 1) \in Seq(Tokens) /\ Len(SubSeq(x, 1, k - 1)) = k - 1
      /\ \A i \in 1..(k - 1) : SubSeq(x, 1, k - 1)[i] = x[i]
  BY <1>1
<1>4. /\ z \in Seq(Tokens) /\ Len(z) = k /\ z[1] = "bom" /\ \A i \in 2..k : z[i] = x[i - 1]
  <2> DEFINE q == SubSeq(x, 1, k - 1)
  <2>1. /\ z \in Seq(Tokens) /\ Len(z) = Len(q) + 1 /\ z[1] = "bom"
        /\ \A i \in 2..(Len(q) + 1) : z[i] = q[i - 1]
    BY <1>2, <1>3, Zenon
  <2> HIDE DEF q, z
  <2>2. /\ Len(q) + 1 = k /\ \A i \in 2..k : i - 1 \in 1..(k - 1)
    BY <1>3 DEF q
  <2> QED
    BY <1>3, <2>1, <2>2, Zenon DEF q
<1>5. /\ y \in Seq(Tokens) /\ Len(y) = k /\ y[1] = "bom" /\ \A i \in 2..k : y[i] = x[i - 1]
  <2> DEFINE w == b \o x
  <2>1. /\ w \in Seq(Tokens) /\ Len(w) = Len(x) + 1 /\ w[1] = "bom"
        /\ \A i \in 2..(Len(x) + 1) : w[i] = x[i - 1]
    BY <1>2, Zenon
  <2> HIDE DEF w
  <2>2. y = SubSeq(w, 1, k)
    BY Zenon DEF w
  <2> HIDE DEF y
  <2> QED
    BY <2>1, <2>2
<1> HIDE DEF y, z
<1>6. \A i \in 1..k : y[i] = z[i]
  <2>1. \A i \in 1..k : i = 1 \/ i \in 2..k
    OBVIOUS
  <2> QED
    BY <1>4, <1>5, <2>1, Zenon
<1>7. y = z
  BY <1>4, <1>5, <1>6, SeqEqual
<1> QED
  BY <1>5, <1>7 DEF y, z, b

\* x is what there is of the file of a table after k tokens: m tokens of its text.
CutAt(x, b, table, k, m) ==
    LET text == Text(All(table))
    IN  /\ x \in Seq(Tokens) /\ m \in 0..Len(text)
        /\ Imported(x) = Imported(SubSeq(text, 1, m))
        /\ k = Len(Exported(b, table)) => m = Len(text)
        /\ b => x = <<>> \/ x[1] = "bom"
        /\ ~b => x = SubSeq(text, 1, m)

LEMMA CutText ==
    ASSUME NEW b \in BOOLEAN, NEW table \in Seq(Row), NEW k \in 0..Len(Exported(b, table)),
           NEW x, x = SubSeq(Exported(b, table), 1, k)
    PROVE  \E m \in Nat : CutAt(x, b, table, k, m)
<1> DEFINE text == Text(All(table))
           file0 == Exported(b, table)
<1>1. text \in Seq(Tokens) /\ Len(text) \in Nat
  <2>1. text \in Seq(Tokens)
    BY AllType, FeedTable, Zenon
  <2> HIDE DEF text
  <2> QED
    BY <2>1
<1>2. \A m \in 0..Len(text) : SubSeq(text, 1, m) \in Seq(Tokens)
  <2> HIDE DEF text
  <2> QED
    BY <1>1
<1>3. SubSeq(text, 1, 0) = <<>> /\ <<>> \in Seq(Tokens)
  <2> HIDE DEF text
  <2> QED
    BY <1>1, SubSeqEmpty
<1>4. CASE ~b
  <2>1. file0 = text
    <3>1. file0 = <<>> \o text
      BY <1>4, Zenon DEF Exported
    <3> HIDE DEF file0, text
    <3> QED
      BY <1>1, <3>1
  <2>2. k \in 0..Len(text) /\ k \in Nat
    <3>1. k \in 0..Len(text)
      BY <2>1, Zenon
    <3> HIDE DEF text
    <3> QED
      BY <1>1, <3>1
  <2> HIDE DEF text
  <2>3. CutAt(x, b, table, k, k)
    BY <1>2, <1>4, <2>1, <2>2, Zenon DEF CutAt, text
  <2> QED
    BY <2>2, <2>3, Zenon
<1>5. CASE b
  <2>1. file0 = <<"bom">> \o text
    BY <1>5, Zenon DEF Exported
  <2>2. Len(file0) = Len(text) + 1
    BY <1>1, <2>1, BomFirst, Zenon
  <2>3. CASE k = 0
    <3>1. Len(file0) # 0
      <4> HIDE DEF text, file0
      <4> QED
        BY <1>1, <2>2
    <3>2. file0 \in Seq(Tokens)
      BY <1>1, <2>1, BomFirst, Zenon
    <3>3. x = <<>>
      <4>1. x = SubSeq(file0, 1, 0)
        BY <2>3
      <4> HIDE DEF file0
      <4> QED
        BY <3>2, <4>1
    <3>4. 0 \in 0..Len(text) /\ 0 \in Nat
      <4> HIDE DEF text
      <4> QED
        BY <1>1
    <3> HIDE DEF text
    <3>5. CutAt(x, b, table, k, 0)
      BY <1>3, <1>5, <2>3, <3>1, <3>3, <3>4, Zenon DEF CutAt, text
    <3> QED
      BY <3>4, <3>5, Zenon
  <2>4. CASE k # 0
    <3> DEFINE m == k - 1
    <3>1. k \in 1..(Len(text) + 1)
      <4>1. k \in 0..(Len(text) + 1)
        BY <2>2, Zenon
      <4> HIDE DEF text
      <4> QED
        BY <1>1, <2>4, <4>1
    <3>2. m \in 0..Len(text) /\ m \in Nat /\ (k = Len(text) + 1 => m = Len(text))
      <4> HIDE DEF text
      <4> QED
        BY <1>1, <3>1
    <3>3. /\ x = <<"bom">> \o SubSeq(text, 1, m) /\ x[1] = "bom"
      <4> HIDE DEF text
      <4>1. /\ SubSeq(<<"bom">> \o text, 1, k) = <<"bom">> \o SubSeq(text, 1, k - 1)
            /\ SubSeq(<<"bom">> \o text, 1, k)[1] = "bom"
        BY <1>1, <3>1, AfterBom, Zenon
      <4>2. x = SubSeq(<<"bom">> \o text, 1, k)
        BY <2>1, Zenon DEF text
      <4> QED
        BY <4>1, <4>2, Zenon
    <3> HIDE DEF m, text
    <3>4. x \in Seq(Tokens) /\ Imported(x) = Imported(SubSeq(text, 1, m))
      BY <1>2, <3>2, <3>3, ImportBom, Zenon
    <3>5. CutAt(x, b, table, k, m)
      BY <1>5, <2>2, <3>2, <3>3, <3>4, Zenon DEF CutAt, text
    <3> QED
      BY <3>2, <3>5, Zenon
  <2> QED
    BY <2>3, <2>4
<1> QED
  BY <1>4, <1>5

\* The texts of CutAt begin as a table.
LEMMA CutGood ==
    ASSUME NEW table \in Seq(Row), NEW m \in 0..Len(Text(All(table))), NEW y, y = SubSeq(Text(All(table)), 1, m)
    PROVE  y \in Seq(Tokens) /\ Good(y)
<1>1. Text(All(table)) \in Seq(Tokens) /\ Good(Text(All(table)))
  BY AllType, FeedTable, Zenon
<1> QED
  BY <1>1, GoodPrefix, Zenon

-----------------------------------------------------------------------------
(* The table that the script reads back.                                   *)

Padded(fields) == [c \in 1..Columns |-> IF c \in DOMAIN fields THEN fields[c] ELSE Blank]
Partial == {f \in Seq(Field) : \A c \in 1..Len(f) : c \in 1..5 /\ f[c] \in Seq(Alphabet(c))}

LEMMA ImportCsvIs ==
    ASSUME NEW x, NEW all, all = Imported(x).table \o Open(Imported(x))
    PROVE  ImportCsv(x) = IF all = <<>> THEN <<>> ELSE [i \in 1..(Len(all) - 1) |-> Padded(all[i + 1])]
  BY Zenon DEF ImportCsv, Imported, Open, Padded

LEMMA PaddedType ==
    ASSUME NEW f \in Partial
    PROVE  Padded(f) \in Row
<1>1. f \in Seq(Field) /\ DOMAIN f = 1..Len(f) /\ \A c \in 1..Len(f) : f[c] \in Seq(Alphabet(c))
  BY DEF Partial
<1>2. \A c : Blank \in Seq(Alphabet(c))
  BY DEF Blank
<1>3. ASSUME NEW c \in 1..5 PROVE Padded(f)[c] \in Seq(Alphabet(c))
  <2>1. Padded(f)[c] = IF c \in DOMAIN f THEN f[c] ELSE Blank
    BY DEF Padded, Columns
  <2> QED
    BY <1>1, <1>2, <2>1, Zenon
<1>4. Padded(f) \in [1..5 -> Field]
  <2>1. \A c \in 1..5 : Padded(f)[c] \in Field
    BY <1>3, AlphabetTokens
  <2>2. Padded(f) = [c \in 1..5 |-> Padded(f)[c]]
    BY DEF Padded, Columns
  <2> QED
    BY <2>1, <2>2, Zenon
<1> QED
  BY <1>3, <1>4, Zenon DEF Row, Columns

LEMMA ImportCsvType ==
    ASSUME NEW x \in Seq(Tokens), Good(x)
    PROVE  ImportCsv(x) \in Seq(Row)
<1> DEFINE s == Imported(x)
           all == s.table \o Open(s)
<1>1. Typed(s)
  BY TypedHolds, Zenon
<1>2. Row \subseteq Partial
  <2> SUFFICES ASSUME NEW row \in Row PROVE row \in Partial
    OBVIOUS
  <2>1. row \in Seq(Field) /\ Len(row) = 5
    BY RowFields, Zenon
  <2>2. \A c \in 1..5 : row[c] \in Seq(Alphabet(c))
    BY RowField, Zenon
  <2> QED
    BY <2>1, <2>2, Zenon DEF Partial
<1>3. Append(s.fields, s.current) \in Partial
  <2> DEFINE n == Len(s.fields)
             f == Append(s.fields, s.current)
  <2>0. /\ s.fields \in Seq(Field) /\ n \in 0..4
        /\ \A c \in 1..n : s.fields[c] \in Seq(PlainTokens)
        /\ s.current \in Seq(Alphabet(n + 1))
    BY <1>1, Zenon DEF Typed
  <2>1. /\ s.fields \in Seq(Field) /\ n \in 0..4 /\ n \in Nat
        /\ \A c \in 1..n : s.fields[c] \in Seq(PlainTokens)
        /\ s.current \in Seq(Alphabet(n + 1))
    <3> HIDE DEF n
    <3>1. n \in Nat
      BY <2>0
    <3> QED
      BY <2>0, <3>1, Zenon
  <2>2. s.current \in Field
    BY <2>1, AlphabetTokens
  <2>3. f \in Seq(Field) /\ Len(f) = n + 1 /\ f[n + 1] = s.current /\ \A c \in 1..n : f[c] = s.fields[c]
    BY <2>1, <2>2, AppendedField, Zenon
  <2> HIDE DEF f, n
  <2>4. ASSUME NEW c \in 1..Len(f) PROVE c \in 1..5 /\ f[c] \in Seq(Alphabet(c))
    <3>1. c \in 1..5 /\ (c = n + 1 \/ (c \in 1..n /\ c \in 1..4))
      BY <2>1, <2>3
    <3>2. c \in 1..4 => Alphabet(c) = PlainTokens
      BY DEF Alphabet, Note
    <3> QED
      BY <2>1, <2>3, <3>1, <3>2, Zenon
  <2> QED
    BY <2>3, <2>4, Zenon DEF Partial, f
<1>4. all \in Seq(Partial)
  <2>1. s.table \in Seq(Partial)
    BY <1>1, <1>2, SeqMonotonic, Zenon DEF Typed
  <2>2. Open(s) \in Seq(Partial)
    <3>1. <<>> \in Seq(Partial) /\ \A f \in Partial : <<f>> \in Seq(Partial)
      OBVIOUS
    <3> QED
      BY <1>3, <3>1, Zenon DEF Open
  <2> HIDE DEF s
  <2> QED
    BY <2>1, <2>2
<1>5. ImportCsv(x) = IF all = <<>> THEN <<>> ELSE [i \in 1..(Len(all) - 1) |-> Padded(all[i + 1])]
  BY ImportCsvIs, Zenon
<1> HIDE DEF all
<1>6. CASE all = <<>>
  BY <1>5, <1>6
<1>7. CASE all # <<>>
  <2>1. Len(all) - 1 \in Nat /\ \A i \in 1..(Len(all) - 1) : all[i + 1] \in Partial
    BY <1>4, <1>7
  <2>2. \A i \in 1..(Len(all) - 1) : Padded(all[i + 1]) \in Row
    BY <2>1, PaddedType, Zenon
  <2>3. ImportCsv(x) = [i \in 1..(Len(all) - 1) |-> Padded(all[i + 1])]
    BY <1>5, <1>7, Zenon
  <2> QED
    BY <2>1, <2>2, <2>3
<1> QED
  BY <1>6, <1>7

\* Import-Csv reads what Export-Csv wrote.
LEMMA RoundTrip ==
    ASSUME NEW table \in Seq(Row), NEW x, Imported(x) = Imported(Text(All(table)))
    PROVE  ImportCsv(x) = table
<1> DEFINE all == All(table)
           s == Imported(x)
<1>1. /\ all \in Seq(Row) /\ Len(all) = Len(table) + 1 /\ all # <<>>
      /\ \A i \in 1..Len(table) : all[i + 1] = table[i]
  BY AllType, Zenon
<1>2. s = Reader(all, <<>>, <<>>, FALSE, FALSE)
  BY <1>1, FeedTable, Zenon
<1>3. s.table = all /\ s.fields = <<>> /\ s.current = <<>>
  <2> HIDE DEF all, s
  <2> QED
    BY <1>2 DEF Reader
<1>4. all = s.table \o Open(s)
  <2>1. Open(s) = <<>>
    BY <1>3, Zenon DEF Open
  <2>2. all = all \o <<>>
    BY <1>1, ConcatEmptySeq, Zenon
  <2> QED
    BY <1>3, <2>1, <2>2, Zenon
<1>5. ImportCsv(x) = Data(all)
  BY <1>1, <1>4, ImportRows, Zenon
<1> HIDE DEF all
<1>6. Data(all) = table
  <2>1. Len(table) \in Nat /\ Len(all) - 1 = Len(table)
    BY <1>1
  <2>2. /\ Data(all) \in Seq(Row) /\ Len(Data(all)) = Len(table)
        /\ \A i \in 1..Len(table) : Data(all)[i] = table[i]
    BY <1>1, <2>1, DataType, Zenon
  <2> QED
    BY <2>2, SeqEqual
<1> QED
  BY <1>5, <1>6

-----------------------------------------------------------------------------
(* What the file is while run-benchmark-plan.ps1 works on it.              *)

LEMMA ExportedType ==
    ASSUME NEW b \in BOOLEAN, NEW table \in Seq(Row)
    PROVE  /\ Exported(b, table) \in Seq(Tokens) /\ Len(Exported(b, table)) \in Nat \ {0}
           /\ Len(Text(All(table))) \in Nat /\ Text(All(table)) \in Seq(Tokens)
<1> DEFINE all == All(table)
           text == Text(all)
<1>1. all \in Seq(Row) /\ all # <<>>
  BY AllType, Zenon
<1>2. text \in Seq(Tokens) /\ Imported(text) = Reader(all, <<>>, <<>>, FALSE, FALSE)
  BY <1>1, FeedTable, Zenon
<1>3. text # <<>>
  <2>1. Reader(all, <<>>, <<>>, FALSE, FALSE) # Reader(<<>>, <<>>, <<>>, FALSE, FALSE)
    <3> HIDE DEF all
    <3> QED
      BY <1>1 DEF Reader
  <2> QED
    BY <1>2, <2>1, EmptyText, StartReader, Zenon
<1> HIDE DEF all
<1>4. Len(text) \in Nat \ {0}
  <2> HIDE DEF text
  <2> QED
    BY <1>2, <1>3
<1>5. CASE b
  <2>1. Exported(b, table) = <<"bom">> \o text
    BY <1>5, Zenon DEF Exported, all
  <2>2. <<"bom">> \o text \in Seq(Tokens) /\ Len(<<"bom">> \o text) = Len(text) + 1
    BY <1>2, BomFirst, Zenon
  <2>3. Len(text) + 1 \in Nat \ {0}
    BY <1>4
  <2> QED
    BY <1>2, <1>4, <2>1, <2>2, <2>3, Zenon DEF all
<1>6. CASE ~b
  <2>1. Exported(b, table) = <<>> \o text
    BY <1>6, Zenon DEF Exported, all
  <2>2. <<>> \o text = text
    <3> HIDE DEF text
    <3> QED
      BY <1>2
  <2> QED
    BY <1>2, <1>4, <2>1, <2>2, Zenon DEF all
<1> QED
  BY <1>5, <1>6

LEMMA Beginnings ==
    ASSUME NEW e \in Seq(Tokens)
    PROVE  /\ Len(e) \in Nat /\ SubSeq(e, 1, 0) = <<>> /\ SubSeq(e, 1, Len(e)) = e
           /\ \A k \in 0..Len(e) : SubSeq(e, 1, k) \in Seq(Tokens) /\ Len(SubSeq(e, 1, k)) = k
<1>1. SubSeq(e, 1, 0) = <<>> /\ SubSeq(e, 1, Len(e)) = e
  BY SubSeqEmpty, SubSeqFull
<1> QED
  BY <1>1

\* The columns of a table that no program changes, and what each run came to.
Planned(table, o) ==
    /\ Len(table) = Len(Plan)
    /\ \A i \in 1..Len(Plan) : /\ table[i][Id] = <<RunIds[i]>> /\ table[i][Model] = <<Plan[i]>>
                               /\ table[i][Success] = o[i]

\* The file is the first k tokens of what is written for the table.
Kept(f, b, r, rs, c, o, table, k) ==
    LET e == Exported(b, table)
    IN  /\ table \in Seq(Row) /\ k \in 0..Len(e) /\ f = SubSeq(e, 1, k)
        /\ r = "exporting" => table = rs /\ k # Len(e)
        /\ ~c => /\ Planned(table, o)
                 /\ r # "exporting" => k = Len(e)
                 /\ r = "running" => rs = table

KeptFor(f, b, r, rs, c, o) == \E table, k : Kept(f, b, r, rs, c, o, table, k)

PlanInv ==
    /\ bom \in BOOLEAN /\ cut \in BOOLEAN /\ runner \in {"off", "running", "exporting"}
    /\ rows \in Seq(Row) /\ selected \in Seq(DOMAIN rows)
    /\ outcome \in [Runs -> Field]
    /\ KeptFor(file, bom, runner, rows, cut, outcome)

LEMMA FullFile ==
    ASSUME NEW b \in BOOLEAN, NEW table \in Seq(Row), NEW r, r # "exporting", NEW rs, NEW c \in BOOLEAN, NEW o,
           ~c => Planned(table, o) /\ (r = "running" => rs = table)
    PROVE  KeptFor(Exported(b, table), b, r, rs, c, o)
<1> DEFINE e == Exported(b, table)
<1>1. e = SubSeq(e, 1, Len(e)) /\ Len(e) \in 0..Len(e)
  <2>1. e \in Seq(Tokens) /\ Len(e) \in Nat
    BY ExportedType, Zenon
  <2> HIDE DEF e
  <2>2. Len(e) \in 0..Len(e)
    BY <2>1
  <2> QED
    BY <2>1, <2>2, Beginnings, Zenon
<1>2. Kept(e, b, r, rs, c, o, table, Len(e))
  BY <1>1, Zenon DEF Kept
<1> QED
  BY <1>2, Zenon DEF KeptFor

\* The text that is imported begins as one that was written.
LEMMA FileGood ==
    ASSUME NEW f, NEW b \in BOOLEAN, NEW r, NEW rs, NEW c, NEW o, NEW table, NEW k,
           Kept(f, b, r, rs, c, o, table, k)
    PROVE  \E m \in Nat : /\ CutAt(f, b, table, k, m)
                          /\ SubSeq(Text(All(table)), 1, m) \in Seq(Tokens) /\ Good(SubSeq(Text(All(table)), 1, m))
<1>1. /\ table \in Seq(Row) /\ k \in 0..Len(Exported(b, table)) /\ f = SubSeq(Exported(b, table), 1, k)
  BY Zenon DEF Kept
<1>2. PICK m \in Nat : CutAt(f, b, table, k, m)
  BY <1>1, CutText, Zenon
<1>3. m \in 0..Len(Text(All(table)))
  BY <1>2, Zenon DEF CutAt
<1> QED
  BY <1>1, <1>2, <1>3, CutGood, Zenon

\* What the script reads from the file is a table, and the table that was written last when all of it is there.
LEMMA StartReads ==
    ASSUME NEW f, NEW b \in BOOLEAN, NEW r, NEW rs, NEW c, NEW o, NEW table, NEW k,
           Kept(f, b, r, rs, c, o, table, k)
    PROVE  ImportCsv(f) \in Seq(Row) /\ (k = Len(Exported(b, table)) => ImportCsv(f) = table)
<1>1. table \in Seq(Row)
  BY Zenon DEF Kept
<1>2. PICK m \in Nat : /\ CutAt(f, b, table, k, m)
                       /\ SubSeq(Text(All(table)), 1, m) \in Seq(Tokens) /\ Good(SubSeq(Text(All(table)), 1, m))
  BY FileGood, Zenon
<1> DEFINE y == SubSeq(Text(All(table)), 1, m)
<1>3. Imported(f) = Imported(y) /\ (k = Len(Exported(b, table)) => m = Len(Text(All(table))))
  BY <1>2, Zenon DEF CutAt
<1>4. ImportCsv(f) = ImportCsv(y)
  BY <1>3, Zenon DEF ImportCsv, Imported
<1>5. ImportCsv(y) \in Seq(Row)
  BY <1>2, ImportCsvType, Zenon
<1>6. ASSUME k = Len(Exported(b, table)) PROVE ImportCsv(f) = table
  <2>1. y = Text(All(table))
    BY <1>1, <1>3, <1>6, ExportedType, Beginnings, Zenon
  <2> QED
    BY <1>1, <1>3, <2>1, RoundTrip, Zenon
<1> QED
  BY <1>4, <1>5, <1>6, Zenon

-----------------------------------------------------------------------------
(* PlanInv is inductive.                                                   *)

LEMMA PlanTokens ==
    /\ \A w \in Words : w \in PlainTokens
    /\ \A w \in {"true", "false", "dry-run", "10"} : w \in PlainTokens
    /\ "word" \in NoteTokens /\ Structure \subseteq NoteTokens
<1>1. \A w \in Words : w \notin Structure /\ w # "bom"
  BY Zenon DEF Words
<1>2. \A w \in Words : w # "quote" /\ w # "newline" /\ w # "bom" /\ w \in Tokens
  BY <1>1, Zenon DEF Structure, Tokens
<1>3. \A w \in {"true", "false", "dry-run", "10"} : w \in Written
  BY DEF Written
<1>4. \A w \in {"true", "false", "dry-run", "10"} : w # "quote" /\ w # "newline" /\ w # "bom"
  OBVIOUS
<1>5. \A w \in {"true", "false", "dry-run", "10"} : w \in PlainTokens
  BY <1>3, <1>4 DEF PlainTokens, Tokens
<1>6. \A w \in Words : w \in PlainTokens
  BY <1>2 DEF PlainTokens
<1>7. "word" \in NoteTokens /\ Structure \subseteq NoteTokens
  BY DEF NoteTokens, Structure, Tokens, Written
<1> QED
  BY <1>5, <1>6, <1>7

LEMMA OneToken == \A T : \A t \in T : <<t>> \in Seq(T)
  OBVIOUS

LEMMA PlanType ==
    /\ Len(Plan) \in Nat /\ Runs = 1..Len(Plan)
    /\ \A i \in 1..Len(Plan) : RunIds[i] \in Words /\ Plan[i] \in Words
    /\ Notes \subseteq Seq(NoteTokens)
<1>1. RunIds \in Seq(Words) /\ Plan \in Seq(Words) /\ Len(RunIds) = Len(Plan)
  BY PlanAssumption, Zenon
<1>2. Notes \subseteq AnyText
  BY PlanAssumption, Zenon
<1>3. \A t : t \in STRING \ {"bom"} => t \in NoteTokens
  BY Zenon DEF NoteTokens, Tokens, Words
<1>4. AnyText \subseteq Seq(NoteTokens)
  <2>1. STRING \ {"bom"} \subseteq NoteTokens
    BY <1>3, Zenon
  <2> QED
    BY <2>1, SeqMonotonic, Zenon DEF AnyText
<1>5. \A T : \A a, b \in Seq(T) : Len(a) = Len(b) =>
          Len(b) \in Nat /\ DOMAIN b = 1..Len(b) /\ \A i \in 1..Len(b) : a[i] \in T /\ b[i] \in T
  OBVIOUS
<1>6. /\ Len(Plan) \in Nat /\ DOMAIN Plan = 1..Len(Plan)
      /\ \A i \in 1..Len(Plan) : RunIds[i] \in Words /\ Plan[i] \in Words
  BY <1>1, <1>5, Zenon
<1> QED
  BY <1>2, <1>4, <1>6, Zenon DEF Runs

\* A row of five fields.
LEMMA RowOf ==
    ASSUME NEW u1 \in Seq(PlainTokens), NEW u2 \in Seq(PlainTokens), NEW u3 \in Seq(PlainTokens),
           NEW u4 \in Seq(PlainTokens), NEW u5 \in Seq(NoteTokens)
    PROVE  <<u1, u2, u3, u4, u5>> \in Row
<1> DEFINE row == <<u1, u2, u3, u4, u5>>
<1>1. /\ row[1] = u1 /\ row[2] = u2 /\ row[3] = u3 /\ row[4] = u4 /\ row[5] = u5
      /\ row = [c \in 1..5 |-> row[c]]
  OBVIOUS
<1> HIDE DEF row
<1>2. \A c \in 1..5 : row[c] \in Seq(Alphabet(c))
  <2>1. \A c \in 1..4 : Alphabet(c) = PlainTokens
    BY DEF Alphabet, Note
  <2>2. Alphabet(5) = NoteTokens
    BY DEF Alphabet, Note
  <2>3. \A c \in 1..5 : c = 1 \/ c = 2 \/ c = 3 \/ c = 4 \/ c = 5
    OBVIOUS
  <2>4. 1 \in 1..4 /\ 2 \in 1..4 /\ 3 \in 1..4 /\ 4 \in 1..4
    OBVIOUS
  <2> QED
    BY <1>1, <2>1, <2>2, <2>3, <2>4, Zenon
<1>3. row \in [1..5 -> Field]
  <2>1. \A c \in 1..5 : row[c] \in Field
    BY <1>2, AlphabetTokens
  <2> QED
    BY <1>1, <2>1, Zenon
<1>4. row \in Row
  BY <1>2, <1>3, Zenon DEF Row, Columns
<1> QED
  BY <1>4, Zenon DEF row

LEMMA FirstRows ==
    ASSUME NEW i \in 1..Len(Plan)
    PROVE  /\ Completed(i) \in Row /\ Pending(i) \in Row
           /\ Completed(i)[Id] = <<RunIds[i]>> /\ Completed(i)[Model] = <<Plan[i]>>
           /\ Pending(i)[Id] = <<RunIds[i]>> /\ Pending(i)[Model] = <<Plan[i]>>
<1>1. /\ <<RunIds[i]>> \in Seq(PlainTokens) /\ <<Plan[i]>> \in Seq(PlainTokens)
  BY PlanType, PlanTokens, OneToken, Zenon
<1>2. /\ <<"10">> \in Seq(PlainTokens) /\ <<"true">> \in Seq(PlainTokens) /\ <<"word">> \in Seq(NoteTokens)
  BY PlanTokens, OneToken
<1>3. <<>> \in Seq(PlainTokens) /\ <<>> \in Seq(NoteTokens)
  OBVIOUS
<1>4. Completed(i) = <<<<RunIds[i]>>, <<Plan[i]>>, <<"10">>, <<"true">>, <<"word">>>>
  BY Zenon DEF Completed, Number
<1>5. Pending(i) = <<<<RunIds[i]>>, <<Plan[i]>>, <<>>, <<>>, <<>>>>
  BY Zenon DEF Pending, Blank
<1>6. Completed(i) \in Row /\ Pending(i) \in Row
  <2>1. <<<<RunIds[i]>>, <<Plan[i]>>, <<"10">>, <<"true">>, <<"word">>>> \in Row
    BY <1>1, <1>2, RowOf
  <2>2. <<<<RunIds[i]>>, <<Plan[i]>>, <<>>, <<>>, <<>>>> \in Row
    BY <1>1, <1>3, RowOf
  <2> QED
    BY <1>4, <1>5, <2>1, <2>2, Zenon
<1>7. /\ Completed(i)[Id] = <<RunIds[i]>> /\ Completed(i)[Model] = <<Plan[i]>>
      /\ Pending(i)[Id] = <<RunIds[i]>> /\ Pending(i)[Model] = <<Plan[i]>>
  BY <1>4, <1>5 DEF Id, Model
<1> QED
  BY <1>6, <1>7, Zenon

LEMMA MapType == \A S, n : n \in Nat => \A g : (\A i \in 1..n : g[i] \in S) /\ g = [i \in 1..n |-> g[i]]
                     => g \in Seq(S) /\ Len(g) = n
  OBVIOUS

LEMMA PlanInit == Init => PlanInv
<1> SUFFICES ASSUME Init PROVE PlanInv
  OBVIOUS
<1>1. PICK n \in 1..(Len(Plan) + 1) : rows = [i \in Runs |-> IF i < n THEN Completed(i) ELSE Pending(i)]
  BY Zenon DEF Init
<1>2. /\ bom \in BOOLEAN /\ file = ExportCsv(rows) /\ runner = "off" /\ selected = <<>>
      /\ outcome = [i \in Runs |-> rows[i][Success]] /\ cut = FALSE
  BY Zenon DEF Init
<1>3. \A i \in 1..Len(Plan) : rows[i] \in Row /\ rows[i][Id] = <<RunIds[i]>> /\ rows[i][Model] = <<Plan[i]>>
  <2>1. \A i \in 1..Len(Plan) : rows[i] = Completed(i) \/ rows[i] = Pending(i)
    BY <1>1, PlanType, Zenon
  <2> QED
    BY <2>1, FirstRows, Zenon
<1>4. rows \in Seq(Row) /\ Len(rows) = Len(Plan)
  <2>1. rows = [i \in 1..Len(Plan) |-> rows[i]]
    BY <1>1, PlanType, Zenon
  <2> QED
    BY <1>3, <2>1, PlanType, MapType, Zenon
<1>5. Planned(rows, outcome)
  BY <1>2, <1>3, <1>4, PlanType, Zenon DEF Planned
<1>6. outcome \in [Runs -> Field]
  <2>1. \A row \in Row : row[Success] \in Field
    BY DEF Row, Columns, Success
  <2>2. \A i \in Runs : rows[i][Success] \in Field
    BY <1>3, <2>1, PlanType, Zenon
  <2> QED
    BY <1>2, <2>2
<1>7. KeptFor(file, bom, runner, rows, cut, outcome)
  <2>1. file = Exported(bom, rows)
    BY <1>2, ExportedIs, Zenon
  <2>2. runner # "exporting" /\ runner # "running" /\ cut \in BOOLEAN
    BY <1>2
  <2>3. KeptFor(Exported(bom, rows), bom, runner, rows, cut, outcome)
    BY <1>2, <1>4, <1>5, <2>2, FullFile, Zenon
  <2> QED
    BY <2>1, <2>3, Zenon
<1>8. selected \in Seq(DOMAIN rows) /\ runner \in {"off", "running", "exporting"} /\ cut \in BOOLEAN
  <2>1. <<>> \in Seq(DOMAIN rows)
    OBVIOUS
  <2>2. runner \in {"off", "running", "exporting"} /\ cut \in BOOLEAN
    BY <1>2
  <2> QED
    BY <1>2, <2>1, <2>2, Zenon
<1> QED
  BY <1>2, <1>4, <1>6, <1>7, <1>8, Zenon DEF PlanInv

LEMMA StepStart ==
    ASSUME PlanInv, NEW ids, NEW include \in BOOLEAN, Start(ids, include)
    PROVE  PlanInv'
<1>1. /\ bom \in BOOLEAN /\ cut \in BOOLEAN /\ outcome \in [Runs -> Field]
      /\ KeptFor(file, bom, runner, rows, cut, outcome)
  BY Zenon DEF PlanInv
<1>2. /\ runner = "off" /\ rows' = ImportCsv(file) /\ runner' = "running"
      /\ file' = file /\ bom' = bom /\ outcome' = outcome /\ cut' = cut
  BY Zenon DEF Start
<1>3. PICK table, k : Kept(file, bom, runner, rows, cut, outcome, table, k)
  BY <1>1, Zenon DEF KeptFor
<1> DEFINE e == Exported(bom, table)
           read == ImportCsv(file)
<1>4. /\ table \in Seq(Row) /\ k \in 0..Len(e) /\ file = SubSeq(e, 1, k)
      /\ ~cut => Planned(table, outcome) /\ k = Len(e)
  <2>1. runner # "exporting"
    BY <1>2
  <2> QED
    BY <1>3, <2>1, Zenon DEF Kept
<1>5. read \in Seq(Row) /\ (k = Len(e) => read = table)
  BY <1>1, <1>3, StartReads, Zenon
<1>6. Kept(file, bom, "running", read, cut, outcome, table, k)
  <2>1. "running" # "exporting"
    OBVIOUS
  <2> QED
    BY <1>4, <1>5, <2>1, Zenon DEF Kept
<1>7. KeptFor(file', bom', runner', rows', cut', outcome')
  BY <1>2, <1>6, Zenon DEF KeptFor
<1>8. selected' \in Seq(DOMAIN rows')
  <2> DEFINE places == {i \in DOMAIN read : /\ ids = {} \/ read[i][Id] \in ids
                                            /\ include \/ read[i][Success] = Blank}
  <2>1. selected' = At([i \in DOMAIN read |-> i], places)
    BY Zenon DEF Start
  <2> HIDE DEF read, places
  <2>2. \A q \in Seq(Row) : [i \in DOMAIN q |-> i] \in Seq(DOMAIN q)
    OBVIOUS
  <2>3. [i \in DOMAIN read |-> i] \in Seq(DOMAIN read)
    BY <1>5, <2>2, Zenon
  <2>4. selected' \in Seq(DOMAIN read)
    BY <2>1, <2>3, AtType, Zenon
  <2> QED
    BY <1>2, <2>4, Zenon DEF read
<1>9. runner' \in {"off", "running", "exporting"}
  BY <1>2
<1> QED
  BY <1>1, <1>2, <1>5, <1>7, <1>8, <1>9, Zenon DEF PlanInv

\* A row whose outcome, metric and note are written over.
Rewritten(row, success, metric, note) ==
    [[[row EXCEPT ![Success] = success] EXCEPT ![Metric] = metric] EXCEPT ![Note] = note]

CameOut(r, row, success) == r \in Row /\ r[Id] = row[Id] /\ r[Model] = row[Model] /\ r[Success] = success

LEMMA RowWith ==
    ASSUME NEW row \in Row, NEW success \in Seq(PlainTokens), NEW metric \in Seq(PlainTokens), NEW note \in Seq(NoteTokens)
    PROVE  CameOut(Rewritten(row, success, metric, note), row, success)
<1> DEFINE r == Rewritten(row, success, metric, note)
<1>1. row \in [1..5 -> Field] /\ \A c \in 1..5 : row[c] \in Seq(Alphabet(c))
  BY Zenon DEF Row, Columns
<1>2. /\ r = [c \in 1..5 |-> r[c]]
      /\ r[1] = row[1] /\ r[2] = row[2] /\ r[3] = metric /\ r[4] = success /\ r[5] = note
  <2>1. r = [[[row EXCEPT ![4] = success] EXCEPT ![3] = metric] EXCEPT ![5] = note]
    BY Zenon DEF Rewritten, Success, Metric, Note
  <2>2. DOMAIN row = 1..5
    BY <1>1, Zenon
  <2> HIDE DEF r
  <2>3. r = [c \in 1..5 |-> IF c = 5 THEN note ELSE IF c = 3 THEN metric ELSE IF c = 4 THEN success ELSE row[c]]
    BY <2>1, <2>2
  <2>4. r[1] = row[1] /\ r[2] = row[2] /\ r[3] = metric /\ r[4] = success /\ r[5] = note
    BY <2>3
  <2>5. r = [c \in 1..5 |-> r[c]]
    BY <2>3
  <2> QED
    BY <2>4, <2>5, Zenon
<1> HIDE DEF r
<1>3. \A c \in 1..5 : r[c] \in Seq(Alphabet(c))
  <2>0. /\ r[1] = row[1] /\ r[2] = row[2] /\ r[3] = metric /\ r[4] = success /\ r[5] = note
    BY <1>2, Zenon
  <2>1. \A c \in 1..4 : Alphabet(c) = PlainTokens
    BY DEF Alphabet, Note
  <2>2. Alphabet(5) = NoteTokens
    BY DEF Alphabet, Note
  <2>3. \A c \in 1..5 : c = 1 \/ c = 2 \/ c = 3 \/ c = 4 \/ c = 5
    OBVIOUS
  <2>4. 1 \in 1..4 /\ 2 \in 1..4 /\ 3 \in 1..4 /\ 4 \in 1..4 /\ 1 \in 1..5 /\ 2 \in 1..5
    OBVIOUS
  <2> QED
    BY <1>1, <2>0, <2>1, <2>2, <2>3, <2>4, Zenon
<1>4. r \in [1..5 -> Field]
  <2>1. \A c \in 1..5 : r[c] \in Field
    BY <1>3, AlphabetTokens
  <2> QED
    BY <1>2, <2>1, Zenon
<1>5. r[Id] = row[Id] /\ r[Model] = row[Model] /\ r[Success] = success
  BY <1>2 DEF Id, Model, Success
<1> QED
  BY <1>3, <1>4, <1>5, Zenon DEF Row, Columns, CameOut, r

LEMMA RowPlace ==
    ASSUME NEW i \in DOMAIN rows, rows \in Seq(Row), NEW r \in Row
    PROVE  /\ [rows EXCEPT ![i] = r] \in Seq(Row) /\ DOMAIN [rows EXCEPT ![i] = r] = DOMAIN rows
           /\ Len([rows EXCEPT ![i] = r]) = Len(rows)
           /\ [rows EXCEPT ![i] = r][i] = r
           /\ \A j \in DOMAIN rows : j # i => [rows EXCEPT ![i] = r][j] = rows[j]
  OBVIOUS

LEMMA NextSelected ==
    \A S : \A q \in Seq(S) : q # <<>> => Head(q) \in S /\ Tail(q) \in Seq(S)
  OBVIOUS

LEMMA StepRowDone ==
    ASSUME PlanInv, NEW success \in {"true", "false", "dry-run"},
           NEW metric \in Seq(PlainTokens), NEW note \in Seq(NoteTokens), RowDone(success, metric, note)
    PROVE  PlanInv'
<1> DEFINE i == Head(selected)
           row == rows[i]
           r == Rewritten(row, <<success>>, metric, note)
<1>1. /\ bom \in BOOLEAN /\ cut \in BOOLEAN /\ outcome \in [Runs -> Field]
      /\ rows \in Seq(Row) /\ selected \in Seq(DOMAIN rows)
      /\ KeptFor(file, bom, runner, rows, cut, outcome)
  BY Zenon DEF PlanInv
<1>2. /\ runner = "running" /\ selected # <<>> /\ runner' = "exporting" /\ selected' = Tail(selected)
      /\ outcome' = [outcome EXCEPT ![i] = <<success>>]
      /\ file' = <<>> /\ bom' = bom /\ cut' = cut
  BY Zenon DEF RowDone
<1>3. i \in DOMAIN rows /\ selected' \in Seq(DOMAIN rows)
  BY <1>1, <1>2, NextSelected, Zenon
<1>4. row \in Row
  <2> HIDE DEF i
  <2> QED
    BY <1>1, <1>3
<1>5. rows' = [rows EXCEPT ![i] = r]
  <2>1. rows' = [rows EXCEPT ![i][Success] = <<success>>, ![i][Metric] = metric, ![i][Note] = note]
    BY Zenon DEF RowDone
  <2> HIDE DEF i
  <2> QED
    BY <1>1, <1>3, <1>4, <2>1 DEF Rewritten
<1>6. <<success>> \in Seq(PlainTokens) /\ <<success>> \in Field
  <2>1. success \in PlainTokens
    BY PlanTokens
  <2>2. <<success>> \in Seq(PlainTokens)
    BY <2>1, OneToken, Zenon
  <2>3. PlainTokens \subseteq Tokens
    BY DEF PlainTokens
  <2> QED
    BY <2>2, <2>3, SeqMonotonic, Zenon DEF Field
<1>7. r \in Row /\ r[Id] = row[Id] /\ r[Model] = row[Model] /\ r[Success] = <<success>>
  <2> HIDE DEF row
  <2> DEFINE one == <<success>>
  <2>1. one \in Seq(PlainTokens)
    BY <1>6, Zenon
  <2> HIDE DEF one
  <2>2. r = Rewritten(row, one, metric, note)
    BY Zenon DEF one
  <2> HIDE DEF r
  <2>3. CameOut(Rewritten(row, one, metric, note), row, one)
    BY <1>4, <2>1, RowWith, Zenon
  <2> QED
    BY <2>2, <2>3, Zenon DEF one, CameOut
<1> HIDE DEF r, i
<1>8. /\ rows' \in Seq(Row) /\ DOMAIN rows' = DOMAIN rows /\ Len(rows') = Len(rows) /\ rows'[i] = r
      /\ \A j \in DOMAIN rows : j # i => rows'[j] = rows[j]
  BY <1>1, <1>3, <1>5, <1>7, RowPlace, Zenon
<1>9. outcome' \in [Runs -> Field]
  BY <1>1, <1>2, <1>6
<1>10. ~cut => Planned(rows', outcome')
  <2> SUFFICES ASSUME ~cut PROVE Planned(rows', outcome')
    OBVIOUS
  <2>1. Planned(rows, outcome)
    BY <1>1, <1>2, Zenon DEF KeptFor, Kept
  <2>2. Len(rows') = Len(Plan) /\ DOMAIN rows = 1..Len(Plan)
    <3>1. Len(rows) = Len(Plan)
      BY <2>1, Zenon DEF Planned
    <3>2. DOMAIN rows = 1..Len(rows)
      BY <1>1
    <3> QED
      BY <1>8, <3>1, <3>2, Zenon
  <2>3. ASSUME NEW j \in 1..Len(Plan)
        PROVE  rows'[j][Id] = <<RunIds[j]>> /\ rows'[j][Model] = <<Plan[j]>> /\ rows'[j][Success] = outcome'[j]
    <3>1. /\ rows[j][Id] = <<RunIds[j]>> /\ rows[j][Model] = <<Plan[j]>> /\ rows[j][Success] = outcome[j]
      BY <2>1, Zenon DEF Planned
    <3>2. j \in Runs
      BY PlanType, Zenon
    <3>3. outcome'[j] = IF j = i THEN <<success>> ELSE outcome[j]
      BY <1>1, <1>2, <3>2, Zenon
    <3>4. CASE j = i
      BY <1>7, <1>8, <3>1, <3>3, <3>4, Zenon
    <3>5. CASE j # i
      BY <1>8, <2>2, <3>1, <3>3, <3>5, Zenon
    <3> QED
      BY <3>4, <3>5
  <2> QED
    BY <2>2, <2>3, Zenon DEF Planned
<1>11. KeptFor(file', bom', runner', rows', cut', outcome')
  <2> DEFINE e == Exported(bom, rows')
  <2>1. e \in Seq(Tokens) /\ Len(e) \in Nat \ {0}
    BY <1>1, <1>8, ExportedType, Zenon
  <2> HIDE DEF e
  <2>2. <<>> = SubSeq(e, 1, 0) /\ 0 \in 0..Len(e) /\ 0 # Len(e)
    <3>1. 0 \in 0..Len(e) /\ 0 # Len(e)
      BY <2>1
    <3> QED
      BY <2>1, <3>1, Beginnings, Zenon
  <2>3. "exporting" # "running"
    OBVIOUS
  <2>4. Kept(<<>>, bom, "exporting", rows', cut, outcome', rows', 0)
    BY <1>8, <1>10, <2>2, <2>3, Zenon DEF Kept, e
  <2> QED
    BY <1>2, <2>4, Zenon DEF KeptFor
<1>12. runner' \in {"off", "running", "exporting"}
  BY <1>2
<1> QED
  BY <1>1, <1>2, <1>3, <1>8, <1>9, <1>11, <1>12, Zenon DEF PlanInv

LEMMA StepRun == ASSUME PlanInv, Run PROVE PlanInv'
<1>1. /\ rows \in Seq(Row) /\ selected \in Seq(DOMAIN rows) /\ selected # <<>>
  BY Zenon DEF PlanInv, Run
<1>2. rows[Head(selected)] \in Row
  <2>1. Head(selected) \in DOMAIN rows
    BY <1>1, NextSelected, Zenon
  <2>2. \A S : \A q \in Seq(S) : \A i \in DOMAIN q : q[i] \in S
    OBVIOUS
  <2> QED
    BY <1>1, <2>1, <2>2, Zenon
<1>3. rows[Head(selected)][Metric] \in Seq(PlainTokens)
  <2>1. Metric \in 1..Columns /\ Alphabet(Metric) = PlainTokens
    BY DEF Metric, Columns, Alphabet, Note
  <2> QED
    BY <1>2, <2>1, Zenon DEF Row
<1>4. /\ Number \in Seq(PlainTokens) /\ Blank \in Seq(PlainTokens) /\ <<"word">> \in Seq(NoteTokens)
      /\ Notes \subseteq Seq(NoteTokens)
  <2>1. "10" \in PlainTokens /\ "word" \in NoteTokens
    BY PlanTokens
  <2>2. <<"10">> \in Seq(PlainTokens) /\ <<"word">> \in Seq(NoteTokens)
    BY <2>1, OneToken, Zenon
  <2>3. <<>> \in Seq(PlainTokens)
    OBVIOUS
  <2> QED
    BY <2>2, <2>3, PlanType, Zenon DEF Number, Blank
<1>5. "true" \in {"true", "false", "dry-run"} /\ "false" \in {"true", "false", "dry-run"}
      /\ "dry-run" \in {"true", "false", "dry-run"}
  OBVIOUS
<1>6. CASE Succeeds
  <2>1. PICK metric \in {Number, Blank} : RowDone("true", metric, <<"word">>)
    BY <1>6, Zenon DEF Succeeds
  <2>2. metric \in Seq(PlainTokens)
    BY <1>4, Zenon
  <2> QED
    BY <1>4, <1>5, <2>1, <2>2, StepRowDone, Zenon
<1>7. CASE Fails
  <2>1. PICK note \in Notes : RowDone("false", rows[Head(selected)][Metric], note)
    BY <1>7, Zenon DEF Fails
  <2>2. note \in Seq(NoteTokens)
    BY <1>4, Zenon
  <2> QED
    BY <1>3, <1>5, <2>1, <2>2, StepRowDone, Zenon
<1>8. CASE DryRun
  <2>1. RowDone("dry-run", rows[Head(selected)][Metric], <<"word">>)
    BY <1>8, Zenon DEF DryRun
  <2> QED
    BY <1>3, <1>4, <1>5, <2>1, StepRowDone, Zenon
<1> QED
  BY <1>6, <1>7, <1>8, Zenon DEF Run

LEMMA StepExports == ASSUME PlanInv, Exports PROVE PlanInv'
<1> DEFINE e == Exported(bom, rows)
<1>1. /\ bom \in BOOLEAN /\ cut \in BOOLEAN /\ outcome \in [Runs -> Field]
      /\ rows \in Seq(Row) /\ selected \in Seq(DOMAIN rows)
      /\ KeptFor(file, bom, runner, rows, cut, outcome)
  BY Zenon DEF PlanInv
<1>2. /\ runner = "exporting" /\ file' = SubSeq(e, 1, Len(file) + 1)
      /\ runner' = IF file' = e THEN "running" ELSE "exporting"
      /\ bom' = bom /\ rows' = rows /\ selected' = selected /\ outcome' = outcome /\ cut' = cut
  BY ExportedIs, Zenon DEF Exports
<1>3. e \in Seq(Tokens) /\ Len(e) \in Nat
  BY <1>1, ExportedType, Zenon
<1>4. PICK k \in 0..Len(e) : file = SubSeq(e, 1, k) /\ k # Len(e) /\ (~cut => Planned(rows, outcome))
  BY <1>1, <1>2, Zenon DEF KeptFor, Kept
<1> HIDE DEF e
<1>5. /\ file' = SubSeq(e, 1, k + 1) /\ k + 1 \in 0..Len(e)
      /\ file' = e <=> k + 1 = Len(e)
  <2>1. Len(file) = k
    BY <1>3, <1>4, Beginnings, Zenon
  <2>2. file' = SubSeq(e, 1, k + 1)
    BY <1>2, <2>1, Zenon
  <2>3. k + 1 \in 0..Len(e)
    BY <1>3, <1>4
  <2>4. Len(SubSeq(e, 1, k + 1)) = k + 1 /\ SubSeq(e, 1, Len(e)) = e
    BY <1>3, <2>3, Beginnings, Zenon
  <2> QED
    BY <2>2, <2>3, <2>4, Zenon
<1>6. runner' \in {"off", "running", "exporting"}
  BY <1>2
<1>7. KeptFor(file', bom', runner', rows', cut', outcome')
  <2>1. runner' = "exporting" <=> k + 1 # Len(e)
    BY <1>2, <1>5
  <2>2. Kept(file', bom, runner', rows, cut, outcome, rows, k + 1)
    BY <1>1, <1>4, <1>5, <2>1, Zenon DEF Kept, e
  <2> QED
    BY <1>2, <2>2, Zenon DEF KeptFor
<1> QED
  BY <1>1, <1>2, <1>6, <1>7, Zenon DEF PlanInv

LEMMA StepStops == ASSUME PlanInv, Ends \/ Killed PROVE PlanInv'
<1>1. /\ bom \in BOOLEAN /\ cut \in BOOLEAN /\ outcome \in [Runs -> Field]
      /\ KeptFor(file, bom, runner, rows, cut, outcome)
  BY Zenon DEF PlanInv
<1>2. /\ runner' = "off" /\ selected' = <<>> /\ rows' = <<>> /\ file' = file /\ bom' = bom /\ outcome' = outcome
      /\ (runner = "running" /\ cut' = cut) \/ cut' = TRUE
  BY Zenon DEF Ends, Killed
<1>3. PICK table, k : Kept(file, bom, runner, rows, cut, outcome, table, k)
  BY <1>1, Zenon DEF KeptFor
<1>4. runner = "running" => runner # "exporting"
  OBVIOUS
<1>5. "off" # "exporting" /\ "off" # "running" /\ cut' \in BOOLEAN
  BY <1>1, <1>2
<1>6. Kept(file, bom, "off", <<>>, cut', outcome, table, k)
  BY <1>2, <1>3, <1>4, <1>5, Zenon DEF Kept
<1>7. KeptFor(file', bom', runner', rows', cut', outcome')
  BY <1>2, <1>6, Zenon DEF KeptFor
<1>8. <<>> \in Seq(Row) /\ selected' \in Seq(DOMAIN rows') /\ runner' \in {"off", "running", "exporting"}
  BY <1>2
<1> QED
  BY <1>1, <1>2, <1>5, <1>7, <1>8, Zenon DEF PlanInv

LEMMA StepStutters == ASSUME PlanInv, UNCHANGED vars PROVE PlanInv'
<1>1. /\ file' = file /\ bom' = bom /\ runner' = runner /\ rows' = rows /\ selected' = selected
      /\ outcome' = outcome /\ cut' = cut
  BY DEF vars
<1> QED
  BY <1>1, Zenon DEF PlanInv

\* The invariant: the file is always a beginning of what Export-Csv writes for some table of
\* rows; while an export goes on that table is the one in memory, and until an export is cut
\* it holds the whole plan with the outcome that each run came to last.
THEOREM FileIsKept == Spec => []PlanInv
<1>1. Init => PlanInv
  BY PlanInit
<1>2. PlanInv /\ [Next]_vars => PlanInv'
  <2> SUFFICES ASSUME PlanInv, [Next]_vars PROVE PlanInv'
    OBVIOUS
  <2>1. ASSUME NEW ids \in Asked, NEW include \in BOOLEAN, Start(ids, include) PROVE PlanInv'
    BY <2>1, StepStart
  <2>2. CASE Run
    BY <2>2, StepRun
  <2>3. CASE Exports
    BY <2>3, StepExports
  <2>4. CASE Ends \/ Killed
    BY <2>4, StepStops
  <2>5. CASE UNCHANGED vars
    BY <2>5, StepStutters
  <2> QED
    BY <2>1, <2>2, <2>3, <2>4, <2>5, Zenon DEF Next
<1> QED
  BY <1>1, <1>2, PTL DEF Spec

\* What llmos reads of a file that begins with a byte order mark is an error.
LEMMA MarkedFails ==
    ASSUME NEW x \in Seq(Tokens), x # <<>>, x[1] = "bom"
    PROVE  parse_benchmark_csv(x) = Error
  BY BomFails, Zenon DEF parse_benchmark_csv

\* Without the mark, what is there of the file is what there is of the text.
LEMMA ReadFile ==
    ASSUME PlanInv, parse_benchmark_csv(file) # Error
    PROVE  /\ file \in Seq(Tokens) /\ Good(file)
           /\ \E table, k, m : /\ Kept(file, bom, runner, rows, cut, outcome, table, k)
                               /\ m \in 0..Len(Text(All(table))) /\ file = SubSeq(Text(All(table)), 1, m)
                               /\ k = Len(Exported(bom, table)) => m = Len(Text(All(table)))
<1>1. /\ bom \in BOOLEAN /\ KeptFor(file, bom, runner, rows, cut, outcome)
  BY Zenon DEF PlanInv
<1>2. PICK table, k : Kept(file, bom, runner, rows, cut, outcome, table, k)
  BY <1>1, Zenon DEF KeptFor
<1>3. PICK m \in Nat : /\ CutAt(file, bom, table, k, m)
                       /\ SubSeq(Text(All(table)), 1, m) \in Seq(Tokens) /\ Good(SubSeq(Text(All(table)), 1, m))
  BY <1>1, <1>2, FileGood, Zenon
<1> DEFINE text == Text(All(table))
<1>4. /\ file \in Seq(Tokens) /\ m \in 0..Len(text)
      /\ k = Len(Exported(bom, table)) => m = Len(text)
      /\ bom => file = <<>> \/ file[1] = "bom"
      /\ ~bom => file = SubSeq(text, 1, m)
  BY <1>3, Zenon DEF CutAt
<1>5. table \in Seq(Row) /\ text \in Seq(Tokens) /\ Len(text) \in Nat
  BY <1>1, <1>2, ExportedType, Zenon DEF Kept
<1>6. ASSUME file = <<>>, bom PROVE FALSE
  <2>1. Lines(<<>>) = <<<<>>>>
    BY EmptyText, LineSnoc, Zenon
  <2>2. (<<<<>>>>)[1] = <<>>
    OBVIOUS
  <2>3. ValidHeader(<<>>)
    BY <1>6, <2>1, <2>2, Zenon DEF parse_benchmark_csv
  <2> QED
    BY <2>3, EmptyLine, Zenon
<1>7. ~bom
  BY <1>4, <1>6, MarkedFails, Zenon
<1> HIDE DEF text
<1>8. file = SubSeq(text, 1, m) /\ Good(file)
  BY <1>3, <1>4, <1>7, Zenon DEF text
<1> QED
  BY <1>2, <1>4, <1>8, Zenon DEF text

\* llmos reads of the file what the runner would read, or reports an error: whatever a program
\* wrote into the notes, whatever the plan is, and wherever the text is cut; what else it reads
\* it finds in lines that begin within a note.
THEOREM ReadersAgreeHolds == Spec => []ReadersAgree
<1>1. PlanInv => ReadersAgree
  <2> SUFFICES ASSUME PlanInv PROVE ReadersAgree
    OBVIOUS
  <2>1. CASE parse_benchmark_csv(file) = Error
    BY <2>1, Zenon DEF ReadersAgree
  <2>2. CASE parse_benchmark_csv(file) # Error
    <3>1. file \in Seq(Tokens) /\ Good(file)
      BY <2>2, ReadFile, Zenon
    <3>2. AgreeOn(file)
      BY <3>1, AgreeInFull, Zenon
    <3> DEFINE lines == Lines(file)
               from == At(Idx(lines), DataLines(lines))
               records == parse_benchmark_csv(file)
    <3>3. Own(file) = At(records, {i \in DOMAIN records : from[i] \notin NoteLines(file)})
      <4>1. records = Splits(At(lines, DataLines(lines)))
        BY <2>2, ParseIs, Zenon
      <4>2. DOMAIN records = DOMAIN At(lines, DataLines(lines))
        BY <4>1, Zenon DEF Splits
      <4> HIDE DEF lines
      <4> QED
        BY <4>1, <4>2, Zenon DEF Own, RecordsOutside, lines
    <3> QED
      BY <2>2, <3>2, <3>3, Zenon DEF ReadersAgree, AgreeOn, Read, First, Strip, Idx
  <2> QED
    BY <2>1, <2>2
<1> QED
  BY <1>1, FileIsKept, PTL

-----------------------------------------------------------------------------
(* The rows of a beginning are those of the whole, field by field.         *)

Begins(s, T) ==
    /\ Len(s.table) <= Len(T)
    /\ \A i \in 1..Len(s.table) : s.table[i] = T[i]
    /\ \A c \in 1..Len(s.fields) : Len(s.table) + 1 <= Len(T) /\ T[Len(s.table) + 1][c] = s.fields[c]

LEMMA BeginsBefore ==
    ASSUME NEW T \in Seq(Row), NEW s \in ImportStates, NEW t \in Tokens, NEW r, r = ImportStep(s, t), Begins(r, T)
    PROVE  Begins(s, T)
<1>1. s.table \in Seq(Seq(Field)) /\ s.fields \in Seq(Field) /\ s.current \in Field /\ s.quoted \in BOOLEAN
  BY DEF ImportStates
<1>2. ASSUME r.table = s.table, r.fields = s.fields PROVE Begins(s, T)
  BY <1>2, Zenon DEF Begins
<1>3. CASE t = "bom"
  <2>1. r = s
    BY <1>3 DEF ImportStep
  <2> QED
    BY <2>1, Zenon
<1>4. CASE t = "quote"
  BY <1>2, <1>4, ImportQuote, Zenon
<1>5. CASE t = "comma" /\ ~s.quoted
  <2>1. r.table = s.table /\ r.fields = Append(s.fields, s.current)
    BY <1>5, ImportComma, Zenon
  <2> DEFINE row == Append(s.fields, s.current)
  <2>0. Len(row) = Len(s.fields) + 1 /\ \A c \in 1..Len(s.fields) : row[c] = s.fields[c]
    BY <1>1, AppendedField, Zenon
  <2>2. /\ Len(r.fields) = Len(s.fields) + 1 /\ \A c \in 1..Len(s.fields) : r.fields[c] = s.fields[c]
    BY <2>0, <2>1, Zenon
  <2>3. \A c \in 1..Len(s.fields) : c \in 1..Len(r.fields)
    BY <1>1, <2>2
  <2> QED
    BY <2>1, <2>2, <2>3, Zenon DEF Begins
<1>6. CASE t = "newline" /\ ~s.quoted
  <2> DEFINE row == Append(s.fields, s.current)
             n == Len(s.table)
  <2>1. r.table = Append(s.table, row)
    BY <1>6, ImportNewline, Zenon
  <2>2. row \in Seq(Field) /\ \A c \in 1..Len(s.fields) : row[c] = s.fields[c]
    BY <1>1, AppendedField, Zenon
  <2> HIDE DEF row
  <2>3. /\ Len(r.table) = n + 1 /\ r.table[n + 1] = row /\ \A i \in 1..n : r.table[i] = s.table[i]
        /\ n \in Nat /\ Len(T) \in Nat
    BY <1>1, <2>1, <2>2
  <2> HIDE DEF n
  <2>4. n + 1 <= Len(T)
    BY <2>3 DEF Begins
  <2>5. n <= Len(T) /\ n + 1 \in 1..(n + 1) /\ \A i \in 1..n : i \in 1..(n + 1)
    BY <2>3, <2>4
  <2>6. r.table[n + 1] = T[n + 1] /\ \A i \in 1..n : r.table[i] = T[i]
    BY <2>3, <2>5, Zenon DEF Begins
  <2> QED
    BY <2>2, <2>3, <2>4, <2>5, <2>6, Zenon DEF Begins, n
<1>7. CASE t # "bom" /\ t # "quote" /\ ~(t = "comma" /\ ~s.quoted) /\ ~(t = "newline" /\ ~s.quoted)
  <2>1. s.quoted \/ t \notin {"comma", "newline"}
    BY <1>7
  <2> QED
    BY <1>2, <1>7, <2>1, ImportOther, Zenon
<1> QED
  BY <1>3, <1>4, <1>5, <1>6, <1>7, Zenon

LEMMA Downwards == \A n \in Nat : \A m \in 0..n : n - m \in 0..n /\ n - (n - m) = m
  OBVIOUS

LEMMA BeginsAll ==
    ASSUME NEW T \in Seq(Row), NEW m \in 0..Len(Text(T))
    PROVE  Begins(Imported(SubSeq(Text(T), 1, m)), T)
<1> DEFINE e == Text(T)
           n == Len(e)
           P == {j \in 0..n : Begins(Imported(SubSeq(e, 1, n - j)), T)}
<1>1. e \in Seq(Tokens) /\ Imported(e) = Reader(T, <<>>, <<>>, FALSE, FALSE)
  BY FeedTable, Zenon
<1> HIDE DEF e
<1>2. n \in Nat /\ SubSeq(e, 1, n) = e
  BY <1>1, Beginnings, Zenon
<1>3. 0 \in P
  <2>1. Begins(Reader(T, <<>>, <<>>, FALSE, FALSE), T)
    BY DEF Begins, Reader
  <2>2. 0 \in 0..n /\ n - 0 = n
    BY <1>2
  <2> HIDE DEF n
  <2> QED
    BY <1>1, <1>2, <2>1, <2>2, Zenon
<1>4. \A j \in 0..(n - 1) : j \in P => j + 1 \in P
  <2> SUFFICES ASSUME NEW j \in 0..(n - 1), j \in P PROVE j + 1 \in P
    OBVIOUS
  <2> DEFINE k == n - (j + 1)
             y == SubSeq(e, 1, k)
  <2>1. k \in 0..(n - 1) /\ n - j = k + 1 /\ j + 1 \in 0..n
    BY <1>2
  <2>2. Begins(Imported(SubSeq(e, 1, k + 1)), T)
    BY <2>1, Zenon
  <2> HIDE DEF k
  <2>3. y \in Seq(Tokens) /\ e[k + 1] \in Tokens /\ SubSeq(e, 1, k + 1) = Append(y, e[k + 1])
    BY <1>1, <2>1, PrefixSnoc DEF n
  <2> HIDE DEF y
  <2>4. Imported(SubSeq(e, 1, k + 1)) = ImportStep(Imported(y), e[k + 1]) /\ Imported(y) \in ImportStates
    BY <2>3, ImportedSnoc, ImportedType, Zenon
  <2>5. Begins(Imported(y), T)
    <3> DEFINE s == Imported(y)
               t == e[k + 1]
               r == Imported(SubSeq(e, 1, k + 1))
    <3>1. s \in ImportStates /\ t \in Tokens /\ r = ImportStep(s, t) /\ Begins(r, T)
      BY <2>2, <2>3, <2>4, Zenon
    <3> HIDE DEF s, t, r
    <3>2. Begins(s, T)
      BY <3>1, BeginsBefore
    <3> QED
      BY <3>2, Zenon DEF s
  <2> QED
    BY <2>1, <2>5, Zenon DEF y, k
<1> HIDE DEF P
<1>5. \A j \in 0..n : j \in P
  BY <1>2, <1>3, <1>4, Upwards
<1>6. n - m \in 0..n /\ n - (n - m) = m
  BY <1>2, Downwards, Zenon DEF e
<1>7. Begins(Imported(SubSeq(e, 1, n - (n - m))), T)
  BY <1>5, <1>6, Zenon DEF P
<1> QED
  BY <1>6, <1>7, Zenon DEF e

\* The rows that are reached: their first four fields are those of the table.
SameRow(all, T, i) == i \in 1..Len(T) /\ \A c \in 1..4 : all[i][c] = T[i][c]

LEMMA RowsReached ==
    ASSUME NEW T \in Seq(Row), NEW s \in ImportStates, Begins(s, T), NEW all, Reaches(s, all),
           NEW i \in 1..Len(all)
    PROVE  SameRow(all, T, i)
<1>1. s.table \in Seq(Seq(Field)) /\ s.fields \in Seq(Field) /\ s.current \in Field /\ Len(T) \in Nat
  BY DEF ImportStates
<1>2. /\ Len(s.table) <= Len(T) /\ Len(s.table) \in Nat
      /\ \A j \in 1..Len(s.table) : s.table[j] = T[j]
      /\ \A c \in 1..Len(s.fields) : Len(s.table) + 1 <= Len(T) /\ T[Len(s.table) + 1][c] = s.fields[c]
  <2>1. Len(s.table) \in Nat
    BY <1>1
  <2> QED
    BY <2>1, Zenon DEF Begins
<1>3. ASSUME NEW j \in 1..Len(s.table) PROVE j \in 1..Len(T) /\ s.table[j] = T[j]
  BY <1>1, <1>2
<1>4. CASE all = s.table
  BY <1>3, <1>4, Zenon DEF SameRow
<1>5. CASE Len(s.fields) = 4 /\ all = Append(s.table, Append(s.fields, s.current))
  <2> DEFINE row == Append(s.fields, s.current)
             n == Len(s.table)
  <2>0. row \in Seq(Field) /\ \A c \in 1..Len(s.fields) : row[c] = s.fields[c]
    BY <1>1, AppendedField, Zenon
  <2>1. row \in Seq(Field) /\ \A c \in 1..4 : row[c] = s.fields[c]
    BY <1>5, <2>0, Zenon
  <2> HIDE DEF row
  <2>2. /\ Len(all) = n + 1 /\ all[n + 1] = row /\ \A j \in 1..n : all[j] = s.table[j]
    BY <1>1, <1>5, <2>1 DEF row
  <2>3. n + 1 <= Len(T) /\ \A c \in 1..4 : T[n + 1][c] = s.fields[c]
    <3>1. 1 \in 1..4
      OBVIOUS
    <3> QED
      BY <1>2, <1>5, <3>1, Zenon
  <2> HIDE DEF n
  <2>4. n + 1 \in 1..Len(T) /\ (i = n + 1 \/ i \in 1..n)
    BY <1>1, <1>2, <2>2, <2>3 DEF n
  <2> QED
    BY <1>3, <2>1, <2>2, <2>3, <2>4, Zenon DEF n, SameRow
<1> QED
  BY <1>4, <1>5, Zenon DEF Reaches

-----------------------------------------------------------------------------
(* The report.                                                             *)

\* Records that llmos has parsed.
Records == {f \in Seq(Field) : f[Id] \in Field /\ f[Success] \in {<<"true">>, <<"false">>}}

LEMMA ParsedType ==
    ASSUME NEW x \in Seq(Tokens), parse_benchmark_csv(x) # Error
    PROVE  parse_benchmark_csv(x) \in Seq(Records)
<1> DEFINE L == Lines(x)
           data == At(L, DataLines(L))
<1>1. L \in LineStates(Tokens)
  BY LineSnoc, Zenon
<1>2. /\ parse_benchmark_csv(x) = [i \in DOMAIN data |-> split_csv_row(data[i])]
      /\ \A i \in DOMAIN data : ParsesAsRow(data[i])
  BY ParseIs, Zenon DEF Splits
<1> HIDE DEF L
<1>3. L \in Seq(Seq(Tokens))
  BY <1>1, Zenon DEF LineStates
<1>4. data \in Seq(Seq(Tokens))
  BY <1>3, AtType, Zenon
<1> HIDE DEF data
<1>5. Len(data) \in Nat /\ DOMAIN data = 1..Len(data) /\ \A i \in DOMAIN data : data[i] \in Seq(Tokens)
  BY <1>4
<1>6. ASSUME NEW i \in DOMAIN data PROVE split_csv_row(data[i]) \in Records
  <2> DEFINE f == split_csv_row(data[i])
  <2>1. Len(f) >= 5 /\ f[Success] \in {<<"true">>, <<"false">>}
    BY <1>2, Zenon DEF ParsesAsRow, Columns
  <2>2. f \in Seq(Field)
    <3>1. SplitState(data[i]) \in SplitStates(Tokens)
      BY <1>5, SplitSnoc, Zenon
    <3>2. SplitState(data[i]).fields \in Seq(Field)
      BY <3>1 DEF SplitStates, Field
    <3> QED
      BY <3>2, SplitIs, Zenon
  <2> HIDE DEF f
  <2>3. f[Id] \in Field
    BY <2>1, <2>2 DEF Id
  <2> QED
    BY <2>1, <2>2, <2>3, Zenon DEF Records, f
<1>7. \A g : DOMAIN g = 1..Len(data) /\ g = [i \in 1..Len(data) |-> g[i]]
                /\ (\A i \in 1..Len(data) : g[i] \in Records) => g \in Seq(Records)
  BY <1>5, MapType, Zenon
<1> QED
  BY <1>2, <1>5, <1>6, <1>7, Zenon

\* The identifiers of records.
Ids(q) == [i \in DOMAIN q |-> q[i][Id]]

LEMMA IdsSnoc ==
    ASSUME NEW q \in Seq(Records), NEW t \in Records
    PROVE  /\ Ids(q) \in Seq(Field) /\ Len(Ids(q)) = Len(q) /\ t[Id] \in Field
           /\ Ids(Append(q, t)) = Append(Ids(q), t[Id])
<1>1. /\ Len(q) \in Nat /\ DOMAIN q = 1..Len(q) /\ DOMAIN Append(q, t) = 1..(Len(q) + 1)
      /\ \A i \in 1..Len(q) : Append(q, t)[i] = q[i] /\ q[i] \in Records
      /\ Append(q, t)[Len(q) + 1] = t
  OBVIOUS
<1>2. \A r \in Records : r[Id] \in Field
  BY Zenon DEF Records
<1>3. Ids(q) = [i \in 1..Len(q) |-> q[i][Id]] /\ Ids(Append(q, t)) = [i \in 1..(Len(q) + 1) |-> Append(q, t)[i][Id]]
  BY <1>1, Zenon DEF Ids
<1>4. Ids(q) \in Seq(Field) /\ Len(Ids(q)) = Len(q) /\ \A i \in 1..Len(q) : Ids(q)[i] = q[i][Id]
  BY <1>1, <1>2, <1>3
<1> DEFINE a == Ids(Append(q, t))
           b == Append(Ids(q), t[Id])
<1>5. /\ b \in Seq(Field) /\ Len(b) = Len(q) + 1 /\ b[Len(q) + 1] = t[Id]
      /\ \A i \in 1..Len(q) : b[i] = Ids(q)[i]
  <2>1. t[Id] \in Field
    BY <1>2, Zenon
  <2>2. /\ b \in Seq(Field) /\ Len(b) = Len(Ids(q)) + 1 /\ b[Len(Ids(q)) + 1] = t[Id]
        /\ \A i \in 1..Len(Ids(q)) : b[i] = Ids(q)[i]
    BY <1>4, <2>1, AppendedField, Zenon
  <2> HIDE DEF b
  <2> QED
    BY <1>4, <2>2, Zenon
<1>6. \A i \in 1..(Len(q) + 1) : i \in 1..Len(q) \/ i = Len(q) + 1
  BY <1>1
<1>7. \A i \in 1..(Len(q) + 1) : a[i] = Append(q, t)[i][Id]
  BY <1>3, Zenon
<1>8. \A i \in 1..(Len(q) + 1) : a[i] = b[i]
  <2> HIDE DEF a, b
  <2> QED
    BY <1>1, <1>4, <1>5, <1>6, <1>7, Zenon
<1>9. a \in Seq(Field) /\ Len(a) = Len(q) + 1
  <2> HIDE DEF b
  <2>1. a = [i \in 1..(Len(q) + 1) |-> a[i]] /\ Len(q) + 1 \in Nat
    BY <1>1, <1>3
  <2>2. \A i \in 1..(Len(q) + 1) : b[i] \in Field
    BY <1>5
  <2> HIDE DEF a
  <2>3. \A i \in 1..(Len(q) + 1) : a[i] \in Field
    BY <1>8, <2>2, Zenon
  <2> QED
    BY <2>1, <2>3, MapType, Zenon
<1>10. a = b
  <2> HIDE DEF a, b
  <2>1. Len(a) = Len(b) /\ \A i \in 1..Len(a) : a[i] = b[i]
    BY <1>5, <1>8, <1>9, Zenon
  <2> QED
    BY <1>5, <1>9, <2>1, SeqEqual
<1> QED
  BY <1>2, <1>4, <1>10, Zenon

\* The identifiers of what is taken are those that are taken.
LEMMA AtIds ==
    ASSUME NEW P
    PROVE  \A q \in Seq(Records) : Ids(At(q, P)) = At(Ids(q), P)
<1> DEFINE Q == {q \in Seq(Records) : Ids(At(q, P)) = At(Ids(q), P)}
<1>1. <<>> \in Q
  <2>1. <<>> \in Seq(Records) /\ DOMAIN <<>> = {}
    OBVIOUS
  <2>2. Ids(<<>>) = <<>>
    BY <2>1 DEF Ids
  <2> QED
    BY <2>1, <2>2, AtNone, Zenon
<1>2. ASSUME NEW q \in Seq(Records), q \in Q, NEW t \in Records PROVE Append(q, t) \in Q
  <2>1. Append(q, t) \in Seq(Records)
    BY AppendedType, Zenon
  <2>2. At(q, P) \in Seq(Records) /\ At(Append(q, t), P) = AtOneMore(q, t, P)
    BY AtType, AtSnoc, Zenon
  <2>3. /\ Ids(q) \in Seq(Field) /\ Len(Ids(q)) = Len(q) /\ t[Id] \in Field
        /\ Ids(Append(q, t)) = Append(Ids(q), t[Id])
    BY IdsSnoc, Zenon
  <2>4. Ids(Append(At(q, P), t)) = Append(Ids(At(q, P)), t[Id])
    BY <2>2, IdsSnoc, Zenon
  <2>5. At(Append(Ids(q), t[Id]), P) = AtOneMore(Ids(q), t[Id], P)
    BY <2>3, AtSnoc, Zenon
  <2>6. Ids(At(q, P)) = At(Ids(q), P)
    BY <1>2, Zenon
  <2>7. CASE Len(q) + 1 \in P
    <3>1. Ids(At(Append(q, t), P)) = Append(At(Ids(q), P), t[Id])
      BY <2>2, <2>4, <2>6, <2>7, Zenon DEF AtOneMore
    <3>2. At(Ids(Append(q, t)), P) = Append(At(Ids(q), P), t[Id])
      BY <2>3, <2>5, <2>7, Zenon DEF AtOneMore
    <3> QED
      BY <2>1, <3>1, <3>2, Zenon
  <2>8. CASE Len(q) + 1 \notin P
    <3>1. Ids(At(Append(q, t), P)) = At(Ids(q), P)
      BY <2>2, <2>6, <2>8, Zenon DEF AtOneMore
    <3>2. At(Ids(Append(q, t)), P) = At(Ids(q), P)
      BY <2>3, <2>5, <2>8, Zenon DEF AtOneMore
    <3> QED
      BY <2>1, <3>1, <3>2, Zenon
  <2> QED
    BY <2>7, <2>8
<1>3. Seq(Records) \subseteq Q
  <2> HIDE DEF Q
  <2> QED
    BY <1>1, <1>2, TextInduction
<1> QED
  BY <1>3, Zenon

\* The records are the first n rows of the table, but for the notes.
FirstOf(records, table, n) ==
    /\ n \in 0..Len(table) /\ records \in Seq(Records) /\ Len(records) = n /\ DOMAIN records = 1..n
    /\ \A i \in 1..n : \A c \in 1..4 : records[i][c] = table[i][c]

\* Without a phantom no record comes from within a note.
LEMMA OwnIsAll ==
    ASSUME NEW x \in Seq(Tokens), parse_benchmark_csv(x) # Error, ~Phantom(x)
    PROVE  Own(x) = parse_benchmark_csv(x)
<1> DEFINE L == Lines(x)
           N == NoteLines(x)
           D == DataLines(L)
<1>1. parse_benchmark_csv(x) = Splits(At(L, D)) /\ \A k \in D : ParsesAsRow(L[k])
  BY ParseIs, DataParses, Zenon
<1>2. \A k \in N : ~ParsesAsRow(L[k])
  BY Zenon DEF Phantom
<1>3. L \in Seq(Seq(Tokens))
  <2>1. L \in LineStates(Tokens)
    BY LineSnoc, Zenon
  <2> QED
    BY <2>1, Zenon DEF LineStates
<1> HIDE DEF L, N, D
<1>4. D \ N = D
  BY <1>1, <1>2, Zenon
<1>5. RecordsOutside(L, D, N) = Splits(At(L, D \ N))
  BY <1>3, OwnLines, Zenon
<1> QED
  BY <1>1, <1>4, <1>5, Zenon DEF Own, L, N, D

LEMMA ReadsFirst ==
    ASSUME NEW table \in Seq(Row), NEW m \in 0..Len(Text(All(table))), NEW x, x = SubSeq(Text(All(table)), 1, m),
           parse_benchmark_csv(x) # Error, ~Phantom(x)
    PROVE  \E n \in Nat : /\ FirstOf(parse_benchmark_csv(x), table, n)
                          /\ m = Len(Text(All(table))) => n = Len(table)
<1> DEFINE T == All(table)
           s == Imported(x)
           records == parse_benchmark_csv(x)
<1>1. /\ T \in Seq(Row) /\ Len(T) = Len(table) + 1 /\ \A i \in 1..Len(table) : T[i + 1] = table[i]
      /\ Len(table) \in Nat
  <2>1. Len(table) \in Nat
    OBVIOUS
  <2> QED
    BY <2>1, AllType, Zenon
<1>2. x \in Seq(Tokens) /\ Good(x)
  BY CutGood, Zenon
<1>3. s \in ImportStates /\ Begins(s, T)
  BY <1>1, <1>2, BeginsAll, ImportedType, Zenon
<1>4. PICK all \in Seq(Row) : Agree(x, all) /\ all # <<>> /\ Reaches(s, all)
  BY <1>2, TwoReaders, Zenon
<1>5. records \in Seq(Records) /\ Own(x) = records
  BY <1>2, ParsedType, OwnIsAll, Zenon
<1>6. ASSUME m = Len(Text(T)) PROVE Len(all) = Len(T)
  <2>1. x = Text(T)
    BY <1>1, <1>6, FeedTable, Beginnings, Zenon
  <2>2. s = Reader(T, <<>>, <<>>, FALSE, FALSE)
    BY <1>1, <2>1, FeedTable, Zenon
  <2> HIDE DEF s, T
  <2>3. s.table = T /\ Len(s.fields) = 0 /\ Len(s.fields) # 4
    BY <2>2 DEF Reader
  <2> QED
    BY <1>4, <2>3, Zenon DEF Reaches
<1> DEFINE n == Len(all) - 1
<1>7. /\ DOMAIN records = 1..n /\ Len(records) = n
      /\ \A i \in 1..n : Alike(records[i], all[i + 1])
  BY <1>4, <1>5, Zenon DEF Agree
<1>8. \A i \in 1..Len(all) : i \in 1..Len(T) /\ \A c \in 1..4 : all[i][c] = T[i][c]
  <2>1. \A i \in 1..Len(all) : SameRow(all, T, i)
    BY <1>1, <1>3, <1>4, RowsReached, Zenon
  <2> QED
    BY <2>1, Zenon DEF SameRow
<1> HIDE DEF T, s, records
<1>9. /\ Len(all) \in Nat \ {0} /\ n \in Nat /\ \A i \in 1..n : i + 1 \in 1..Len(all) /\ all[i + 1] \in Row
  BY <1>4
<1>10. n \in 0..Len(table) /\ \A i \in 1..n : i \in 1..Len(table)
  <2>1. Len(all) \in 1..Len(T)
    <3>1. Len(all) \in 1..Len(all)
      BY <1>9
    <3> QED
      BY <1>8, <3>1, Zenon
  <2> QED
    BY <1>1, <1>9, <2>1
<1>11. ASSUME NEW i \in 1..n, NEW c \in 1..4 PROVE records[i][c] = table[i][c]
  <2> DEFINE row == all[i + 1]
  <2>1. row \in Row /\ Alike(records[i], row)
    BY <1>7, <1>9, Zenon
  <2>2. row[c] = table[i][c]
    BY <1>1, <1>8, <1>9, <1>10, Zenon
  <2> HIDE DEF row
  <2>3. \A d \in 1..5 : records[i][d] = Read(row[d])
    BY <2>1, RowFields, Zenon DEF Alike
  <2>4. c \in 1..5 /\ Alphabet(c) = PlainTokens
    BY DEF Alphabet, Note
  <2>5. row[c] \in Seq(PlainTokens)
    BY <2>1, <2>4, RowField, Zenon
  <2> QED
    BY <2>2, <2>3, <2>4, <2>5, ReadPlain, Zenon
<1>12. FirstOf(records, table, n)
  BY <1>5, <1>7, <1>10, <1>11, Zenon DEF FirstOf
<1>13. m = Len(Text(T)) => n = Len(table)
  <2> SUFFICES ASSUME m = Len(Text(T)) PROVE n = Len(table)
    OBVIOUS
  <2>1. Len(all) = Len(T)
    BY <1>6
  <2> QED
    BY <1>1, <2>1
<1> QED
  BY <1>9, <1>12, <1>13, Zenon DEF records, T

LEMMA OneWord == \A a, b : <<a>> = <<b>> <=> a = b
  OBVIOUS

\* A report over the first rows of a table that holds the plan.
ReportIs(x, o, n, model, success_only) ==
    /\ n \in 0..Len(Plan)
    /\ run_benchmark(x, model, success_only)
         = At([i \in 1..n |-> <<RunIds[i]>>],
              {i \in 1..n : /\ success_only => o[i] = <<"true">>
                            /\ model \in {None, Plan[i]}})
    /\ \A i \in 1..n : o[i] \in {<<"true">>, <<"false">>}

LEMMA ReportOver ==
    ASSUME NEW x, parse_benchmark_csv(x) # Error, NEW table, NEW o, Planned(table, o),
           NEW n, FirstOf(parse_benchmark_csv(x), table, n), NEW model, NEW success_only \in BOOLEAN
    PROVE  ReportIs(x, o, n, model, success_only)
<1> DEFINE records == parse_benchmark_csv(x)
           P == {i \in DOMAIN records : /\ success_only => records[i][Success] = <<"true">>
                                        /\ model # None => records[i][Model] = <<model>>}
           Q == {i \in 1..n : /\ success_only => o[i] = <<"true">>
                              /\ model \in {None, Plan[i]}}
           filtered == At(records, P)
           ids == [i \in 1..n |-> <<RunIds[i]>>]
<1>1. /\ n \in 0..Len(table) /\ records \in Seq(Records) /\ DOMAIN records = 1..n
      /\ \A i \in 1..n : \A c \in 1..4 : records[i][c] = table[i][c]
  BY Zenon DEF FirstOf
<1>2. /\ Len(table) = Len(Plan)
      /\ \A i \in 1..Len(Plan) : /\ table[i][Id] = <<RunIds[i]>> /\ table[i][Model] = <<Plan[i]>>
                                 /\ table[i][Success] = o[i]
  BY Zenon DEF Planned
<1>3. n \in 0..Len(Plan)
  BY <1>1, <1>2, Zenon
<1>4. \A i \in 1..n : i \in 1..Len(Plan)
  BY <1>3, PlanType
<1>5. run_benchmark(x, model, success_only) = Ids(filtered)
  BY Zenon DEF run_benchmark, filter_runs, Ids
<1> HIDE DEF records
<1>6. \A i \in 1..n : /\ records[i][Id] = <<RunIds[i]>> /\ records[i][Model] = <<Plan[i]>>
                      /\ records[i][Success] = o[i]
  <2>1. Id \in 1..4 /\ Model \in 1..4 /\ Success \in 1..4
    BY DEF Id, Model, Success
  <2> QED
    BY <1>1, <1>2, <1>4, <2>1, Zenon
<1>7. Ids(records) = ids
  BY <1>1, <1>6, Zenon DEF Ids
<1>8. \A i \in DOMAIN ids : i \in P <=> i \in Q
  <2> SUFFICES ASSUME NEW i \in 1..n PROVE i \in P <=> i \in Q
    OBVIOUS
  <2>1. (model # None => records[i][Model] = <<model>>) <=> model \in {None, Plan[i]}
    <3>1. <<Plan[i]>> = <<model>> <=> Plan[i] = model
      BY OneWord, Zenon
    <3>2. records[i][Model] = <<Plan[i]>>
      BY <1>6, Zenon
    <3>3. records[i][Model] = <<model>> <=> Plan[i] = model
      BY <3>1, <3>2, Zenon
    <3>4. model \in {None, Plan[i]} <=> model = None \/ Plan[i] = model
      BY Zenon
    <3> QED
      BY <3>3, <3>4, Zenon
  <2>2. records[i][Success] = o[i] /\ i \in DOMAIN records
    BY <1>1, <1>6, Zenon
  <2> QED
    BY <2>1, <2>2, Zenon
<1>9. Ids(filtered) = At(ids, P)
  BY <1>1, <1>7, AtIds, Zenon
<1>10. At(ids, P) = At(ids, Q)
  <2> HIDE DEF ids, P, Q
  <2> QED
    BY <1>8, AtSame, Zenon
<1>11. \A i \in 1..n : o[i] \in {<<"true">>, <<"false">>}
  <2>1. \A i \in 1..n : records[i] \in Records
    BY <1>1
  <2>2. \A r \in Records : r[Success] \in {<<"true">>, <<"false">>}
    BY Zenon DEF Records
  <2> QED
    BY <1>6, <2>1, <2>2, Zenon
<1> QED
  BY <1>3, <1>5, <1>9, <1>10, <1>11, Zenon DEF ReportIs

\* While the file is written, and as long as no export was cut, what llmos reports, if it
\* reports at all, is over the runs of the plan that it is asked for, up to some run, each as it
\* came out last; of a file that is not being written it is over all of the plan, and every run
\* in it has been run.  A file with a line within a note that reads as a row is left out.
THEOREM ReportTruthfulHolds == Spec => []ReportTruthful
<1>1. PlanInv => ReportTruthful
  <2> SUFFICES ASSUME PlanInv, NEW model \in Models \cup {None}, NEW success_only \in BOOLEAN,
                      run_benchmark(file, model, success_only) # Error, ~cut, ~Phantom(file)
               PROVE  LET report == run_benchmark(file, model, success_only)
                          Chosen(n) == At([i \in 1..n |-> <<RunIds[i]>>],
                                          {i \in 1..n : /\ success_only => outcome[i] = <<"true">>
                                                        /\ model \in {None, Plan[i]}})
                          Over(n) == report = Chosen(n)
                      IN  /\ \E n \in 0..Len(Plan) : Over(n)
                          /\ runner # "exporting" =>
                                Over(Len(Plan)) /\ \A i \in Runs : outcome[i] \in {<<"true">>, <<"false">>}
    BY Zenon DEF ReportTruthful
  <2>1. parse_benchmark_csv(file) # Error
    BY Zenon DEF run_benchmark
  <2>2. PICK table, k, m : /\ Kept(file, bom, runner, rows, cut, outcome, table, k)
                           /\ m \in 0..Len(Text(All(table))) /\ file = SubSeq(Text(All(table)), 1, m)
                           /\ k = Len(Exported(bom, table)) => m = Len(Text(All(table)))
    BY <2>1, ReadFile, Zenon
  <2>3. /\ table \in Seq(Row) /\ Planned(table, outcome)
        /\ runner # "exporting" => m = Len(Text(All(table)))
    BY <2>2, Zenon DEF Kept
  <2>4. PICK n \in Nat : /\ FirstOf(parse_benchmark_csv(file), table, n)
                         /\ m = Len(Text(All(table))) => n = Len(table)
    BY <2>1, <2>2, <2>3, ReadsFirst, Zenon
  <2>5. /\ n \in 0..Len(Plan)
        /\ run_benchmark(file, model, success_only)
             = At([i \in 1..n |-> <<RunIds[i]>>],
                  {i \in 1..n : /\ success_only => outcome[i] = <<"true">>
                                /\ model \in {None, Plan[i]}})
        /\ \A i \in 1..n : outcome[i] \in {<<"true">>, <<"false">>}
    <3>1. ReportIs(file, outcome, n, model, success_only)
      BY <2>1, <2>3, <2>4, ReportOver, Zenon
    <3> QED
      BY <3>1, Zenon DEF ReportIs
  <2>6. runner # "exporting" => n = Len(Plan)
    BY <2>3, <2>4, Zenon DEF Planned
  <2> QED
    BY <2>5, <2>6, PlanType, Zenon
<1> QED
  BY <1>1, FileIsKept, PTL
=============================================================================
