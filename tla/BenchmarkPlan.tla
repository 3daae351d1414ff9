--------------------------- MODULE BenchmarkPlan ---------------------------
(***************************************************************************)
(* The benchmark plan, a CSV file that one program fills in while another  *)
(* reports on it: run-benchmark-plan.ps1 (scripts/memory) runs its rows    *)
(* one by one and writes the whole file after each, and llmos benchmark    *)
(* (tools/llmos-cli/src/benchmark.rs, crates/benchmark-ingest) reads it at *)
(* any moment, also in the middle of a write or after one that was cut.    *)
(*                                                                         *)
(* The file is its text, a sequence of tokens: quotes, commas, newlines    *)
(* and words.  Five columns stand for the thirty.  The command reads the   *)
(* text at once and changes nothing, so it is an operator on the text.     *)
(* White space around a field is not modelled.                             *)
(***************************************************************************)
EXTENDS Naturals, Sequences, SequencesExt

CONSTANTS RunIds, \* the run_id of each run, a sequence of words
          Plan,   \* its model_name
          Notes,  \* what a program that fails may have said, any texts
          None,   \* a filter that is not given
          Error   \* what an operation that fails returns

Columns == 5
Runs == DOMAIN Plan
Models == {Plan[i] : i \in Runs}
Structure == {"quote", "comma", "newline"}

Words == STRING \ (Structure \cup {"bom"})
AnyText == Seq(STRING \ {"bom"})

ASSUME PlanAssumption == /\ RunIds \in Seq(Words) /\ Plan \in Seq(Words)
                         /\ Len(RunIds) = Len(Plan)
                         /\ Notes \subseteq AnyText

VARIABLES file,      \* the text of benchmark_plan.csv
          bom,       \* the PowerShell at hand writes a byte order mark with -Encoding utf8
          runner,    \* "off", "running" or "exporting"
          rows,      \* the rows it has in memory, in the order of the plan
          selected,  \* indexes it has still to run
          outcome,   \* history: what each run came to last, its run_success
          cut        \* history: an export was cut short

vars == <<file, bom, runner, rows, selected, outcome, cut>>

Header == <<<<"run_id">>, <<"model_name">>, <<"tokens_per_sec">>, <<"run_success">>, <<"notes">>>>
Id == 1
Model == 2
Metric == 3
Success == 4
Note == 5
Blank == <<>>
Number == <<"10">>

\* A run that was not run yet, or was and succeeded.
Pending(i) == <<<<RunIds[i]>>, <<Plan[i]>>, Blank, Blank, Blank>>
Completed(i) == <<<<RunIds[i]>>, <<Plan[i]>>, Number, <<"true">>, <<"word">>>>

\* FoldLeft as a recursive function, which TLC evaluates in linear time.
Fold(op(_, _), base, seq) ==
    LET f[i \in 0..Len(seq)] == IF i = 0 THEN base ELSE op(f[i - 1], seq[i]) IN f[Len(seq)]

\* What a sequence has at some of its places, in order.
At(seq, places) == FlattenSeq([i \in DOMAIN seq |-> IF i \in places THEN <<seq[i]>> ELSE <<>>])
-----------------------------------------------------------------------------
(* Export-Csv and Import-Csv, as the scripts use them.                     *)

Quoted(field) ==
    LET doubled == [i \in DOMAIN field |->
                       IF field[i] = "quote" THEN <<"quote", "quote">> ELSE <<field[i]>>]
    IN  <<"quote">> \o FlattenSeq(doubled) \o <<"quote">>

ExportRow(row) ==
    FlattenSeq([c \in 1..Columns |-> (IF c = 1 THEN <<>> ELSE <<"comma">>) \o Quoted(row[c])])
        \o <<"newline">>

ExportCsv(table) ==
    LET all == <<Header>> \o table
    IN  (IF bom THEN <<"bom">> ELSE <<>>) \o FlattenSeq([i \in DOMAIN all |-> ExportRow(all[i])])

ImportStart == [table |-> <<>>, fields |-> <<>>, current |-> <<>>, quoted |-> FALSE, closed |-> FALSE]

\* One pass over the text: a newline in quotes is part of its field, and so is a quote
\* written twice.
ImportStep(s, t) ==
    LET field == [s EXCEPT !.fields = Append(@, s.current), !.current = <<>>, !.closed = FALSE]
    IN  CASE t = "bom" -> s
          [] t = "quote" /\ s.quoted -> [s EXCEPT !.quoted = FALSE, !.closed = TRUE]
          [] t = "quote" /\ ~s.quoted ->
                [s EXCEPT !.quoted = TRUE, !.current = IF s.closed THEN Append(@, t) ELSE @]
          [] t = "comma" /\ ~s.quoted -> field
          [] t = "newline" /\ ~s.quoted ->
                [field EXCEPT !.table = Append(@, field.fields), !.fields = <<>>]
          [] OTHER -> [s EXCEPT !.current = Append(@, t), !.closed = FALSE]

\* Fields that a row lacks are blank.
ImportCsv(text) ==
    LET end == Fold(ImportStep, ImportStart, text)
        open == IF end.fields = <<>> /\ end.current = <<>> THEN <<>>
                ELSE <<Append(end.fields, end.current)>>
        table == end.table \o open
        Padded(fields) == [c \in 1..Columns |-> IF c \in DOMAIN fields THEN fields[c] ELSE Blank]
    IN  IF table = <<>> THEN <<>> ELSE [i \in 1..(Len(table) - 1) |-> Padded(table[i + 1])]
-----------------------------------------------------------------------------
(* llmos benchmark: parser.rs, query.rs, benchmark.rs.                     *)

\* str::lines.
LineStep(lines, t) == IF t = "newline" THEN Append(lines, <<>>)
                      ELSE [lines EXCEPT ![Len(lines)] = Append(@, t)]
Lines(text) == Fold(LineStep, <<<<>>>>, text)

\* A mutant: a comma ends a field, in quotes or not.
MutSplitAtAnyComma(line) ==
    Fold(LAMBDA fields, t : CASE t = "quote" -> fields
                                  [] t = "comma" -> Append(fields, <<>>)
                                  [] OTHER -> [fields EXCEPT ![Len(fields)] = Append(@, t)],
             <<<<>>>>, line)

\* A quote turns quoting on and off and is dropped.
SplitStep(s, t) ==
    CASE t = "quote" -> [s EXCEPT !.in_quotes = ~@]
      [] t = "comma" /\ ~s.in_quotes -> [s EXCEPT !.fields = Append(@, <<>>)]
      [] OTHER -> [s EXCEPT !.fields[Len(s.fields)] = Append(@, t)]
split_csv_row(line) == Fold(SplitStep, [fields |-> <<<<>>>>, in_quotes |-> FALSE], line).fields

ValidHeader(line) == LET fields == split_csv_row(line)
                     IN  Len(fields) >= Columns /\ fields[Id] = <<"run_id">>

\* parse_row: enough fields, and those that are no text can be parsed.
ParsesAsRow(line) == LET f == split_csv_row(line)
                     IN  /\ Len(f) >= Columns
                         /\ f[Metric] = Number
                         /\ f[Success] \in {<<"true">>, <<"false">>}

\* A mutant: a row that cannot be parsed is passed over.
MutParseSkips(text) ==
    LET lines == Lines(text)
        data == At(lines, {k \in 2..Len(lines) : ParsesAsRow(lines[k])})
    IN  IF ValidHeader(lines[1]) THEN [i \in DOMAIN data |-> split_csv_row(data[i])] ELSE Error

\* The lines after the header that are not empty.
DataLines(lines) == {k \in 2..Len(lines) : lines[k] # <<>>}

\* All rows or none, line by line.  A field beyond the columns is kept here and never
\* looked at.
parse_benchmark_csv(text) ==
    LET lines == Lines(text)
        data == At(lines, DataLines(lines))
    IN  IF ValidHeader(lines[1]) /\ \A i \in DOMAIN data : ParsesAsRow(data[i])
        THEN [i \in DOMAIN data |-> split_csv_row(data[i])]
        ELSE Error

filter_runs(records, model, success_only) ==
    At(records, {i \in DOMAIN records : /\ success_only => records[i][Success] = <<"true">>
                                        /\ model # None => records[i][Model] = <<model>>})

\* The runs that a report is over.  A summary is always over the successful ones, as its
\* --success-only is on by default and takes no value; a list is not cut to its limit here.
run_benchmark(text, model, success_only) ==
    LET records == parse_benchmark_csv(text)
    IN  IF records = Error THEN Error
        ELSE LET filtered == filter_runs(records, model, success_only)
             IN  [i \in DOMAIN filtered |-> filtered[i][Id]]
-----------------------------------------------------------------------------
(* run-benchmark-plan.ps1.                                                 *)

Init == /\ bom \in BOOLEAN
        /\ rows \in {[i \in Runs |-> IF i < n THEN Completed(i) ELSE Pending(i)] : n \in 1..(Len(Plan) + 1)}
        /\ file = ExportCsv(rows)
        /\ runner = "off"
        /\ selected = <<>>
        /\ outcome = [i \in Runs |-> rows[i][Success]]
        /\ cut = FALSE

\* The rows of the plan that are asked for (-RunIds, none for all), also those that have
\* been run (-IncludeCompleted) or only those with a blank run_success.
Start(ids, include) ==
    LET read == ImportCsv(file)
        chosen == At([i \in DOMAIN read |-> i],
                     {i \in DOMAIN read : /\ ids = {} \/ read[i][Id] \in ids
                                          /\ include \/ read[i][Success] = Blank})
    IN  /\ runner = "off"
        /\ chosen # <<>>
        /\ rows' = read
        /\ selected' = chosen
        /\ runner' = "running"
        /\ UNCHANGED <<file, bom, outcome, cut>>

\* A row is done: Sync-RowBack, and Export-Csv empties the file and starts to write.
RowDone(success, metric, note) ==
    LET i == Head(selected)
    IN  /\ runner = "running"
        /\ selected # <<>>
        /\ rows' = [rows EXCEPT ![i][Success] = <<success>>, ![i][Metric] = metric, ![i][Note] = note]
        /\ outcome' = [outcome EXCEPT ![i] = <<success>>]
        /\ selected' = Tail(selected)
        /\ file' = <<>>
        /\ runner' = "exporting"
        /\ UNCHANGED <<bom, cut>>

\* Update-RowFromMetrics takes the metrics that are there: one that is missing keeps
\* what the row had, and null blanks it.
Succeeds == \E metric \in {Number, Blank} : RowDone("true", metric, <<"word">>)

\* The pre-run command or the benchmark failed, or printed no metrics.
Fails == \E note \in Notes : RowDone("false", rows[Head(selected)][Metric], note)

\* -DryRun -MarkDryRun.
DryRun == RowDone("dry-run", rows[Head(selected)][Metric], <<"word">>)

Exports == /\ runner = "exporting"
           /\ LET text == ExportCsv(rows)
              IN  /\ file' = SubSeq(text, 1, Len(file) + 1)
                  /\ runner' = IF file' = text THEN "running" ELSE "exporting"
           /\ UNCHANGED <<bom, rows, selected, outcome, cut>>

\* -MaxRuns is reached, or no row is left.
Ends == /\ runner = "running"
        /\ runner' = "off" /\ selected' = <<>> /\ rows' = <<>>
        /\ UNCHANGED <<file, bom, outcome, cut>>

Killed == /\ runner = "exporting"
          /\ cut' = TRUE
          /\ runner' = "off" /\ selected' = <<>> /\ rows' = <<>>
          /\ UNCHANGED <<file, bom, outcome>>

Run == runner = "running" /\ selected # <<>> /\ (Succeeds \/ Fails \/ DryRun)
Asked == SUBSET {<<RunIds[i]>> : i \in Runs}
Next == (\E ids \in Asked, include \in BOOLEAN : Start(ids, include)) \/ Run \/ Exports \/ Ends \/ Killed

Spec == Init /\ [][Next]_vars
-----------------------------------------------------------------------------
(* Properties.                                                             *)

\* The lines of a text that begin within a field, by what Import-Csv makes of it.
NoteLines(text) ==
    {Len(Lines(SubSeq(text, 1, n))) :
        n \in {i \in DOMAIN text : /\ text[i] = "newline"
                                  /\ Fold(ImportStep, ImportStart, SubSeq(text, 1, i)).quoted}}

\* A line of a note that llmos takes for a row.
Phantom(text) == \E k \in NoteLines(text) : ParsesAsRow(Lines(text)[k])

\* What llmos reads is what the runner would read: whatever a program wrote into the
\* notes, and wherever the text is cut, either llmos reports an error, or it finds the rows
\* and the fields that Import-Csv finds, of a note the first line without its quotes; and
\* what it finds besides comes from lines that begin within a note.
ReadersAgree ==
    LET records == parse_benchmark_csv(file)
        table == ImportCsv(file)
        lines == Lines(file)
        from == At([k \in DOMAIN lines |-> k], DataLines(lines))
        own == At(records, {i \in DOMAIN records : from[i] \notin NoteLines(file)})
        Plain(line) == At(line, {i \in DOMAIN line : line[i] # "quote"})
    IN  records # Error =>
            /\ Len(own) = Len(table)
            /\ \A i \in DOMAIN table :
                  /\ \A c \in {Id, Model, Metric, Success} : own[i][c] = table[i][c]
                  /\ own[i][Note] = Plain(Lines(table[i][Note])[1])

\* A report is over the runs that it is asked for, each as it came out last, and leaves
\* out none before the last it counts; of a file that is not being written it is over the
\* whole plan, and every run in it has been run.  Nothing is said of a file with a phantom,
\* and only ReadersAgree of one that an export left cut.
ReportTruthful ==
    \A model \in Models \cup {None}, success_only \in BOOLEAN :
        LET report == run_benchmark(file, model, success_only)
            Chosen(n) == At([i \in 1..n |-> <<RunIds[i]>>],
                            {i \in 1..n : /\ success_only => outcome[i] = <<"true">>
                                          /\ model \in {None, Plan[i]}})
            Over(n) == report = Chosen(n)
        IN  report # Error /\ ~cut /\ ~Phantom(file) =>
                /\ \E n \in 0..Len(Plan) : Over(n)
                /\ runner # "exporting" =>
                      Over(Len(Plan)) /\ \A i \in Runs : outcome[i] \in {<<"true">>, <<"false">>}
=============================================================================
