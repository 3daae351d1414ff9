-------------------------- MODULE MCBenchmarkPlan --------------------------
(***************************************************************************)
(* BenchmarkPlan for TLC: two runs of two models, so that one is done when *)
(* the other is written, and notes with each token that means something in *)
(* a CSV file, one of them with a line that reads as a row.                *)
(***************************************************************************)
EXTENDS BenchmarkPlan

MCRunIds == <<"R1", "R2">>
MCPlan == <<"dense", "moe">>
MCNotes == {<<"word", "comma", "word">>, <<"word", "quote", "comma">>, <<"word", "newline", "word">>,
            <<"word", "newline", "R3", "comma", "moe", "comma", "10", "comma", "true", "comma", "word">>}
=============================================================================
