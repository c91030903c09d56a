-------------------------- MODULE EngineProgramMC ---------------------------
(* Two controllers and an engine program, at a time of day far from zero   *)
(* and Width.                                                              *)
EXTENDS EngineProgram, FiniteSets, TLC

CONSTANTS c1, c2, ec_program

Near == {-1, 1}
\* Bound: two commands overlap only while there is no event.
FewCommands == events = <<>> \/ Cardinality(busy \cap Controllers) <= 1

Either == Permutations({c1, c2})

MCStrtol(t) == CASE t = "1" -> 1 [] t = "-1" -> -1 [] OTHER -> 0
MCOpens(t) == t \in {"\"go", "\"go\""}
MCCloses(t) == t \in {"now\"", "\"go\""}

MCLines ==
  {<<"0", "4", "1">>, <<"1", "MSG", "\"go", "", "now\"", "#", "fire">>,
   <<"T", "=", "1">>, <<"T", "4", "1">>, <<"T", "MSG", "\"go\"">>,
   <<"", "#">>, <<"end">>, <<"stop">>, <<"1", "MSG">>, <<"1", "MSG", "go">>, <<"1", "4">>}
=============================================================================
