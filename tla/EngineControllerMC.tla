------------------------- MODULE EngineControllerMC -------------------------
(* Small instances: ec_cmd, a program of two commands, one of messages only. *)
EXTENDS EngineController, TLC

CONSTANTS c1, c2, p1, p2

NoProc == {}
OneCommander == {c1}
OneProgram == {p1}
TwoPrograms == {p1, p2}
Lengths == [p \in Programs |-> IF p = p1 THEN 2 ELSE 0]
=============================================================================
