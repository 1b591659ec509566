----------------------------- MODULE MCConsole -----------------------------
(* Values for CommandDebugger's constants. *)
EXTENDS CommandDebugger

CONSTANTS home, away

Both == {home, away}
HomeOnly == {home}
OneAndThree == {1, 3}
TwoOrNone == {2, None}
NoCycleBudget == {None}
=============================================================================
