-------------------------- MODULE CommandDebugger --------------------------
(***************************************************************************)
(* CommandDebugger's commands that move the program, over DebugSession:    *)
(* step makes a number of steps; run is the session's own; continue steps  *)
(* off a breakpoint and then runs; over runs a call through, one bounded   *)
(* run() at a time.  reset, irq, nmi and set move the target, and reset    *)
(* then makes one step.                                                    *)
(*                                                                         *)
(* Whether control is back at the instruction after the call, with the     *)
(* stack where it was, depends on the program: a free choice here.         *)
(***************************************************************************)
EXTENDS DebugSession

CONSTANTS
  ConsoleBudget,  \* 1,000,000 in the code
  StepCounts      \* the counts the user gives to step

ASSUME ConsoleAssumption ==
  /\ ConsoleBudget \in Nat \ {0, 1}
  /\ StepCounts \subseteq 1..ConsoleBudget

VARIABLES
  left,    \* step and over: the passes their loop still has
  spent    \* the steps the running command has completed

consoleVars == <<left, spent>>
allVars     == <<vars, consoleVars>>

ConsoleTypeOK ==
  /\ TypeOK
  /\ left \in 0..ConsoleBudget
  /\ spent \in 0..MaxTotal

ConsoleInit == Init /\ left = 0 /\ spent = 0

Spends == spent' = IF phase' = "idle" THEN 0 ELSE spent + 1

CommandFits == phase = "idle" /\ totalSteps + ConsoleBudget < MaxTotal

-----------------------------------------------------------------------------
RunFor(n, stopOnHalt) ==
  /\ phase' = "run"
  /\ run' = NewRun(n, None, stopOnHalt)

ContinueRuns ==
  /\ CommandFits /\ pc \notin breakpoints
  /\ RunFor(ConsoleBudget, TRUE) /\ callers' = <<"run">>
  /\ UNCHANGED <<targetVars, sessionVars, kind, result, consoleVars>>

ContinueStepsOff ==
  /\ CommandFits /\ pc \in breakpoints
  /\ Step /\ callers' = <<"continue">>
  /\ UNCHANGED <<run, result, consoleVars>>

(* Faulty: the step off the breakpoint is not counted. *)
ContinueGoesOnInFull ==
  /\ callers = <<"continue">>
  /\ StepCompletes
  /\ RunFor(ConsoleBudget, TRUE) /\ callers' = <<"run">>
  /\ Spends
  /\ UNCHANGED <<result, left>>

ContinueGoesOn ==
  /\ callers = <<"continue">>
  /\ StepCompletes
  /\ RunFor(ConsoleBudget - 1, TRUE) /\ callers' = <<"run">>
  /\ Spends
  /\ UNCHANGED <<result, left>>

(* step COUNT looks at no breakpoint and no watchpoint between its steps.  *)
StepBegins(count) ==
  /\ phase = "idle" /\ totalSteps + count <= MaxTotal
  /\ Step /\ callers' = <<"step">>
  /\ left' = count - 1
  /\ UNCHANGED <<run, result, spent>>

StepGoesOn ==
  /\ callers = <<"step">> /\ phase = "target"
  /\ StepCompletes
  /\ phase' = IF left = 0 THEN "idle" ELSE "command"
  /\ callers' = IF left = 0 THEN <<>> ELSE callers
  /\ Spends
  /\ UNCHANGED <<run, result, left>>

StepAgain ==
  /\ callers = <<"step">> /\ phase = "command"
  /\ Step
  /\ left' = left - 1
  /\ UNCHANGED <<callers, run, result, spent>>

OverSteps ==
  /\ CommandFits
  /\ Step /\ callers' = <<"over">>
  /\ left' = ConsoleBudget
  /\ UNCHANGED <<run, result, spent>>

OverGoesOn ==
  /\ callers = <<"over">>
  /\ StepCompletes
  /\ phase' = "command"
  /\ Spends
  /\ UNCHANGED <<callers, run, result, left>>

OverReturns ==
  /\ phase = "command" /\ callers = <<"over">>
  /\ phase' = "idle" /\ callers' = <<>> /\ result' = None
  /\ left' = 0 /\ spent' = 0
  /\ UNCHANGED <<targetVars, sessionVars, kind, run>>

(* Faulty: over looks at its limit and breakpoints only. *)
OverGoesThroughAnyReason == left > 0 /\ pc \notin breakpoints

(* Faulty: over leaves the breakpoints to run().                           *)
OverGoesThroughBreakpoint == left > 0 /\ result \in {None, "STEP_LIMIT"}

(* Faulty: the loop has no limit. *)
OverNeverGivesUp == pc \notin breakpoints /\ result \in {None, "STEP_LIMIT"}

OverGoesThrough ==
  left > 0 /\ pc \notin breakpoints /\ result \in {None, "STEP_LIMIT"}

OverRuns ==
  /\ phase = "command" /\ callers = <<"over">> /\ OverGoesThrough
  /\ RunFor(1, FALSE) /\ callers' = <<"run", "over">>
  /\ left' = left - 1 /\ result' = None
  /\ UNCHANGED <<targetVars, sessionVars, kind, spent>>

-----------------------------------------------------------------------------
ConsoleCommands ==
  \/ ContinueRuns \/ ContinueStepsOff \/ OverSteps
  \/ \E count \in StepCounts : StepBegins(count)

ConsoleMoves ==
  \/ ContinueGoesOn \/ OverGoesOn \/ OverReturns \/ OverRuns
  \/ StepGoesOn \/ StepAgain

(* The session's own acts, seen from the console. *)
HostActsBeside == (HostEdits \/ HostCalls) /\ UNCHANGED consoleVars

SessionWorks ==
  \/ /\ RunSteps \/ \E access \in Accesses : TargetAccess(access)
     /\ UNCHANGED consoleVars
  \/ (RunContinues /\ Spends /\ UNCHANGED left)
  \/ /\ TargetRaises \/ StepReturns \/ RunStops
     /\ IF phase' = "idle" THEN left' = 0 /\ spent' = 0 ELSE UNCHANGED consoleVars

ConsoleNext == ConsoleCommands \/ HostActsBeside \/ ConsoleMoves \/ SessionWorks

(* The one thread goes on inside a command until it has returned. *)
ConsoleFairness == WF_allVars(ConsoleMoves \/ SessionWorks)

ConsoleSpec == ConsoleInit /\ [][ConsoleNext]_allVars /\ ConsoleFairness
-----------------------------------------------------------------------------
(* A run's steps keep to its limit, the step a continue makes off a        *)
(* breakpoint counts against it, and over makes one step beside its        *)
(* limited loop.                                                           *)
CommandsWithinBudget ==
  /\ callers = <<"run">> =>
       \/ spent + (run.maxSteps - run.steps) <= run.maxSteps
       \/ spent + (run.maxSteps - run.steps) <= ConsoleBudget
  /\ callers = <<"run", "over">> =>
       spent + (run.maxSteps - run.steps) + left <= ConsoleBudget + 1

OverStepsOn == callers = <<"run", "over">> /\ phase = "run" /\ phase' = "target"

(* Once its loop has made a step, over makes no other past one that        *)
(* touched a watched byte, a watchpoint set from the step's own callbacks  *)
(* included: the reason run() gives comes back to it (console.py:334).     *)
OverStopsOnTouch == [][OverStepsOn /\ spent > 1 => ~ Touched]_allVars

(* over's loop makes no step from an address that has a breakpoint by      *)
(* then, not even the step that enters an interrupt there, which run() of  *)
(* itself would make (console.py:329-332, debug.py:404).                   *)
OverStopsAtBreakpoint == [][OverStepsOn => pc \notin breakpoints]_allVars

(* step COUNT, run, continue and over return, whatever the program does and *)
(* whichever breakpoints are set meanwhile, if the target's own steps end. *)
CommandsReturn == (callers # <<>>) ~> (callers = <<>>)

(* "watch ... Stop after a step that touches the byte at ADDRESS"          *)
(* (console.py:51): no command goes on past such a step.                   *)
CommandsStopOnTouch ==
  [][(phase = "run" /\ phase' = "target" /\ spent > 0) => ~ Touched]_allVars
=============================================================================
