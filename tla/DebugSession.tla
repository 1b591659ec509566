---------------------------- MODULE DebugSession ----------------------------
(***************************************************************************)
(* DebugSession: step() and run() over a target it does not own, with the  *)
(* host editing breakpoints and watchpoints, clearing the history, closing *)
(* the session or raising from inside the target's bus callbacks.          *)
(*                                                                         *)
(* The host has control when phase is "idle" and, through the callbacks of *)
(* the target's accesses, when it is "target".  callers are the methods    *)
(* waiting for the innermost step() or run() to return, that one's first.  *)
(*                                                                         *)
(* Of the target this module keeps the address of its next instruction,    *)
(* what its next step takes, and the accesses its step makes; where they   *)
(* lead is a free choice.  made is what really happened, to hold the       *)
(* session's records against; the session does not see it.  What the host  *)
(* does to the bus callables themselves is BusTracking's.                  *)
(***************************************************************************)
EXTENDS Naturals, Sequences

CONSTANTS
  Addresses,      \* every address the target can run at or touch
  Marked,         \* the addresses the host sets breakpoints and watchpoints on
  None,
  HistoryLimit,   \* history_limit
  StepBudgets,    \* the max_steps the host passes to run()
  CycleBudgets,   \* the max_cycles, None among them
  MaxAccesses,    \* bound: accesses of one step of the target
  MaxTotal        \* bound: steps the session makes

ASSUME SessionAssumption ==
  /\ Marked \subseteq Addresses
  /\ HistoryLimit \in Nat /\ MaxAccesses \in Nat \ {0} /\ MaxTotal \in Nat
  /\ StepBudgets \subseteq Nat \ {0}
  /\ CycleBudgets \subseteq (Nat \ {0}) \cup {None}

Runs == [steps : Nat, cycles : Nat, maxSteps : Nat, maxCycles : Nat \cup {None},
         stopOnHalt : BOOLEAN]

Reasons == {"BREAKPOINT", "WATCHPOINT", "HALTED", "STEP_LIMIT", "CYCLE_LIMIT"}

ASSUME NoneAssumption == None \notin Runs \cup Reasons

VARIABLES
  pc, pending,              \* the target's next address, and what its next step takes
  breakpoints, watchpoints,
  totalSteps, history,      \* history: the sequence numbers of the retained records
  accesses,                 \* _accesses; None when the session does not track
  phase, callers,
  kind,                     \* step's local: the boundary it foretold
  run,                      \* run's locals and arguments
  result,                   \* what run() has returned to a method waiting for it
  made                      \* the accesses the target's step has really made

targetVars  == <<pc, pending, made>>
sessionVars == <<breakpoints, watchpoints, totalSteps, history, accesses>>
callVars    == <<phase, callers, kind, run, result>>
vars        == <<targetVars, sessionVars, callVars>>

Boundaries == {"INSTRUCTION", "ENTRY", "JAM_IDLE"}   \* ENTRY: RESET, NMI or IRQ
AccessKinds == {"r", "w"}
Accesses == AccessKinds \X Addresses

TypeOK ==
  /\ pc \in Addresses /\ pending \in Boundaries
  /\ breakpoints \subseteq Marked
  /\ watchpoints \in [Marked -> SUBSET AccessKinds]
  /\ totalSteps \in 0..MaxTotal
  /\ history \in Seq(0..MaxTotal) /\ Len(history) <= HistoryLimit
  /\ accesses \in Seq(Accesses) \cup {None}
  /\ phase \in {"idle", "target", "run", "command"}
  /\ callers \in Seq({"run", "step", "continue", "over"}) /\ Len(callers) <= 2
  /\ kind \in Boundaries \cup {None}
  /\ run \in Runs \cup {None}
  /\ result \in Reasons \cup {None}
  /\ made \in Seq(Accesses)

Init ==
  /\ pc \in Addresses /\ pending \in Boundaries
  /\ made = <<>>
  /\ breakpoints = {} /\ watchpoints = [a \in Marked |-> {}]
  /\ totalSteps = 0
  /\ history = <<>>
  /\ accesses \in {None, <<>>}
  /\ phase = "idle" /\ callers = <<>>
  /\ kind = None /\ run = None /\ result = None

Tracking == accesses # None
HostActs == phase \in {"idle", "target"}

-----------------------------------------------------------------------------
(* The host's edits. *)

SetBreakpoint(a) ==
  /\ HostActs
  /\ \/ breakpoints' = breakpoints \cup {a}
     \/ breakpoints' = breakpoints \ {a}
  /\ UNCHANGED <<targetVars, callVars, watchpoints, totalSteps, history, accesses>>

AddWatchpoint(a, kinds) ==
  /\ HostActs /\ Tracking
  /\ watchpoints' = [watchpoints EXCEPT ![a] = kinds]
  /\ UNCHANGED <<targetVars, callVars, breakpoints, totalSteps, history, accesses>>

RemoveWatchpoint(a) ==
  /\ HostActs
  /\ watchpoints' = [watchpoints EXCEPT ![a] = {}]
  /\ UNCHANGED <<targetVars, callVars, breakpoints, totalSteps, history, accesses>>

ClearHistory ==
  /\ HostActs
  /\ history' = <<>>
  /\ UNCHANGED <<targetVars, callVars, breakpoints, watchpoints, totalSteps, accesses>>

Close ==
  /\ HostActs
  /\ accesses' = None
  /\ UNCHANGED <<targetVars, callVars, breakpoints, watchpoints, totalSteps, history>>

(* What the wrappers do with one access of the target. *)
Logged(access) == IF Tracking THEN Append(accesses, access) ELSE None

(* The host steps the target itself, or moves it, behind the session.      *)
HostMovesTarget ==
  /\ phase = "idle"
  /\ Tracking => Len(accesses) <= MaxAccesses
  /\ pc' \in Addresses /\ pending' \in Boundaries
  /\ \E access \in Accesses : accesses' = Logged(access)
  /\ UNCHANGED <<made, breakpoints, watchpoints, totalSteps, history, callVars>>

HostEdits ==
  \/ \E a \in Marked : SetBreakpoint(a) \/ RemoveWatchpoint(a)
  \/ \E a \in Marked : \E kinds \in (SUBSET AccessKinds) \ {{}} :
       AddWatchpoint(a, kinds)
  \/ ClearHistory \/ Close \/ HostMovesTarget

-----------------------------------------------------------------------------
(* step(), up to and from its call of the target. *)

(* Faulty: the log still holds what came before the step. *)
StepUncleared ==
  /\ totalSteps < MaxTotal
  /\ phase' = "target"
  /\ kind' = pending
  /\ accesses' = accesses
  /\ made' = <<>>
  /\ UNCHANGED <<pc, pending, breakpoints, watchpoints, totalSteps, history>>

Step ==
  /\ totalSteps < MaxTotal
  /\ phase' = "target"
  /\ kind' = pending
  /\ accesses' = IF Tracking THEN <<>> ELSE None
  /\ made' = <<>>
  /\ UNCHANGED <<pc, pending, breakpoints, watchpoints, totalSteps, history>>

HostSteps ==
  /\ phase = "idle"
  /\ Step
  /\ UNCHANGED <<callers, run, result>>

TargetAccess(access) ==
  /\ phase = "target" /\ Len(made) < MaxAccesses
  /\ made' = Append(made, access)
  /\ accesses' = Logged(access)
  /\ UNCHANGED <<pc, pending, breakpoints, watchpoints, totalSteps, history, callVars>>

(* Faulty: what the callback raised is caught, and the step made again.    *)
TargetRaisesCaught ==
  /\ phase = "target"
  /\ pc' \in Addresses /\ pending' \in Boundaries
  /\ made' = <<>> /\ accesses' = IF Tracking THEN <<>> ELSE None
  /\ UNCHANGED <<breakpoints, watchpoints, totalSteps, history, callVars>>

(* The host's callback raised: step() and whatever called it are abandoned. *)
TargetRaises ==
  /\ phase = "target"
  /\ pc' \in Addresses /\ pending' \in Boundaries
  /\ phase' = "idle" /\ callers' = <<>>
  /\ kind' = None /\ run' = None /\ result' = None
  /\ made' = <<>>
  /\ UNCHANGED sessionVars

(* One access a cycle (BusCycles shows it of the CPU). *)
Cycles == Len(made)

(* Faulty: once full, the ring drops the record just made.                 *)
RetainedOldest(sequence) ==
  IF Len(history) < HistoryLimit THEN Append(history, sequence) ELSE history

(* deque(maxlen=history_limit), or nothing at all when the limit is 0. *)
Retained(sequence) ==
  IF HistoryLimit = 0 THEN <<>>
  ELSE IF Len(history) < HistoryLimit THEN Append(history, sequence)
  ELSE Append(Tail(history), sequence)

StepCompletes ==
  /\ phase = "target" /\ made # <<>>
  /\ pc' \in Addresses /\ pending' \in Boundaries
  /\ history' = Retained(totalSteps)
  /\ totalSteps' = totalSteps + 1
  /\ kind' = None /\ made' = <<>>
  /\ UNCHANGED <<breakpoints, watchpoints, accesses>>

StepReturns ==
  /\ callers = <<>>
  /\ StepCompletes
  /\ phase' = "idle"
  /\ UNCHANGED <<callers, run, result>>

-----------------------------------------------------------------------------
(* run(). *)

NewRun(maxSteps, maxCycles, stopOnHalt) ==
  [steps |-> 0, cycles |-> 0, maxSteps |-> maxSteps, maxCycles |-> maxCycles,
   stopOnHalt |-> stopOnHalt]

(* The host's own call returns to nobody the session knows. *)
HostRuns(maxSteps, maxCycles, stopOnHalt) ==
  /\ phase = "idle" /\ totalSteps + maxSteps <= MaxTotal
  /\ phase' = "run" /\ callers' = <<"run">>
  /\ run' = NewRun(maxSteps, maxCycles, stopOnHalt)
  /\ UNCHANGED <<targetVars, sessionVars, kind, result>>

RunReturns(reason) ==
  /\ result' = IF Tail(callers) = <<>> THEN None ELSE reason
  /\ run' = None
  /\ callers' = Tail(callers)
  /\ phase' = IF Tail(callers) = <<>> THEN "idle" ELSE "command"

AtBreakpoint == pending = "INSTRUCTION" /\ pc \in breakpoints
AtHalt       == run.stopOnHalt /\ pending = "JAM_IDLE"

RunStops ==
  /\ phase = "run"
  /\ \/ run.steps >= run.maxSteps /\ RunReturns("STEP_LIMIT")
     \/ run.steps < run.maxSteps /\ AtBreakpoint /\ RunReturns("BREAKPOINT")
     \/ run.steps < run.maxSteps /\ AtHalt /\ RunReturns("HALTED")
  /\ UNCHANGED <<targetVars, sessionVars, kind>>

RunSteps ==
  /\ phase = "run"
  /\ run.steps < run.maxSteps /\ ~ AtBreakpoint /\ ~ AtHalt
  /\ Step
  /\ UNCHANGED <<callers, run, result>>

(* Faulty: only the step's first access is looked at. *)
HitsFirst ==
  Tracking /\ accesses # <<>> /\ \E a \in Marked, k \in AccessKinds :
    accesses[1] = <<k, a>> /\ k \in watchpoints[a]

(* _watch_hits is not empty. *)
Hits ==
  Tracking /\ \E i \in DOMAIN accesses : \E a \in Marked, k \in AccessKinds :
    accesses[i] = <<k, a>> /\ k \in watchpoints[a]

Counted == [run EXCEPT !.steps = @ + 1, !.cycles = @ + Cycles]

(* Faulty: the cycle budget must be exceeded, not just met. *)
CyclesOverspent(counted) == counted.maxCycles # None /\ counted.cycles > counted.maxCycles

CyclesSpent(counted) == counted.maxCycles # None /\ counted.cycles >= counted.maxCycles

RunContinues ==
  /\ callers # <<>> /\ Head(callers) = "run"
  /\ StepCompletes
  /\ IF Hits THEN RunReturns("WATCHPOINT")
     ELSE IF CyclesSpent(Counted) THEN RunReturns("CYCLE_LIMIT")
     ELSE /\ run' = Counted
          /\ phase' = "run"
          /\ UNCHANGED <<callers, result>>

-----------------------------------------------------------------------------
SessionMoves == RunStops \/ RunSteps \/ RunContinues \/ StepReturns
TargetMoves  == TargetRaises \/ \E access \in Accesses : TargetAccess(access)

HostCalls ==
  \/ HostSteps
  \/ \E n \in StepBudgets, c \in CycleBudgets, stop \in BOOLEAN : HostRuns(n, c, stop)

Next == HostEdits \/ HostCalls \/ SessionMoves \/ TargetMoves
Spec == Init /\ [][Next]_vars

(* The one thread goes on inside a call, and the target's step() ends.     *)
Fairness == WF_vars(SessionMoves \/ TargetMoves)
FairSpec == Spec /\ Fairness
-----------------------------------------------------------------------------
(* A record, which copies the log when the target's step ends, holds       *)
(* exactly the accesses of its own step, in order, whatever the host did   *)
(* between steps or in the middle of one and however the step before it    *)
(* ended (docs/debug-session.md, "Records and history").                   *)
RecordsOwnAccesses == phase = "target" => accesses \in {None, made}

(* The retained records are the newest ones, none missing, as long as the  *)
(* ring has room, across clears and abandoned steps.                       *)
HistoryIsNewest ==
  \A i \in DOMAIN history : history[i] = totalSteps - Len(history) + i - 1

(* A run never begins a step with a budget already spent, so only the last *)
(* boundary can carry it past max_cycles (debug.py:386).                   *)
BudgetsHold ==
  run # None =>
    /\ run.steps <= run.maxSteps
    /\ run.maxCycles # None => run.cycles < run.maxCycles
    /\ run.steps <= run.cycles

(* The last step really touched a watched byte. *)
Touched ==
  Tracking /\ \E i \in DOMAIN accesses : \E a \in Marked, k \in AccessKinds :
    accesses[i] = <<k, a>> /\ k \in watchpoints[a]

(* A run never goes on past a step that touched a watched byte, a dummy    *)
(* access or a watchpoint set from the step's own callbacks included.      *)
RunStopsOnTouch ==
  [][(phase = "run" /\ phase' = "target" /\ run.steps > 0) => ~ Touched]_vars
=============================================================================
