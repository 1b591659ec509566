----------------------- MODULE CommandDebuggerProofs -----------------------
(***************************************************************************)
(* What DebugSession and the commands over it keep to, for every set of    *)
(* addresses, every history limit and every budget: theorems of            *)
(* ConsoleSpec.                                                            *)
(*                                                                         *)
(* The inductive invariant joins the properties with which chain of calls  *)
(* may be waiting in which phase (CallsNest), what step() may find         *)
(* (RoomToStep), how much of its budget each command has left (BudgetLeft) *)
(* what the steps before a pause have not touched (PausesUntouched), and   *)
(* what over's loop has looked at before a step of it (OverPauses).        *)
(***************************************************************************)
EXTENDS CommandDebugger, SequenceTheorems, TLAPS

USE SessionAssumption, NoneAssumption, ConsoleAssumption

Chains == {<<>>, <<"run">>, <<"step">>, <<"continue">>, <<"over">>, <<"run", "over">>}

InRun == callers \in {<<"run">>, <<"run", "over">>}

SessionTypes ==
  /\ pc \in Addresses /\ pending \in Boundaries
  /\ breakpoints \subseteq Marked
  /\ watchpoints \in [Marked -> SUBSET AccessKinds]
  /\ totalSteps \in 0..MaxTotal
  /\ history \in Seq(0..MaxTotal) /\ Len(history) <= HistoryLimit
  /\ accesses \in Seq(Accesses) \cup {None}
  /\ kind \in Boundaries \cup {None}
  /\ made \in Seq(Accesses)

CallTypes ==
  /\ phase \in {"idle", "target", "run", "command"}
  /\ run \in Runs \cup {None}
  /\ result \in Reasons \cup {None}
  /\ left \in 0..ConsoleBudget
  /\ spent \in Nat /\ totalSteps \in Nat

CallsNest ==
  /\ callers \in Chains
  /\ run # None <=> InRun
  /\ phase = "idle" => callers = <<>>
  /\ phase = "run" => InRun
  /\ phase = "command" => callers \in {<<"step">>, <<"over">>}
  /\ result # None => phase = "command" /\ callers = <<"over">>

RoomToStep ==
  /\ phase = "target" => totalSteps < MaxTotal
  /\ phase = "target" /\ run # None => run.steps < run.maxSteps
  /\ spent <= totalSteps

BudgetLeft ==
  /\ run # None => run.maxSteps > 0
  /\ phase = "idle" => spent = 0
  /\ callers = <<"continue">> => spent = 0
  /\ callers = <<"over">> /\ phase = "target" => spent = 0 /\ left = ConsoleBudget
  /\ callers = <<"over">> /\ phase = "command" => spent + left <= ConsoleBudget + 1
  /\ callers = <<"step">> /\ phase = "command" => left > 0

PausesUntouched ==
  /\ phase = "run" /\ run.steps > 0 => ~ Touched
  /\ phase = "command" /\ result # None /\ result = "STEP_LIMIT" => ~ Touched

OverPauses ==
  /\ callers = <<"run", "over">> => run.maxSteps = 1
  /\ callers = <<"over">> /\ phase = "command" /\ result = None => spent = 1
  /\ callers = <<"run", "over">> /\ phase = "run" /\ run.steps = 0 =>
       pc \notin breakpoints /\ (spent > 1 => ~ Touched)

SessionInv == SessionTypes /\ RecordsOwnAccesses /\ HistoryIsNewest

CallInv ==
  /\ CallTypes /\ CallsNest /\ RoomToStep
  /\ BudgetsHold /\ CommandsWithinBudget /\ BudgetLeft
  /\ PausesUntouched /\ OverPauses

IInv == SessionInv /\ CallInv

-----------------------------------------------------------------------------
(* The chains of calls are the ones the type invariant allows, and differ. *)
LEMMA ChainsTyped ==
  \A c \in Chains : c \in Seq({"run", "step", "continue", "over"}) /\ Len(c) <= 2
<1> DEFINE K == {"run", "step", "continue", "over"}
<1>1. <<>> \in Seq(K) /\ Len(<<>>) <= 2
  OBVIOUS
<1>2. \A k \in K : <<k>> \in Seq(K) /\ Len(<<k>>) <= 2
  OBVIOUS
<1>3. <<"run", "over">> \in Seq(K) /\ Len(<<"run", "over">>) <= 2
  OBVIOUS
<1> QED
  BY <1>1, <1>2, <1>3 DEF Chains

LEMMA ChainsDiffer ==
  /\ Tail(<<"run">>) = <<>> /\ Tail(<<"run", "over">>) = <<"over">>
  /\ <<"run">> # <<>> /\ <<"run", "over">> # <<>> /\ <<"over">> # <<>>
  /\ <<"step">> # <<>> /\ <<"continue">> # <<>>
  /\ <<"run">> # <<"run", "over">>
  /\ \A k \in {"step", "continue", "over"} : <<k>> # <<"run">> /\ <<k>> # <<"run", "over">>
  /\ <<"step">> # <<"continue">> /\ <<"step">> # <<"over">> /\ <<"continue">> # <<"over">>
OBVIOUS

LEMMA RunsFirst ==
  \A c \in Chains : c # <<>> /\ Head(c) = "run" <=> c \in {<<"run">>, <<"run", "over">>}
BY DEF Chains

LEMMA IInvTyped == ASSUME IInv PROVE ConsoleTypeOK
<1>1. spent \in 0..MaxTotal
  BY DEF IInv, SessionInv, CallInv, SessionTypes, CallTypes, RoomToStep
<1> QED
  BY <1>1, ChainsTyped
  DEF ConsoleTypeOK, TypeOK, IInv, SessionInv, CallInv, SessionTypes, CallTypes, CallsNest

LEMMA InitIInv == ASSUME ConsoleInit PROVE IInv
<1>1. SessionInv
  <2>1. SessionTypes
    <3>1. <<>> \in Seq(0..MaxTotal) /\ Len(<<>>) = 0 /\ <<>> \in Seq(Accesses)
      OBVIOUS
    <3>2. watchpoints \in [Marked -> SUBSET AccessKinds]
      BY DEF ConsoleInit, Init
    <3>3. 0 \in 0..MaxTotal /\ 0 <= HistoryLimit
      OBVIOUS
    <3> QED
      BY <3>1, <3>2, <3>3 DEF ConsoleInit, Init, SessionTypes
  <2>2. RecordsOwnAccesses /\ HistoryIsNewest
    BY DEF ConsoleInit, Init, RecordsOwnAccesses, HistoryIsNewest
  <2> QED
    BY <2>1, <2>2 DEF SessionInv
<1>2. CallInv
  BY ChainsDiffer DEF ConsoleInit, Init, CallInv, CallTypes, CallsNest, InRun, Chains,
     RoomToStep, BudgetsHold, CommandsWithinBudget, BudgetLeft, PausesUntouched, OverPauses
<1> QED
  BY <1>1, <1>2 DEF IInv

-----------------------------------------------------------------------------
(* step(): what it does to the records, whoever calls it. *)
LEMMA StepKeepsSession == ASSUME SessionInv, Step PROVE SessionInv'
<1>1. SessionTypes'
  BY DEF SessionInv, SessionTypes, Step, Boundaries
<1>2. RecordsOwnAccesses'
  BY DEF Step, RecordsOwnAccesses
<1>3. HistoryIsNewest'
  BY DEF Step, SessionInv, HistoryIsNewest
<1> QED
  BY <1>1, <1>2, <1>3 DEF SessionInv

LEMMA RetainedIsNewest ==
  ASSUME SessionInv, totalSteps < MaxTotal,
         history' = Retained(totalSteps), totalSteps' = totalSteps + 1
  PROVE  /\ history' \in Seq(0..MaxTotal) /\ Len(history') <= HistoryLimit
         /\ HistoryIsNewest'
<1>1. /\ history \in Seq(0..MaxTotal) /\ Len(history) \in Nat /\ Len(history) <= HistoryLimit
      /\ totalSteps \in 0..MaxTotal
      /\ \A i \in 1..Len(history) : history[i] = totalSteps - Len(history) + i - 1
  BY DEF SessionInv, SessionTypes, HistoryIsNewest
<1>2. CASE HistoryLimit = 0
  BY <1>1, <1>2 DEF Retained, HistoryIsNewest
<1>3. CASE HistoryLimit # 0 /\ Len(history) < HistoryLimit
  <2>1. history' = Append(history, totalSteps)
    BY <1>3 DEF Retained
  <2>2. /\ history' \in Seq(0..MaxTotal) /\ Len(history') = Len(history) + 1
        /\ \A i \in 1..Len(history) : history'[i] = history[i]
        /\ history'[Len(history) + 1] = totalSteps
    BY <1>1, <2>1
  <2>3. ASSUME NEW i \in 1..Len(history')
        PROVE  history'[i] = totalSteps' - Len(history') + i - 1
    <3>1. CASE i = Len(history) + 1
      BY <1>1, <2>2, <3>1
    <3>2. CASE i \in 1..Len(history)
      <4>1. history'[i] = totalSteps - Len(history) + i - 1
        BY <1>1, <2>2, <3>2
      <4> QED
        BY <1>1, <2>2, <3>2, <4>1
    <3> QED
      BY <1>1, <2>2, <3>1, <3>2
  <2> QED
    BY <1>1, <1>3, <2>2, <2>3 DEF HistoryIsNewest
<1>4. CASE HistoryLimit # 0 /\ ~ (Len(history) < HistoryLimit)
  <2>1. history' = Append(Tail(history), totalSteps) /\ history # <<>>
    BY <1>1, <1>4 DEF Retained
  <2>2. /\ Tail(history) \in Seq(0..MaxTotal) /\ Len(Tail(history)) = Len(history) - 1
        /\ \A i \in 1..(Len(history) - 1) : Tail(history)[i] = history[i + 1]
    BY <1>1, <2>1
  <2>3. /\ history' \in Seq(0..MaxTotal) /\ Len(history') = Len(history)
        /\ \A i \in 1..(Len(history) - 1) : history'[i] = history[i + 1]
        /\ history'[Len(history)] = totalSteps
    BY <1>1, <2>1, <2>2
  <2>4. ASSUME NEW i \in 1..Len(history')
        PROVE  history'[i] = totalSteps' - Len(history') + i - 1
    <3>1. Len(history) \in Nat \ {0}
      BY <1>1, <2>1
    <3>2. CASE i = Len(history)
      BY <1>1, <2>3, <3>1, <3>2
    <3>3. CASE i \in 1..(Len(history) - 1)
      <4>1. history'[i] = history[i + 1] /\ i + 1 \in 1..Len(history)
        BY <1>1, <2>3, <3>1, <3>3
      <4>2. history[i + 1] = totalSteps - Len(history) + (i + 1) - 1
        BY <1>1, <4>1
      <4> QED
        BY <1>1, <2>3, <3>1, <3>3, <4>1, <4>2
    <3> QED
      BY <1>1, <2>3, <3>1, <3>2, <3>3
  <2> QED
    <3>2. DOMAIN history' = 1..Len(history')
      BY <2>3
    <3>1. HistoryIsNewest'
      BY <2>4, <3>2 DEF HistoryIsNewest
    <3> QED
      BY <1>1, <2>3, <3>1
<1> QED
  BY <1>2, <1>3, <1>4

LEMMA CompletionKeepsSession ==
  ASSUME SessionInv, RoomToStep, StepCompletes, phase' # "target"
  PROVE  SessionInv' /\ totalSteps' = totalSteps + 1
<1>1. totalSteps < MaxTotal
  BY DEF StepCompletes, RoomToStep
<1>2. totalSteps' = totalSteps + 1
  BY DEF StepCompletes
<1>3. /\ history' \in Seq(0..MaxTotal) /\ Len(history') <= HistoryLimit
      /\ HistoryIsNewest'
  BY <1>1, <1>2, RetainedIsNewest DEF StepCompletes
<1>4. SessionTypes'
  BY <1>1, <1>3 DEF StepCompletes, SessionInv, SessionTypes
<1>5. RecordsOwnAccesses'
  BY DEF RecordsOwnAccesses
<1> QED
  BY <1>2, <1>3, <1>4, <1>5 DEF SessionInv

-----------------------------------------------------------------------------
(* What the host does between steps and in the target's callbacks leaves   *)
(* the calls in progress alone.                                            *)
LEMMA CallsLeftAlone ==
  ASSUME CallInv, phase \in {"idle", "target"},
         UNCHANGED <<callVars, consoleVars, totalSteps>>
  PROVE  CallInv'
BY DEF CallInv, callVars, consoleVars, CallTypes, CallsNest, InRun, RoomToStep,
       BudgetsHold, CommandsWithinBudget, BudgetLeft, PausesUntouched, OverPauses

LEMMA EditsKeepIInv == ASSUME IInv, HostEdits, UNCHANGED consoleVars PROVE IInv'
<1> USE DEF IInv, targetVars, callVars
<1>1. ASSUME NEW a \in Marked, SetBreakpoint(a)  PROVE IInv'
  <2>1. SessionInv'
    BY <1>1 DEF SetBreakpoint, SessionInv, SessionTypes, RecordsOwnAccesses, HistoryIsNewest
  <2> QED
    BY <1>1, <2>1, CallsLeftAlone DEF SetBreakpoint, HostActs
<1>2. ASSUME NEW a \in Marked, RemoveWatchpoint(a)  PROVE IInv'
  <2>1. SessionInv'
    BY <1>2 DEF RemoveWatchpoint, SessionInv, SessionTypes, RecordsOwnAccesses, HistoryIsNewest
  <2> QED
    BY <1>2, <2>1, CallsLeftAlone DEF RemoveWatchpoint, HostActs
<1>3. ASSUME NEW a \in Marked, NEW kinds \in (SUBSET AccessKinds) \ {{}},
             AddWatchpoint(a, kinds)
      PROVE  IInv'
  <2>1. SessionInv'
    BY <1>3 DEF AddWatchpoint, SessionInv, SessionTypes, RecordsOwnAccesses, HistoryIsNewest
  <2> QED
    BY <1>3, <2>1, CallsLeftAlone DEF AddWatchpoint, HostActs
<1>4. CASE ClearHistory
  <2>1. SessionInv'
    <3>1. <<>> \in Seq(0..MaxTotal) /\ Len(<<>>) = 0 /\ 0 <= HistoryLimit
      OBVIOUS
    <3>2. SessionTypes'
      BY <1>4, <3>1 DEF ClearHistory, SessionInv, SessionTypes
    <3>3. RecordsOwnAccesses' /\ HistoryIsNewest'
      BY <1>4 DEF ClearHistory, SessionInv, RecordsOwnAccesses, HistoryIsNewest
    <3> QED
      BY <3>2, <3>3 DEF SessionInv
  <2> QED
    BY <1>4, <2>1, CallsLeftAlone DEF ClearHistory, HostActs
<1>5. CASE Close
  <2>1. SessionInv'
    BY <1>5 DEF Close, SessionInv, SessionTypes, RecordsOwnAccesses, HistoryIsNewest
  <2> QED
    BY <1>5, <2>1, CallsLeftAlone DEF Close, HostActs
<1>6. CASE HostMovesTarget
  <2>1. accesses' \in Seq(Accesses) \cup {None}
    BY <1>6 DEF HostMovesTarget, Logged, Tracking, SessionInv, SessionTypes
  <2>2. SessionTypes'
    BY <1>6, <2>1 DEF HostMovesTarget, SessionInv, SessionTypes
  <2>3. RecordsOwnAccesses' /\ HistoryIsNewest'
    BY <1>6 DEF HostMovesTarget, SessionInv, RecordsOwnAccesses, HistoryIsNewest
  <2>4. SessionInv'
    BY <2>2, <2>3 DEF SessionInv
  <2> QED
    BY <1>6, <2>4, CallsLeftAlone DEF HostMovesTarget
<1> QED
  BY <1>1, <1>2, <1>3, <1>4, <1>5, <1>6 DEF HostEdits

LEMMA TargetAccessKeepsIInv ==
  ASSUME IInv, NEW access \in Accesses, TargetAccess(access), UNCHANGED consoleVars
  PROVE  IInv'
<1>1. made' \in Seq(Accesses) /\ accesses' \in Seq(Accesses) \cup {None}
  BY DEF TargetAccess, Logged, Tracking, IInv, SessionInv, SessionTypes
<1>2. SessionTypes'
  BY <1>1 DEF TargetAccess, callVars, IInv, SessionInv, SessionTypes
<1>3. RecordsOwnAccesses'
  BY DEF TargetAccess, Logged, Tracking, IInv, SessionInv, RecordsOwnAccesses
<1>4. HistoryIsNewest'
  BY DEF TargetAccess, IInv, SessionInv, HistoryIsNewest
<1>5. CallInv'
  BY CallsLeftAlone DEF TargetAccess, IInv, callVars
<1> QED
  BY <1>2, <1>3, <1>4, <1>5 DEF IInv, SessionInv

-----------------------------------------------------------------------------
(* The calls that begin at an idle session. *)
LEMMA IdleIs == ASSUME IInv, phase = "idle" PROVE callers = <<>> /\ run = None /\ result = None /\ spent = 0
BY ChainsDiffer DEF IInv, CallInv, CallsNest, InRun, BudgetLeft

(* What any caller of run() has to see to. *)
LEMMA FreshRun ==
  ASSUME NEW n \in Nat \ {0}, NEW c \in (Nat \ {0}) \cup {None}, NEW stop \in BOOLEAN,
         run' = NewRun(n, c, stop), phase' = "run", result' = None,
         callers' \in {<<"run">>, <<"run", "over">>},
         totalSteps' \in Nat, spent' \in Nat, spent' <= totalSteps',
         left' \in 0..ConsoleBudget,
         callers' = <<"run">> => spent' = 0 \/ spent' + n <= ConsoleBudget,
         callers' = <<"run", "over">> =>
           /\ spent' + n + left' <= ConsoleBudget + 1 /\ n = 1
           /\ pc' \notin breakpoints' /\ (spent' > 1 => ~ Touched')
  PROVE  CallInv'
<1>1. /\ run' \in Runs /\ run' # None
      /\ run'.steps = 0 /\ run'.cycles = 0 /\ run'.maxSteps = n /\ run'.maxCycles = c
  BY DEF NewRun, Runs
<1>2. CallTypes'
  BY <1>1 DEF CallTypes
<1>3. CallsNest'
  BY <1>1, ChainsDiffer DEF CallsNest, InRun, Chains
<1>4. RoomToStep'
  BY DEF RoomToStep
<1>5. BudgetsHold'
  BY <1>1 DEF BudgetsHold
<1>6. CommandsWithinBudget'
  <2>1. run'.maxSteps - run'.steps = n
    BY <1>1
  <2>2. CASE callers' = <<"run">>
    <3>1. spent' = 0 \/ spent' + n <= ConsoleBudget
      BY <2>2, Zenon
    <3> QED
      <4>2. 0 + n <= n
        OBVIOUS
      <4>1. spent' + n <= n \/ spent' + n <= ConsoleBudget
        BY <3>1, <4>2
      <4> QED
        BY <1>1, <2>1, <2>2, <4>1, ChainsDiffer DEF CommandsWithinBudget
  <2>3. CASE callers' = <<"run", "over">>
    BY <1>1, <2>1, <2>3, ChainsDiffer DEF CommandsWithinBudget
  <2> QED
    BY <2>2, <2>3
<1>7. BudgetLeft'
  BY <1>1, ChainsDiffer DEF BudgetLeft
<1>8. PausesUntouched'
  BY <1>1 DEF PausesUntouched
<1>9. OverPauses'
  BY <1>1, ChainsDiffer DEF OverPauses
<1> QED
  BY <1>2, <1>3, <1>4, <1>5, <1>6, <1>7, <1>8, <1>9 DEF CallInv

LEMMA HostCallsKeepIInv == ASSUME IInv, HostCalls, UNCHANGED consoleVars PROVE IInv'
<1>1. CASE HostSteps
  <2>1. SessionInv'
    BY <1>1, StepKeepsSession DEF HostSteps, IInv
  <2>2. CallInv'
    BY <1>1, IdleIs, ChainsDiffer DEF HostSteps, Step, IInv, consoleVars, CallInv, CallTypes,
       CallsNest, InRun, RoomToStep, BudgetsHold, CommandsWithinBudget, BudgetLeft,
       PausesUntouched, OverPauses
  <2> QED
    BY <2>1, <2>2 DEF IInv
<1>2. ASSUME NEW n \in StepBudgets, NEW c \in CycleBudgets, NEW stop \in BOOLEAN,
             HostRuns(n, c, stop)
      PROVE  IInv'
  <2>1. SessionInv'
    BY <1>2 DEF HostRuns, targetVars, sessionVars, IInv, SessionInv, SessionTypes,
       RecordsOwnAccesses, HistoryIsNewest
  <2>2. n \in Nat \ {0} /\ c \in (Nat \ {0}) \cup {None}
    OBVIOUS
  <2>3. CallInv'
    BY <1>2, <2>2, IdleIs, FreshRun DEF HostRuns, IInv, sessionVars, consoleVars, CallInv,
       CallTypes, RoomToStep
  <2> QED
    BY <2>1, <2>3 DEF IInv
<1> QED
  BY <1>1, <1>2 DEF HostCalls

LEMMA ConsoleCommandsKeepIInv == ASSUME IInv, ConsoleCommands PROVE IInv'
<1> USE DEF IInv, CallInv, CallTypes, CallsNest, InRun, Chains, RoomToStep, BudgetsHold,
            CommandsWithinBudget, BudgetLeft, PausesUntouched, OverPauses
<1>1. CASE ContinueRuns
  <2>1. SessionInv'
    BY <1>1 DEF ContinueRuns, targetVars, sessionVars, SessionInv, SessionTypes,
       RecordsOwnAccesses, HistoryIsNewest, RunFor
  <2>2. ConsoleBudget \in Nat \ {0}
    OBVIOUS
  <2>3. CallInv'
    BY <1>1, <2>2, IdleIs, FreshRun DEF ContinueRuns, CommandFits, RunFor, sessionVars, consoleVars
  <2> QED
    BY <2>1, <2>3
<1>2. CASE ContinueStepsOff
  <2>1. SessionInv'
    BY <1>2, StepKeepsSession DEF ContinueStepsOff
  <2>2. CallInv'
    BY <1>2, IdleIs, ChainsDiffer DEF ContinueStepsOff, CommandFits, Step, consoleVars
  <2> QED
    BY <2>1, <2>2
<1>3. CASE OverSteps
  <2>1. SessionInv'
    BY <1>3, StepKeepsSession DEF OverSteps
  <2>2. CallInv'
    BY <1>3, IdleIs, ChainsDiffer DEF OverSteps, CommandFits, Step
  <2> QED
    BY <2>1, <2>2
<1>4. ASSUME NEW count \in StepCounts, StepBegins(count)  PROVE IInv'
  <2>1. SessionInv'
    BY <1>4, StepKeepsSession DEF StepBegins
  <2>2. CallInv'
    BY <1>4, IdleIs, ChainsDiffer DEF StepBegins, Step
  <2> QED
    BY <2>1, <2>2
<1> QED
  BY <1>1, <1>2, <1>3, <1>4 DEF ConsoleCommands

-----------------------------------------------------------------------------
(* The loops of the commands. *)
LEMMA ConsoleMovesKeepIInv == ASSUME IInv, ConsoleMoves PROVE IInv'
<1> USE DEF IInv, CallInv, CallTypes, CallsNest, InRun, Chains, RoomToStep, BudgetsHold,
            CommandsWithinBudget, BudgetLeft, PausesUntouched, OverPauses
<1>1. CASE ContinueGoesOn
  <2>1. SessionInv' /\ totalSteps' = totalSteps + 1
    BY <1>1, CompletionKeepsSession DEF ContinueGoesOn, RunFor
  <2>2. ConsoleBudget - 1 \in Nat \ {0}
    OBVIOUS
  <2>3. /\ result = None /\ spent' = 1 /\ totalSteps' \in Nat /\ 1 <= totalSteps'
        /\ left' \in 0..ConsoleBudget
    BY <1>1, <2>1, ChainsDiffer DEF ContinueGoesOn, StepCompletes, RunFor, Spends
  <2>4. CallInv'
    <3>1. /\ run' = NewRun(ConsoleBudget - 1, None, TRUE) /\ phase' = "run"
          /\ callers' = <<"run">> /\ result' = None
      BY <1>1, <2>3 DEF ContinueGoesOn, RunFor
    <3> HIDE DEF CallInv
    <3>2. spent' + (ConsoleBudget - 1) <= ConsoleBudget /\ spent' <= totalSteps' /\ spent' \in Nat
      BY <2>2, <2>3
    <3> QED
      BY <2>2, <2>3, <3>1, <3>2, FreshRun, ChainsDiffer
  <2> QED
    BY <2>1, <2>4
<1>2. CASE OverGoesOn
  <2>1. SessionInv' /\ totalSteps' = totalSteps + 1
    BY <1>2, CompletionKeepsSession DEF OverGoesOn
  <2>2. CallInv'
    BY <1>2, <2>1, ChainsDiffer DEF OverGoesOn, StepCompletes, Spends
  <2> QED
    BY <2>1, <2>2
<1>3. CASE OverReturns
  <2>1. SessionInv'
    BY <1>3 DEF OverReturns, targetVars, sessionVars, SessionInv, SessionTypes,
       RecordsOwnAccesses, HistoryIsNewest
  <2>2. CallInv'
    BY <1>3, ChainsDiffer DEF OverReturns, sessionVars
  <2> QED
    BY <2>1, <2>2
<1>4. CASE OverRuns
  <2>1. SessionInv'
    BY <1>4 DEF OverRuns, RunFor, targetVars, sessionVars, SessionInv, SessionTypes,
       RecordsOwnAccesses, HistoryIsNewest
  <2>2. /\ spent + left <= ConsoleBudget + 1 /\ left > 0 /\ left' = left - 1
        /\ spent' = spent /\ totalSteps' = totalSteps
    BY <1>4 DEF OverRuns, OverGoesThrough, sessionVars
  <2>3. /\ spent' \in Nat /\ totalSteps' \in Nat /\ spent' <= totalSteps'
        /\ left' \in 0..ConsoleBudget /\ spent' + 1 + left' <= ConsoleBudget + 1
    BY <2>2
  <2>4. CallInv'
    <3>1. /\ run' = NewRun(1, None, FALSE) /\ phase' = "run"
          /\ callers' = <<"run", "over">> /\ result' = None
      BY <1>4 DEF OverRuns, RunFor
    <3>2. 1 \in Nat \ {0} /\ FALSE \in BOOLEAN
      OBVIOUS
    <3>3. pc' \notin breakpoints' /\ (spent' > 1 => ~ Touched')
      <4>1. /\ pc' = pc /\ breakpoints' = breakpoints /\ (Touched' <=> Touched)
            /\ pc \notin breakpoints /\ result \in {None, "STEP_LIMIT"} /\ spent' = spent
        BY <1>4 DEF OverRuns, OverGoesThrough, targetVars, sessionVars, Touched, Tracking
      <4>2. result = None => ~ (spent > 1)
        BY <1>4 DEF OverRuns
      <4>3. result # None => ~ Touched
        BY <1>4, <4>1
      <4> QED
        BY <4>1, <4>2, <4>3
    <3> HIDE DEF CallInv
    <3> QED
      BY <2>3, <3>1, <3>2, <3>3, FreshRun, ChainsDiffer
  <2> QED
    BY <2>1, <2>4
<1>5. CASE StepGoesOn
  <2>1. SessionInv' /\ totalSteps' = totalSteps + 1
    BY <1>5, CompletionKeepsSession DEF StepGoesOn
  <2>2. CallInv'
    BY <1>5, <2>1, ChainsDiffer DEF StepGoesOn, StepCompletes, Spends
  <2> QED
    BY <2>1, <2>2
<1>6. CASE StepAgain
  <2>1. SessionInv'
    BY <1>6, StepKeepsSession DEF StepAgain
  <2>2. CallInv'
    BY <1>6, ChainsDiffer DEF StepAgain, Step
  <2> QED
    BY <2>1, <2>2
<1> QED
  BY <1>1, <1>2, <1>3, <1>4, <1>5, <1>6 DEF ConsoleMoves

-----------------------------------------------------------------------------
(* run(), and the steps the host asked for. *)
LEMMA RunReturnsKeeps ==
  ASSUME CallInv, NEW reason \in Reasons, InRun, RunReturns(reason),
         totalSteps' \in Nat, spent' \in Nat, spent' <= totalSteps',
         left' \in 0..ConsoleBudget,
         callers = <<"run">> => spent' = 0,
         callers = <<"run", "over">> => spent' + left' <= ConsoleBudget + 1,
         reason = "STEP_LIMIT" => ~ Touched'
  PROVE  CallInv'
<1>1. /\ run' = None
      /\ \/ callers = <<"run">> /\ callers' = <<>> /\ phase' = "idle" /\ result' = None
         \/ /\ callers = <<"run", "over">> /\ callers' = <<"over">>
            /\ phase' = "command" /\ result' = reason
  BY ChainsDiffer DEF RunReturns, InRun
<1>2. CallTypes'
  BY <1>1 DEF CallTypes
<1>3. CallsNest'
  BY <1>1, ChainsDiffer DEF CallsNest, InRun, Chains
<1>4. RoomToStep'
  BY <1>1 DEF RoomToStep
<1>5. BudgetsHold'
  BY <1>1 DEF BudgetsHold
<1>6. CommandsWithinBudget'
  BY <1>1, ChainsDiffer DEF CommandsWithinBudget
<1>7. BudgetLeft'
  BY <1>1, ChainsDiffer DEF BudgetLeft
<1>8. PausesUntouched'
  BY <1>1 DEF PausesUntouched
<1>9. OverPauses'
  BY <1>1, ChainsDiffer DEF OverPauses
<1> QED
  BY <1>2, <1>3, <1>4, <1>5, <1>6, <1>7, <1>8, <1>9 DEF CallInv

LEMMA SessionWorksKeepsIInv == ASSUME IInv, SessionWorks PROVE IInv'
<1> USE DEF IInv
<1>1. ASSUME RunSteps, UNCHANGED consoleVars  PROVE IInv'
  <2>1. SessionInv'
    BY <1>1, StepKeepsSession DEF RunSteps
  <2>2. CallInv'
    BY <1>1, ChainsDiffer DEF RunSteps, Step, consoleVars, CallInv, CallTypes, CallsNest, InRun,
       RoomToStep, BudgetsHold, CommandsWithinBudget, BudgetLeft, PausesUntouched, OverPauses
  <2> QED
    BY <2>1, <2>2
<1>2. ASSUME NEW access \in Accesses, TargetAccess(access), UNCHANGED consoleVars  PROVE IInv'
  BY <1>2, TargetAccessKeepsIInv
<1>3. ASSUME RunContinues, Spends, UNCHANGED left  PROVE IInv'
  <2>1. /\ InRun /\ run # None /\ run \in Runs /\ phase = "target"
        /\ run.steps < run.maxSteps /\ made \in Seq(Accesses) /\ Cycles \in Nat /\ Cycles > 0
    <3>1. made # <<>> /\ made \in Seq(Accesses) /\ phase = "target"
      BY <1>3 DEF RunContinues, StepCompletes, SessionInv, SessionTypes
    <3>2. InRun
      BY <1>3, RunsFirst DEF RunContinues, InRun, CallInv, CallsNest
    <3> QED
      BY <3>1, <3>2 DEF Cycles, CallInv, CallsNest, CallTypes, RoomToStep
  <2>2. phase' # "target"
    BY <1>3 DEF RunContinues, RunReturns
  <2>3. SessionInv' /\ totalSteps' = totalSteps + 1
    BY <1>3, <2>2, CompletionKeepsSession DEF RunContinues, CallInv
  <2>4. /\ totalSteps' \in Nat /\ spent' \in Nat /\ spent' <= totalSteps'
        /\ left' \in 0..ConsoleBudget /\ left' = left
        /\ spent' = IF phase' = "idle" THEN 0 ELSE spent + 1
    BY <1>3, <2>3 DEF Spends, CallInv, CallTypes, RoomToStep
  <2>5. run.maxSteps - run.steps \in Nat /\ run.maxSteps - run.steps >= 1
    BY <2>1 DEF Runs
  <2>6. CASE Hits \/ CyclesSpent(Counted)
    <3>1. PICK reason \in {"WATCHPOINT", "CYCLE_LIMIT"} : RunReturns(reason)
      BY <1>3, <2>6 DEF RunContinues
    <3>2. callers = <<"run">> => spent' = 0
      BY <2>4, <3>1, ChainsDiffer DEF RunReturns
    <3>3. callers = <<"run", "over">> => spent' + left' <= ConsoleBudget + 1
      <4>1. HAVE callers = <<"run", "over">>
      <4>2. spent + (run.maxSteps - run.steps) + left <= ConsoleBudget + 1
        BY <4>1 DEF CallInv, CommandsWithinBudget
      <4>3. spent + 1 + left <= ConsoleBudget + 1
        BY <2>5, <4>2 DEF CallInv, CallTypes
      <4> QED
        BY <2>4, <4>3 DEF CallInv, CallTypes
    <3>4. CallInv'
      BY <2>1, <2>4, <3>1, <3>2, <3>3, RunReturnsKeeps DEF Reasons
    <3> QED
      BY <2>3, <3>4
  <2>7. CASE ~ Hits /\ ~ CyclesSpent(Counted)
    <3>1. run' = Counted /\ phase' = "run" /\ callers' = callers /\ result' = result
      BY <1>3, <2>7 DEF RunContinues
    <3>2. /\ run' \in Runs /\ run' # None
          /\ run'.steps = run.steps + 1 /\ run'.cycles = run.cycles + Cycles
          /\ run'.maxSteps = run.maxSteps /\ run'.maxCycles = run.maxCycles
          /\ run'.maxCycles # None => run'.cycles < run'.maxCycles
      <4>1. /\ run.steps + 1 \in Nat /\ run.cycles + Cycles \in Nat
            /\ Counted = [run EXCEPT !.steps = run.steps + 1, !.cycles = run.cycles + Cycles]
        BY <2>1 DEF Counted, Runs
      <4>2. /\ Counted \in Runs
            /\ Counted.steps = run.steps + 1 /\ Counted.cycles = run.cycles + Cycles
            /\ Counted.maxSteps = run.maxSteps /\ Counted.maxCycles = run.maxCycles
        BY <2>1, <4>1 DEF Runs
      <4>3. Counted.cycles \in Nat /\ Counted.maxCycles \in Nat \cup {None}
        BY <4>2 DEF Runs
      <4>4. Counted.maxCycles # None => Counted.cycles < Counted.maxCycles
        BY <2>7, <4>3 DEF CyclesSpent
      <4> QED
        BY <3>1, <4>2, <4>4
    <3>3. ~ Touched'
      BY <1>3, <2>7 DEF RunContinues, StepCompletes, Hits, Touched, Tracking
    <3>4. CallTypes' /\ CallsNest'
      BY <2>1, <2>4, <3>1, <3>2 DEF CallInv, CallTypes, CallsNest, InRun
    <3>5. RoomToStep' /\ PausesUntouched'
      BY <2>4, <3>1, <3>3 DEF RoomToStep, PausesUntouched
    <3>6. BudgetsHold'
      BY <2>1, <3>2 DEF CallInv, BudgetsHold, Runs
    <3>7. CommandsWithinBudget'
      <4>1. spent' + (run'.maxSteps - run'.steps) = spent + (run.maxSteps - run.steps)
        <5>1. run.steps \in Nat /\ run.maxSteps \in Nat /\ spent \in Nat
          BY <2>1 DEF CallInv, CallTypes, Runs
        <5>2. spent' = spent + 1 /\ run'.maxSteps = run.maxSteps /\ run'.steps = run.steps + 1
          BY <2>4, <3>1, <3>2
        <5> QED
          BY <5>1, <5>2
      <4> QED
        BY <2>4, <3>1, <3>2, <4>1 DEF CallInv, CommandsWithinBudget
    <3>8. BudgetLeft'
      BY <2>1, <3>1, <3>2, ChainsDiffer DEF CallInv, BudgetLeft, InRun
    <3>9. OverPauses'
      BY <2>1, <3>1, <3>2, ChainsDiffer DEF CallInv, OverPauses, InRun, Runs
    <3>10. CallInv'
      BY <3>4, <3>5, <3>6, <3>7, <3>8, <3>9 DEF CallInv
    <3> QED
      BY <2>3, <3>10
  <2> QED
    BY <2>6, <2>7
<1>4. ASSUME TargetRaises,
             IF phase' = "idle" THEN left' = 0 /\ spent' = 0 ELSE UNCHANGED consoleVars
      PROVE  IInv'
  <2>1. SessionInv'
    <3>1. <<>> \in Seq(Accesses)
      OBVIOUS
    <3> QED
      BY <1>4, <3>1 DEF TargetRaises, sessionVars, SessionInv, SessionTypes,
         RecordsOwnAccesses, HistoryIsNewest
  <2>2. CallInv'
    BY <1>4, ChainsDiffer DEF TargetRaises, sessionVars, CallInv, CallTypes, CallsNest, InRun,
       Chains, RoomToStep, BudgetsHold, CommandsWithinBudget, BudgetLeft, PausesUntouched, OverPauses,
       SessionInv, SessionTypes
  <2> QED
    BY <2>1, <2>2
<1>5. ASSUME StepReturns,
             IF phase' = "idle" THEN left' = 0 /\ spent' = 0 ELSE UNCHANGED consoleVars
      PROVE  IInv'
  <2>1. SessionInv' /\ totalSteps' = totalSteps + 1
    BY <1>5, CompletionKeepsSession DEF StepReturns, CallInv
  <2>2. CallInv'
    BY <1>5, <2>1, ChainsDiffer DEF StepReturns, StepCompletes, CallInv, CallTypes, CallsNest,
       InRun, Chains, RoomToStep, BudgetsHold, CommandsWithinBudget, BudgetLeft,
       PausesUntouched, OverPauses, SessionInv, SessionTypes
  <2> QED
    BY <2>1, <2>2
<1>6. ASSUME RunStops,
             IF phase' = "idle" THEN left' = 0 /\ spent' = 0 ELSE UNCHANGED consoleVars
      PROVE  IInv'
  <2>1. SessionInv'
    BY <1>6 DEF RunStops, RunReturns, targetVars, sessionVars, SessionInv, SessionTypes,
       RecordsOwnAccesses, HistoryIsNewest
  <2>2. /\ phase = "run" /\ InRun /\ run # None /\ run \in Runs /\ run.maxSteps > 0
        /\ UNCHANGED <<totalSteps, accesses, watchpoints>>
    BY <1>6 DEF RunStops, sessionVars, CallInv, CallsNest, CallTypes, BudgetLeft
  <2>3. PICK reason \in Reasons :
          /\ RunReturns(reason)
          /\ reason = "STEP_LIMIT" => run.steps >= run.maxSteps
    BY <1>6 DEF RunStops, Reasons
  <2>4. reason = "STEP_LIMIT" => ~ Touched'
    <3>1. Touched' = Touched
      BY <2>2 DEF Touched, Tracking
    <3>2. run.steps >= run.maxSteps => ~ Touched
      BY <2>2 DEF CallInv, PausesUntouched, Runs
    <3> QED
      BY <2>3, <3>1, <3>2
  <2>5. /\ totalSteps' \in Nat /\ spent' \in Nat /\ spent' <= totalSteps'
        /\ left' \in 0..ConsoleBudget
    BY <1>6, <2>2 DEF consoleVars, CallInv, CallTypes, RoomToStep
  <2>6. callers = <<"run">> => spent' = 0
    BY <1>6, <2>3, ChainsDiffer DEF RunReturns
  <2>7. callers = <<"run", "over">> => spent' + left' <= ConsoleBudget + 1
    <3>1. HAVE callers = <<"run", "over">>
    <3>2. spent' = spent /\ left' = left
      BY <1>6, <2>3, <3>1, ChainsDiffer DEF RunReturns, consoleVars
    <3>3. spent + (run.maxSteps - run.steps) + left <= ConsoleBudget + 1
      BY <3>1 DEF CallInv, CommandsWithinBudget
    <3>4. run.maxSteps - run.steps >= 0 /\ run.maxSteps - run.steps \in Int
      BY <2>2 DEF CallInv, BudgetsHold, Runs
    <3> QED
      BY <3>2, <3>3, <3>4 DEF CallInv, CallTypes
  <2>8. CallInv'
    BY <2>2, <2>3, <2>4, <2>5, <2>6, <2>7, RunReturnsKeeps
  <2> QED
    BY <2>1, <2>8
<1> QED
  BY <1>1, <1>2, <1>3, <1>4, <1>5, <1>6 DEF SessionWorks

-----------------------------------------------------------------------------
LEMMA NextKeepsIInv == ASSUME IInv, [ConsoleNext]_allVars PROVE IInv'
<1>1. ASSUME UNCHANGED allVars  PROVE IInv'
  BY <1>1 DEF allVars, vars, targetVars, sessionVars, callVars, consoleVars, IInv,
     SessionInv, SessionTypes, RecordsOwnAccesses, HistoryIsNewest, CallInv, CallTypes,
     CallsNest, InRun, RoomToStep, BudgetsHold, CommandsWithinBudget, BudgetLeft,
     PausesUntouched, OverPauses, Touched, Tracking
<1> QED
  BY <1>1, ConsoleCommandsKeepIInv, EditsKeepIInv, HostCallsKeepIInv, ConsoleMovesKeepIInv,
     SessionWorksKeepsIInv DEF ConsoleNext, HostActsBeside

LEMMA Invariance == ConsoleSpec => []IInv
<1>1. ConsoleInit => IInv
  BY InitIInv
<1>2. IInv /\ [ConsoleNext]_allVars => IInv'
  BY NextKeepsIInv
<1> QED
  BY <1>1, <1>2, PTL DEF ConsoleSpec

(* Every variable of the session and of the commands stays in its type.    *)
THEOREM TypeCorrect == ConsoleSpec => []ConsoleTypeOK
<1>1. IInv => ConsoleTypeOK
  BY IInvTyped
<1> QED
  BY <1>1, Invariance, PTL

(* A record holds the accesses of its own step and nothing else, with a    *)
(* log of any length and whatever the host does in between.                *)
THEOREM RecordsAreTheirOwn == ConsoleSpec => []RecordsOwnAccesses
<1>1. IInv => RecordsOwnAccesses
  BY DEF IInv, SessionInv
<1> QED
  BY <1>1, Invariance, PTL

(* The ring of any size holds the newest records, none missing.            *)
THEOREM RingHoldsTheNewest == ConsoleSpec => []HistoryIsNewest
<1>1. IInv => HistoryIsNewest
  BY DEF IInv, SessionInv
<1> QED
  BY <1>1, Invariance, PTL

(* No run begins a step with a budget spent, whatever the budgets.         *)
THEOREM RunsKeepTheirBudgets == ConsoleSpec => []BudgetsHold
<1>1. IInv => BudgetsHold
  BY DEF IInv, CallInv
<1> QED
  BY <1>1, Invariance, PTL

(* continue and over keep to the console's limit.                          *)
THEOREM CommandsKeepTheirBudget == ConsoleSpec => []CommandsWithinBudget
<1>1. IInv => CommandsWithinBudget
  BY DEF IInv, CallInv
<1> QED
  BY <1>1, Invariance, PTL

(* A run never goes on past a step that touched a watched byte.            *)
THEOREM RunsStopOnTouch == ConsoleSpec => RunStopsOnTouch
<1>1. IInv /\ [ConsoleNext]_allVars =>
        [(phase = "run" /\ phase' = "target" /\ run.steps > 0) => ~ Touched]_vars
  BY DEF IInv, CallInv, PausesUntouched
<1> QED
  BY <1>1, Invariance, PTL DEF ConsoleSpec, RunStopsOnTouch

(* A step of over's loop is the first of its run. *)
LEMMA OverStepsOnce == ASSUME IInv, ConsoleNext, OverStepsOn PROVE run.steps = 0
<1>1. RunSteps
  BY ChainsDiffer
     DEF OverStepsOn, ConsoleNext, ConsoleCommands, ContinueRuns, ContinueStepsOff, OverSteps,
         StepBegins, CommandFits, HostActsBeside, HostEdits, SetBreakpoint, RemoveWatchpoint,
         AddWatchpoint, ClearHistory, Close, HostMovesTarget, HostActs, HostCalls, HostSteps,
         HostRuns, ConsoleMoves, ContinueGoesOn, OverGoesOn, OverReturns, OverRuns, StepGoesOn,
         StepAgain, StepCompletes, SessionWorks, TargetAccess, RunContinues, TargetRaises,
         StepReturns, RunStops, RunReturns
<1>2. run \in Runs /\ run.maxSteps = 1
  BY ChainsDiffer DEF OverStepsOn, IInv, CallInv, CallTypes, CallsNest, InRun, OverPauses
<1> QED
  BY <1>1, <1>2 DEF RunSteps, Runs

(* Nor does over go on past one that its loop has made.                    *)
THEOREM OversStopOnTouch == ConsoleSpec => OverStopsOnTouch
<1>1. IInv /\ [ConsoleNext]_allVars => [OverStepsOn /\ spent > 1 => ~ Touched]_allVars
  BY OverStepsOnce DEF IInv, CallInv, OverPauses, OverStepsOn
<1> QED
  BY <1>1, Invariance, PTL DEF ConsoleSpec, OverStopsOnTouch

(* Nor past a breakpoint, whatever the step there is going to be.          *)
THEOREM OversStopAtBreakpoints == ConsoleSpec => OverStopsAtBreakpoint
<1>1. IInv /\ [ConsoleNext]_allVars => [OverStepsOn => pc \notin breakpoints]_allVars
  BY OverStepsOnce DEF IInv, CallInv, OverPauses, OverStepsOn
<1> QED
  BY <1>1, Invariance, PTL DEF ConsoleSpec, OverStopsAtBreakpoint
-----------------------------------------------------------------------------
(***************************************************************************)
(* Why every command ends: what is left of it, as the passes of over's     *)
(* loop, the steps of the target before the next pass, and the work before *)
(* the next step.  Every move makes the three smaller in that order.       *)
(***************************************************************************)
Passes == IF callers \in {<<"over">>, <<"run", "over">>} THEN left ELSE 0

StepsLeft ==
  CASE InRun                    -> run.maxSteps - run.steps
    [] callers = <<"continue">> -> ConsoleBudget
    [] callers = <<"step">>     -> IF phase = "target" THEN left + 1 ELSE left
    [] callers \in {<<>>, <<"over">>} -> IF phase = "target" THEN 1 ELSE 0

WorkLeft ==
  CASE phase = "run"     -> MaxAccesses + 2
    [] phase = "command" -> MaxAccesses + 1
    [] phase = "target"  -> MaxAccesses - Len(made)
    [] phase = "idle"    -> 0

Measured == Passes \in Nat /\ StepsLeft \in Nat /\ WorkLeft \in Nat

Closer ==
  \/ Passes' < Passes
  \/ Passes' = Passes /\ StepsLeft' < StepsLeft
  \/ Passes' = Passes /\ StepsLeft' = StepsLeft /\ WorkLeft' < WorkLeft

(* Every move of a command, the session or the target's step brings the    *)
(* call under way closer to its return, and nothing the host edits in its  *)
(* callbacks puts it off (debug.py run, console.py _over and _continue).   *)
AlwaysCloser ==
  [][IF ConsoleMoves \/ SessionWorks THEN Closer
     ELSE phase # "idle" => UNCHANGED <<Passes, StepsLeft, WorkLeft>>]_allVars

(* A step of the target makes no more accesses than it may. *)
AccessesBounded == Len(made) <= MaxAccesses

LEMMA AccessesStayBounded ==
  ASSUME IInv, AccessesBounded, [ConsoleNext]_allVars PROVE AccessesBounded'
<1>1. made \in Seq(Accesses) /\ Len(<<>>) = 0
  BY DEF IInv, SessionInv, SessionTypes
<1>2. CASE made' = made
  BY <1>2 DEF AccessesBounded
<1>3. CASE made' = <<>>
  BY <1>1, <1>3 DEF AccessesBounded
<1>4. ASSUME NEW access \in Accesses, TargetAccess(access) PROVE AccessesBounded'
  BY <1>1, <1>4 DEF TargetAccess, AccessesBounded
<1>5. CASE UNCHANGED allVars
  BY <1>2, <1>5 DEF allVars, vars, targetVars
<1>6. CASE ConsoleCommands \/ ConsoleMoves
  BY <1>2, <1>3, <1>6
     DEF ConsoleCommands, ContinueRuns, ContinueStepsOff, OverSteps, StepBegins,
         ConsoleMoves, ContinueGoesOn, OverGoesOn, OverReturns, OverRuns, StepGoesOn,
         StepAgain, Step, StepCompletes, targetVars
<1>7. CASE HostActsBeside
  BY <1>2, <1>3, <1>7
     DEF HostActsBeside, HostEdits, SetBreakpoint, RemoveWatchpoint, AddWatchpoint,
         ClearHistory, Close, HostMovesTarget, HostCalls, HostSteps, HostRuns, Step,
         targetVars
<1>8. CASE SessionWorks
  BY <1>2, <1>3, <1>4, <1>8
     DEF SessionWorks, RunSteps, RunContinues, TargetRaises, StepReturns, RunStops, Step,
         StepCompletes, targetVars
<1> QED
  BY <1>5, <1>6, <1>7, <1>8 DEF ConsoleNext

LEMMA MeasuresAreNatural == ASSUME IInv, AccessesBounded PROVE Measured
<1> USE DEF IInv, CallInv, CallTypes, CallsNest
<1>1. Passes \in Nat
  BY DEF Passes
<1>2. StepsLeft \in Nat
  <2>1. CASE InRun
    BY <2>1 DEF StepsLeft, InRun, BudgetsHold, Runs
  <2>2. CASE ~ InRun
    BY <2>2, ChainsDiffer DEF StepsLeft, Chains, InRun
  <2> QED
    BY <2>1, <2>2
<1>3. WorkLeft \in Nat
  <2>1. Len(made) \in Nat
    BY DEF SessionInv, SessionTypes
  <2> QED
    BY <2>1 DEF WorkLeft, AccessesBounded
<1> QED
  BY <1>1, <1>2, <1>3 DEF Measured

(* The loops of the commands. *)
LEMMA ConsoleMovesCloser ==
  ASSUME IInv, AccessesBounded, Measured, ConsoleMoves PROVE Closer
<1> USE DEF Closer, Passes, StepsLeft, WorkLeft, InRun, IInv, CallInv, CallTypes
<1>1. CASE ContinueGoesOn
  BY <1>1, ChainsDiffer DEF ContinueGoesOn, RunFor, NewRun
<1>2. CASE OverGoesOn
  BY <1>2, ChainsDiffer DEF OverGoesOn, StepCompletes
<1>3. CASE OverReturns
  BY <1>3, ChainsDiffer DEF OverReturns
<1>4. CASE OverRuns
  BY <1>4, ChainsDiffer DEF OverRuns, OverGoesThrough
<1>5. CASE StepGoesOn
  BY <1>5, ChainsDiffer DEF StepGoesOn
<1>6. CASE StepAgain
  BY <1>6, ChainsDiffer DEF StepAgain, Step
<1> QED
  BY <1>1, <1>2, <1>3, <1>4, <1>5, <1>6 DEF ConsoleMoves

(* While the target runs, the step it makes is still owed. *)
LEMMA StepIsOwed == ASSUME IInv, phase = "target" PROVE StepsLeft > 0
<1> USE DEF IInv, CallInv, CallTypes, CallsNest
<1>1. CASE InRun
  <2>1. run \in Runs /\ run.steps < run.maxSteps
    BY <1>1 DEF RoomToStep
  <2> QED
    BY <1>1, <2>1 DEF StepsLeft, InRun, Runs
<1>2. CASE ~ InRun
  BY <1>2, ChainsDiffer DEF StepsLeft, Chains, InRun
<1> QED
  BY <1>1, <1>2

(* A return to the host leaves nothing. *)
LEMMA ReturnIsCloser ==
  ASSUME IInv, Measured, phase # "idle", phase' = "idle", callers' = <<>>
  PROVE  Closer
<1>1. Passes' = 0 /\ StepsLeft' = 0 /\ WorkLeft' = 0
  BY ChainsDiffer DEF Passes, StepsLeft, WorkLeft, InRun
<1>2. StepsLeft > 0 \/ WorkLeft > 0
  BY StepIsOwed DEF WorkLeft, IInv, CallInv, CallTypes
<1> QED
  BY <1>1, <1>2 DEF Measured, Closer

(* Nor does a run that returns to over leave any of its steps. *)
LEMMA ReturnToOverIsCloser ==
  ASSUME IInv, Measured, phase \in {"target", "run"}, phase' = "command",
         callers = <<"run", "over">>, callers' = <<"over">>, left' = left
  PROVE  Closer
<1>1. Passes' = Passes /\ StepsLeft' = 0 /\ WorkLeft' = MaxAccesses + 1
  BY ChainsDiffer DEF Passes, StepsLeft, WorkLeft, InRun
<1>2. StepsLeft > 0 \/ WorkLeft = MaxAccesses + 2
  BY StepIsOwed DEF WorkLeft
<1> QED
  BY <1>1, <1>2 DEF Measured, Closer

(* run() returns to one of the two. *)
LEMMA RunReturnIsCloser ==
  ASSUME IInv, Measured, phase \in {"target", "run"}, InRun,
         NEW reason, RunReturns(reason), phase' = "command" => left' = left
  PROVE  Closer
<1>1. \/ phase' = "idle" /\ callers' = <<>>
      \/ /\ phase' = "command" /\ callers = <<"run", "over">> /\ callers' = <<"over">>
         /\ left' = left
  BY ChainsDiffer DEF RunReturns, InRun
<1> QED
  BY <1>1, ReturnIsCloser, ReturnToOverIsCloser

(* run(), and the target's step. *)
LEMMA SessionWorksCloser ==
  ASSUME IInv, AccessesBounded, Measured, SessionWorks PROVE Closer
<1> USE DEF Closer, Passes, StepsLeft, WorkLeft, InRun, IInv, CallInv, CallTypes
<1>1. ASSUME RunSteps, UNCHANGED consoleVars PROVE Closer
  BY <1>1, ChainsDiffer DEF RunSteps, Step, consoleVars, CallsNest
<1>2. ASSUME NEW access \in Accesses, TargetAccess(access), UNCHANGED consoleVars
      PROVE  Closer
  BY <1>2, ChainsDiffer DEF TargetAccess, callVars, consoleVars, SessionInv, SessionTypes
<1>3. ASSUME RunContinues, Spends, UNCHANGED left PROVE Closer
  <2>1. InRun /\ phase = "target" /\ run \in Runs
    BY <1>3, RunsFirst, StepIsOwed DEF RunContinues, StepCompletes, CallsNest
  <2>2. CASE Hits \/ CyclesSpent(Counted)
    BY <1>3, <2>1, <2>2, RunReturnIsCloser DEF RunContinues
  <2>3. CASE ~ Hits /\ ~ CyclesSpent(Counted)
    <3>1. run' = Counted /\ phase' = "run" /\ callers' = callers
      BY <1>3, <2>3 DEF RunContinues
    <3>2. run'.maxSteps = run.maxSteps /\ run'.steps = run.steps + 1
      BY <2>1, <3>1 DEF Counted, Runs
    <3>3. StepsLeft = run.maxSteps - run.steps /\ StepsLeft' = run'.maxSteps - run'.steps
      BY <2>1, <3>1, ChainsDiffer
    <3>4. StepsLeft' < StepsLeft /\ Passes' = Passes
      BY <1>3, <2>1, <3>1, <3>2, <3>3 DEF Runs
    <3> QED
      BY <3>4
  <2> QED
    BY <2>2, <2>3
<1>4. ASSUME TargetRaises,
             IF phase' = "idle" THEN left' = 0 /\ spent' = 0 ELSE UNCHANGED consoleVars
      PROVE  Closer
  BY <1>4, ReturnIsCloser DEF TargetRaises
<1>5. ASSUME StepReturns,
             IF phase' = "idle" THEN left' = 0 /\ spent' = 0 ELSE UNCHANGED consoleVars
      PROVE  Closer
  BY <1>5, ReturnIsCloser DEF StepReturns, StepCompletes
<1>6. ASSUME RunStops,
             IF phase' = "idle" THEN left' = 0 /\ spent' = 0 ELSE UNCHANGED consoleVars
      PROVE  Closer
  BY <1>6, RunReturnIsCloser DEF RunStops, CallsNest, consoleVars
<1> QED
  BY <1>1, <1>2, <1>3, <1>4, <1>5, <1>6 DEF SessionWorks

(* The host's edits, made in the target's callbacks, leave all three. *)
LEMMA HostPutsNothingOff ==
  ASSUME IInv, [ConsoleNext]_allVars, ~ (ConsoleMoves \/ SessionWorks), phase # "idle"
  PROVE  UNCHANGED <<Passes, StepsLeft, WorkLeft>>
<1>1. UNCHANGED <<callers, left, run, phase, made>>
  BY DEF ConsoleNext, ConsoleCommands, ContinueRuns, ContinueStepsOff, OverSteps,
         CommandFits, StepBegins, HostActsBeside, HostCalls, HostSteps, HostRuns,
         HostEdits, SetBreakpoint, RemoveWatchpoint, AddWatchpoint, ClearHistory, Close,
         HostMovesTarget, allVars, vars, targetVars, callVars, consoleVars
<1> QED
  BY <1>1 DEF Passes, StepsLeft, WorkLeft, InRun

(* Every command and every run gets closer to its end with each move, in   *)
(* an order that has no endless descent: with the fairness of the one      *)
(* thread this is why they return.                                         *)
THEOREM CommandsWindDown == ConsoleSpec => []Measured /\ AlwaysCloser
<1>1. ConsoleInit => AccessesBounded
  BY DEF ConsoleInit, Init, AccessesBounded
<1>2. IInv /\ AccessesBounded /\ [ConsoleNext]_allVars => AccessesBounded'
  BY AccessesStayBounded
<1>3. IInv /\ AccessesBounded => Measured
  BY MeasuresAreNatural
<1>4. IInv /\ AccessesBounded /\ [ConsoleNext]_allVars =>
        [IF ConsoleMoves \/ SessionWorks THEN Closer
         ELSE phase # "idle" => UNCHANGED <<Passes, StepsLeft, WorkLeft>>]_allVars
  BY <1>3, ConsoleMovesCloser, SessionWorksCloser, HostPutsNothingOff
<1> QED
  BY <1>1, <1>2, <1>3, <1>4, Invariance, PTL DEF ConsoleSpec, AlwaysCloser
=============================================================================
