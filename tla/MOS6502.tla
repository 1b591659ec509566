------------------------------ MODULE MOS6502 ------------------------------
(***************************************************************************)
(* MOS6502.step(), one bus access at a time, with the host acting between  *)
(* steps and from inside its bus callbacks.                                *)
(*                                                                         *)
(* The Python program runs on one thread, so the only interleaving is the  *)
(* one a board makes: each access calls the host, and the host's callable  *)
(* may call back into the CPU before it returns.  A state of this module   *)
(* is either between two steps (cycle = 0) or inside the host's callable   *)
(* of access number cycle of the sequence seq.  The action of the CPU in   *)
(* such a state is the code from that access's return to the next access's *)
(* call, or to the end of step().                                          *)
(*                                                                         *)
(* Registers, addresses and data are left out, the I bit of P apart: no    *)
(* other register bears on what a boundary takes.  What they would decide  *)
(* (which instruction is fetched, whether a branch is taken, the P that is *)
(* pulled) is a free choice.                                               *)
(***************************************************************************)
EXTENDS CPUFrame

CONSTANTS
  HostOps,      \* which of AllHostOps the host performs
  HostStates    \* the CPUState values the host builds and restores

AllHostOps == {"lines", "reset", "stall", "bus", "roundtrip", "restore", "raise"}

ASSUME HostOpsAssumption    == HostOps \subseteq AllHostOps
ASSUME HostStatesAssumption == HostStates \subseteq CPUStates

VARIABLES
  seq,      \* the sequence running, or the one that ran last; None if unknown
  cycle,    \* the access the host is serving; 0 between steps
  total,    \* how many accesses seq makes
  access,   \* "read", "write": the kind of that access
  callee,   \* the host's callable that is serving it
  early,    \* _branch's local: what its own polls have seen so far
  vector    \* _interrupt's local: the vector BRK, IRQ or NMI goes through

stepVars == <<seq, cycle, total, access, callee, early, vector>>
vars     == <<frameVars, stepVars>>

Vectors == {"NMI", "RESET", "IRQ"}

TypeOK ==
  /\ FrameTypeOK
  /\ seq \in Instructions \cup Entries \cup {None}
  /\ cycle \in 0..11
  /\ total \in 0..11
  /\ cycle <= total
  /\ access \in {"read", "write", None}
  /\ callee \in Callables \cup {None}
  /\ early \in SUBSET Lines
  /\ vector \in Vectors \cup {None}

Init ==
  /\ FrameInit
  /\ seq = None /\ cycle = 0 /\ total = 0
  /\ access = None /\ callee = None
  /\ early = {} /\ vector = None

BetweenSteps == cycle = 0
InCallback   == cycle > 0

-----------------------------------------------------------------------------
(* The host. *)

HostRequests(line) ==
  /\ "lines" \in HostOps
  /\ RequestInterrupt(line)
  /\ UNCHANGED stepVars

HostClears(line) ==
  /\ "lines" \in HostOps
  /\ ClearInterrupt(line)
  /\ UNCHANGED stepVars

HostSetsReset(pending) ==
  /\ "reset" \in HostOps
  /\ SetReset(pending)
  /\ UNCHANGED stepVars

HostStalls ==
  /\ "stall" \in HostOps
  /\ InCallback /\ access = "read"
  /\ NoteStall
  /\ UNCHANGED stepVars

HostReplacesRead(c) ==
  /\ "bus" \in HostOps
  /\ SetReadByte(c)
  /\ UNCHANGED stepVars

HostReplacesWrite(c) ==
  /\ "bus" \in HostOps
  /\ SetWriteByte(c)
  /\ UNCHANGED stepVars

(* cpu.restore_state(cpu.capture_state()), between steps. *)
HostRoundTrips ==
  /\ "roundtrip" \in HostOps
  /\ BetweenSteps
  /\ RestoreState(CaptureState)
  /\ UNCHANGED stepVars

(* restore_state of a state from elsewhere: which step came last is lost. *)
HostRestores(s) ==
  /\ "restore" \in HostOps
  /\ BetweenSteps
  /\ RestoreState(s)
  /\ seq' = None
  /\ UNCHANGED <<cycle, total, access, callee, early, vector>>

(* The host's callable raises, and step() is abandoned where it stands: the *)
(* frame keeps what it held, the locals are gone.                          *)
HostRaises ==
  /\ "raise" \in HostOps
  /\ InCallback
  /\ seq' = None /\ cycle' = 0 /\ total' = 0
  /\ access' = None /\ callee' = None
  /\ early' = {} /\ vector' = None
  /\ UNCHANGED frameVars

Host ==
  \/ \E line \in Lines : HostRequests(line) \/ HostClears(line)
  \/ \E pending \in BOOLEAN : HostSetsReset(pending)
  \/ HostStalls
  \/ \E c \in Callables : HostReplacesRead(c) \/ HostReplacesWrite(c)
  \/ HostRoundTrips
  \/ \E s \in HostStates : HostRestores(s)
  \/ HostRaises

-----------------------------------------------------------------------------
(* step(): the decision, and the first access of what it runs. *)

FirstAccess(s, n) ==
  /\ seq' = s /\ cycle' = 1 /\ total' = n
  /\ access' = "read"
  /\ callee' = Reached("read")
  /\ early' = {}
  /\ Access("read")

AcceptReset ==
  /\ BetweenSteps /\ StepTakes = "RESET"
  /\ resetPending' = FALSE /\ halted' = FALSE /\ polledI' = None
  /\ vector' = "RESET"
  /\ FirstAccess("RESET", 7)
  /\ UNCHANGED <<requests, polled, stalled, stalledBefore, pI, readByte, writeByte>>

Halted ==
  /\ BetweenSteps /\ StepTakes = "JAM_IDLE"
  /\ vector' = None
  /\ FirstAccess("JAM_IDLE", 1)
  /\ UNCHANGED <<requests, polled, stalled, stalledBefore, polledI, resetPending,
                 halted, pI, readByte, writeByte>>

EnterInterrupt(kind) ==
  /\ BetweenSteps /\ StepTakes = kind
  /\ polled' = None /\ polledI' = None
  /\ vector' = kind
  /\ FirstAccess(kind, 7)
  /\ UNCHANGED <<requests, stalled, stalledBefore, resetPending, halted, pI,
                 readByte, writeByte>>

(* _execute, and what _boundary_interrupt consumes when it takes nothing. *)
Execute(s, n) ==
  /\ BetweenSteps /\ StepTakes = None
  /\ polled' = IF Consulted THEN None ELSE polled
  /\ polledI' = IF Consulted THEN None ELSE polledI
  /\ vector' = IF s = "BRK" THEN "IRQ" ELSE None
  /\ FirstAccess(s, n)
  /\ UNCHANGED <<requests, stalled, stalledBefore, resetPending, halted, pI,
                 readByte, writeByte>>

BeginStep ==
  \/ AcceptReset
  \/ Halted
  \/ \E kind \in {"NMI", "IRQ"} : EnterInterrupt(kind)
  \/ \E s \in Instructions : \E n \in Lengths(s) : Execute(s, n)

-----------------------------------------------------------------------------
(***************************************************************************)
(* Between two accesses.  NextAccess is the call; the actions below are    *)
(* the code before it, by the place they stand at in their sequence.       *)
(***************************************************************************)
NextAccess(kind) ==
  /\ cycle' = cycle + 1
  /\ access' = kind
  /\ callee' = Reached(kind)
  /\ Access(kind)
  /\ UNCHANGED <<seq, total>>

(* Faulty: goes on past the last access. *)
AtOrPast(s, n) == seq = s /\ cycle = n /\ cycle <= total

At(s, n) == seq = s /\ cycle = n /\ cycle < total

(* _interrupt's and _enter_interrupt's places. *)
ClearsNMILatch == At("NMI", 2)
ChoosesVector  == At("IRQ", 4) \/ At("BRK", 4)
SetsI          == \/ \E s \in {"NMI", "IRQ", "BRK"} : At(s, 5)
                  \/ At("RESET", 5)
PollsI         == At("PLP", 3)
PullsP         == At("RTI", 4)
BranchPlace    == \E n \in 1..3 : At("BRANCH", n)

Quiet ==
  /\ InCallback /\ cycle < total
  /\ ~ (ClearsNMILatch \/ ChoosesVector \/ SetsI \/ PollsI \/ PullsP \/ BranchPlace)

Proceed(kind) ==
  /\ Quiet
  /\ NextAccess(kind)
  /\ UNCHANGED <<requests, polled, stalled, stalledBefore, polledI, resetPending,
                 halted, pI, readByte, writeByte, early, vector>>

(* The latch is released after the entry's two reads of PC. *)
TakeNMI(kind) ==
  /\ ClearsNMILatch
  /\ requests' = requests \ {NMI_LATCH}
  /\ NextAccess(kind)
  /\ UNCHANGED <<polled, stalled, stalledBefore, polledI, resetPending, halted, pI,
                 readByte, writeByte, early, vector>>

(* Faulty: the NMI that takes over stays latched. *)
ChooseVectorLatchKept(kind) ==
  /\ ChoosesVector
  /\ vector' = IF NMI_LATCH \in requests THEN "NMI" ELSE vector
  /\ NextAccess(kind)
  /\ UNCHANGED <<requests, polled, stalled, stalledBefore, polledI, resetPending,
                 halted, pI, readByte, writeByte, early>>

(* After the PCL push: an NMI latched by now takes BRK or the IRQ over. *)
ChooseVector(kind) ==
  /\ ChoosesVector
  /\ requests' = requests \ {NMI_LATCH}
  /\ vector' = IF NMI_LATCH \in requests THEN "NMI" ELSE vector
  /\ NextAccess(kind)
  /\ UNCHANGED <<polled, stalled, stalledBefore, polledI, resetPending, halted, pI,
                 readByte, writeByte, early>>

(* After the P push, and after reset's stack reads. *)
SetI(kind) ==
  /\ SetsI
  /\ pI' = FLAG_I
  /\ NextAccess(kind)
  /\ UNCHANGED <<requests, polled, stalled, stalledBefore, polledI, resetPending,
                 halted, readByte, writeByte, early, vector>>

(* PLP keeps the old I before the pull. *)
PollOldI(kind) ==
  /\ PollsI
  /\ polledI' = pI
  /\ NextAccess(kind)
  /\ UNCHANGED <<requests, polled, stalled, stalledBefore, resetPending, halted, pI,
                 readByte, writeByte, early, vector>>

(* RTI has pulled P, any P. *)
PullP(kind) ==
  /\ PullsP
  /\ pI' \in IValues
  /\ NextAccess(kind)
  /\ UNCHANGED <<requests, polled, stalled, stalledBefore, polledI, resetPending,
                 halted, readByte, writeByte, early, vector>>

-----------------------------------------------------------------------------
(***************************************************************************)
(* _branch.  Its first poll is at the end of cycle 1; a stalled operand    *)
(* fetch polls again at the end of the stall; a stalled next-opcode read   *)
(* adds the requests from the start of its last halted cycle.              *)
(***************************************************************************)
(* Faulty: the first poll is lost. *)
BranchOperandUnpolled(kind) ==
  /\ At("BRANCH", 1)
  /\ early' = {}
  /\ stalled' = None /\ stalledBefore' = None
  /\ NextAccess(kind)
  /\ UNCHANGED <<requests, polled, polledI, resetPending, halted, pI,
                 readByte, writeByte, vector>>

BranchOperand(kind) ==
  /\ At("BRANCH", 1)
  /\ early' = requests
  /\ stalled' = None /\ stalledBefore' = None
  /\ NextAccess(kind)
  /\ UNCHANGED <<requests, polled, polledI, resetPending, halted, pI,
                 readByte, writeByte, vector>>

AfterOperand == IF stalled # None THEN stalled ELSE early
AfterNextOpcode == IF stalledBefore # None THEN early \cup stalledBefore ELSE early

BranchTaken(kind) ==
  /\ At("BRANCH", 2)
  /\ early' = AfterOperand
  /\ stalled' = None
  /\ stalledBefore' = IF stalled # None THEN None ELSE stalledBefore
  /\ NextAccess(kind)
  /\ UNCHANGED <<requests, polled, polledI, resetPending, halted, pI,
                 readByte, writeByte, vector>>

BranchCrosses(kind) ==
  /\ At("BRANCH", 3)
  /\ early' = AfterNextOpcode
  /\ stalled' = IF stalledBefore # None THEN None ELSE stalled
  /\ stalledBefore' = None
  /\ NextAccess(kind)
  /\ UNCHANGED <<requests, polled, polledI, resetPending, halted, pI,
                 readByte, writeByte, vector>>

MidStep ==
  \E kind \in Kinds(seq, cycle + 1) :
    \/ Proceed(kind)
    \/ TakeNMI(kind) \/ ChooseVector(kind) \/ SetI(kind)
    \/ PollOldI(kind) \/ PullP(kind)
    \/ BranchOperand(kind) \/ BranchTaken(kind) \/ BranchCrosses(kind)

-----------------------------------------------------------------------------
(***************************************************************************)
(* The end of step().  LastCallback: the last access has returned.         *)
(* Retire(d) is what step() does after _execute, when the handler has left *)
(* d in _deferred.                                                         *)
(***************************************************************************)
LastCallback(s) == seq = s /\ cycle > 0 /\ cycle = total

StepReturns ==
  /\ cycle' = 0 /\ total' = 0
  /\ access' = None /\ callee' = None
  /\ early' = {} /\ vector' = None
  /\ UNCHANGED <<seq, readByte, writeByte, read, write>>

Retire(d) ==
  /\ polled' = IF d # None THEN d ELSE polled
  /\ deferred' = None
  /\ StepReturns

(* An instruction with the usual poll; RTI has changed P already. *)
EndInstruction ==
  /\ \E s \in {"PLAIN", "RTI"} : LastCallback(s)
  /\ Retire(deferred)
  /\ UNCHANGED <<requests, stalled, stalledBefore, polledI, resetPending, halted, pI>>

(* Faulty: CLI delays an I that was clear already. *)
EndCLIAlwaysDelayed ==
  /\ LastCallback("CLI")
  /\ polledI' = FLAG_I /\ pI' = 0
  /\ Retire(deferred)
  /\ UNCHANGED <<requests, stalled, stalledBefore, resetPending, halted>>

EndCLI ==
  /\ LastCallback("CLI")
  /\ polledI' = pI /\ pI' = 0
  /\ Retire(deferred)
  /\ UNCHANGED <<requests, stalled, stalledBefore, resetPending, halted>>

EndSEI ==
  /\ LastCallback("SEI")
  /\ polledI' = pI /\ pI' = FLAG_I
  /\ Retire(deferred)
  /\ UNCHANGED <<requests, stalled, stalledBefore, resetPending, halted>>

EndPLP ==
  /\ LastCallback("PLP")
  /\ pI' \in IValues
  /\ Retire(deferred)
  /\ UNCHANGED <<requests, stalled, stalledBefore, polledI, resetPending, halted>>

EndJAM ==
  /\ LastCallback("JAM")
  /\ halted' = TRUE
  /\ Retire(deferred)
  /\ UNCHANGED <<requests, stalled, stalledBefore, polledI, resetPending, pI>>

EndBRK ==
  /\ LastCallback("BRK")
  /\ Retire({NO_POLL})
  /\ UNCHANGED <<requests, stalled, stalledBefore, polledI, resetPending, halted, pI>>

(* Not taken: the usual poll.  Taken: the branch's own. *)
EndBranchNotTaken ==
  /\ LastCallback("BRANCH") /\ total = 2
  /\ stalled' = None
  /\ stalledBefore' = IF stalled # None THEN None ELSE stalledBefore
  /\ Retire(deferred)
  /\ UNCHANGED <<requests, polledI, resetPending, halted, pI>>

EndBranchSamePage ==
  /\ LastCallback("BRANCH") /\ total = 3
  /\ stalled' = IF stalledBefore # None THEN None ELSE stalled
  /\ stalledBefore' = None
  /\ Retire(AfterNextOpcode)
  /\ UNCHANGED <<requests, polledI, resetPending, halted, pI>>

EndBranchAcrossPage ==
  /\ LastCallback("BRANCH") /\ total = 4
  /\ Retire(early \cup (IF deferred = None THEN requests ELSE deferred))
  /\ UNCHANGED <<requests, stalled, stalledBefore, polledI, resetPending, halted, pI>>

(* _enter_interrupt and _accept_reset return straight from step(). *)
EndEntry ==
  /\ \E s \in {"RESET", "NMI", "IRQ"} : LastCallback(s)
  /\ polled' = {NO_POLL}
  /\ deferred' = None
  /\ StepReturns
  /\ UNCHANGED <<requests, stalled, stalledBefore, polledI, resetPending, halted, pI>>

(* So does _halted, which leaves what its read deferred to the next access. *)
EndHalted ==
  /\ LastCallback("JAM_IDLE")
  /\ StepReturns
  /\ UNCHANGED <<requests, polled, deferred, stalled, stalledBefore, polledI,
                 resetPending, halted, pI>>

EndStep ==
  \/ EndInstruction \/ EndCLI \/ EndSEI \/ EndPLP \/ EndJAM \/ EndBRK
  \/ EndBranchNotTaken \/ EndBranchSamePage \/ EndBranchAcrossPage
  \/ EndEntry \/ EndHalted

-----------------------------------------------------------------------------
CPU  == BeginStep \/ MidStep \/ EndStep
Next == CPU \/ Host

Spec == Init /\ [][Next]_vars

(* The host keeps calling step(), and its callables return. *)
Fairness == WF_vars(CPU)
FairSpec == Spec /\ Fairness
-----------------------------------------------------------------------------
(* debug.next_boundary: what a CPUState says the next step() takes. *)
NextBoundary(s) ==
  LET Sees(l) == IF s.polled[l] = None THEN s.pending[l] ELSE s.polled[l]
      masked  == IF s.polledI = None THEN s.p # 0 ELSE s.polledI
  IN  IF s.resetPending THEN "RESET"
      ELSE IF s.halted THEN "JAM_IDLE"
      ELSE IF s.skippedPoll THEN None
      ELSE IF Sees(NMI_LATCH) THEN "NMI"
      ELSE IF Sees(IRQ_LINE) /\ ~ masked THEN "IRQ"
      ELSE None

(* A host-built state that says its poll was skipped says the poll saw     *)
(* nothing, as every captured one does.                                    *)
HonestStates ==
  \A s \in HostStates : s.skippedPoll => RestoredSeen(s) = {NO_POLL}

-----------------------------------------------------------------------------
(***************************************************************************)
(* The program implements the contract.  deferred, where it is set, is the *)
(* detectors' last sample; where it is not, the requests have not changed  *)
(* since.  early is only read once the branch's operand is in.             *)
(***************************************************************************)
OrNothing(bits) == IF bits = None THEN {} ELSE bits

Sampled ==
  IF BetweenSteps THEN {} ELSE IF deferred = None THEN requests ELSE deferred
BranchSeen == IF seq = "BRANCH" /\ cycle > 2 THEN early ELSE {}
Halts ==
  IF seq = "BRANCH" /\ cycle = 3
  THEN [last |-> OrNothing(stalled), before |-> OrNothing(stalledBefore)]
  ELSE [last |-> {}, before |-> {}]

Contract == INSTANCE PollContract WITH
  sampled <- Sampled, seen <- PolledRequests, seenI <- PolledMask,
  branchSeen <- BranchSeen, halts <- Halts

(* Every request, release, stall, capture and restore the host makes, at   *)
(* any access of any sequence or between steps, has the effect on later    *)
(* boundaries that docs/start-here.md ("Reset and interrupts") promises,   *)
(* however the frame's lazily kept _deferred, _polled, _polled_i and       *)
(* _stalled came to hold it.  A capture restored at once is a stutter.     *)
ImplementsContract == Contract!Spec

(* next_boundary, working from a snapshot, foretells exactly what step()   *)
(* will decide from the live frame (debug.py:171).                         *)
PredictsBoundary == BetweenSteps => NextBoundary(CaptureState) = StepTakes

(* Restoring a captured state gives a CPU whose captured state is equal,   *)
(* and whose next step takes the same thing (docs/cpu-state.md).           *)
RoundTripIsExact ==
  [][HostRoundTrips => CaptureState' = CaptureState /\ StepTakes' = StepTakes]_vars

(* next_boundary of a state foretells the step after it is restored, too,  *)
(* whatever an abandoned step has left in the frame: a step that raised    *)
(* can be tried again from the state captured before it (docs/cpu-state.md)*)
RestoredStateDecides ==
  [][\A s \in HostStates : HostRestores(s) => StepTakes' = NextBoundary(s)]_vars

(* After BRK, an interrupt entry or reset, whatever is requested or        *)
(* released during it or after it, the next step is an instruction (or a   *)
(* reset): the handler's first instruction always runs.                    *)
OneInstructionFirst ==
  [][(BetweenSteps /\ InCallback' /\ seq \in NoPollSequences)
       => seq' \in Instructions \cup {"RESET"}]_vars

(* What a poll saw is consulted by one boundary and never again: while an  *)
(* instruction or an entry runs, no poll of an earlier one is still held.  *)
PollUsedOnce == (InCallback /\ seq \notin {"RESET", "JAM_IDLE"}) => polled = None

(* A skipped poll has seen neither line, so no request made since can be   *)
(* taken by the boundary that follows it.                                  *)
SkippedPollSawNothing ==
  (polled # None /\ NO_POLL \in polled) => polled = {NO_POLL}

(* And the skip lasts until that boundary, whatever the host requests,     *)
(* releases or restores in between; none of these sequences leaves the CPU *)
(* stopped.                                                                *)
SkippedPollIsHeld ==
  seq \in NoPollSequences => ~ halted /\ (BetweenSteps => polled = {NO_POLL})

(* What the frame remembers of a poll between two boundaries is exactly    *)
(* one poll's, never an older one's: _boundary_interrupt consumes it, and  *)
(* _NO_POLL keeps later requests out of it (frame.py:191-218, 262-303).    *)
PollInv == PollUsedOnce /\ SkippedPollSawNothing /\ SkippedPollIsHeld

(* A callable the host has replaced is never left behind in the routes,    *)
(* and while a change waits to be confirmed both routes confirm: no access *)
(* can slip past _confirm.                                                 *)
RoutesAreCurrent ==
  /\ read \in {readByte, Confirming}
  /\ write \in {writeByte, Confirming}
  /\ deferred # None => read = Confirming /\ write = Confirming

(* Every access is served by the callable the host last assigned, whether  *)
(* the debugger swapped it between steps or a board from inside a callback *)
(* (cpu.py:59, "may be replaced later").                                   *)
ReachesHostsCallable ==
  [][cycle' > cycle => callee' = HostCallable(access')]_vars

(* A latched NMI is taken, or the host cancels it, stops the CPU or resets *)
(* it: no endless program -- branches that never poll at their end, BRKs,  *)
(* CLI and SEI -- and no schedule of other requests starves it.            *)
NMINotStarved ==
  (NMI_LATCH \in requests)
    ~> (NMI_LATCH \notin requests \/ halted \/ resetPending)

(* The same for an IRQ held while I is clear: until I is set, by its own   *)
(* entry or by the program, or the line is released.                       *)
IRQNotStarved ==
  (IRQ_LINE \in requests /\ pI = 0)
    ~> (IRQ_LINE \notin requests \/ pI # 0 \/ halted \/ resetPending)

(* frame.py:296: clearing "cancel[s] a latched NMI that has not yet been   *)
(* taken, even one already polled".                                        *)
CancelledNMINotTaken ==
  [][(BetweenSteps /\ InCallback' /\ seq' = "NMI") => NMI_LATCH \in requests]_vars
=============================================================================
