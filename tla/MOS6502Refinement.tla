------------------------- MODULE MOS6502Refinement -------------------------
(***************************************************************************)
(* The proof that MOS6502 implements PollContract, for every set of        *)
(* callables, host operations, instruction lengths and honest host-built   *)
(* states; and, from the steps of the contract, that an interrupt is taken *)
(* within two sequences.                                                   *)
(***************************************************************************)
EXTENDS MOS6502Proofs, InterruptLatency

USE DEF IRQ_LINE, NMI_LATCH, NO_POLL, FLAG_I,
        Contract!IRQ_LINE, Contract!NMI_LATCH, Contract!NO_POLL, Contract!FLAG_I

(* The contract speaks the vocabulary of the program. *)
LEMMA SameVocabulary ==
  /\ Contract!Lines = Lines /\ Contract!IValues = IValues
  /\ Contract!Instructions = Instructions /\ Contract!Entries = Entries
  /\ Contract!NoPollSequences = NoPollSequences
  /\ \A s : Contract!Lengths(s) = Lengths(s)
  /\ \A s, n : Contract!Kinds(s, n) = Kinds(s, n)
<1>1. Contract!Lines = Lines /\ Contract!IValues = IValues
  BY DEF Contract!Lines, Lines, Contract!IValues, IValues
<1>2. Contract!Instructions = Instructions /\ Contract!Entries = Entries
  BY DEF Contract!Instructions, Instructions, Contract!Entries, Entries
<1>3. Contract!NoPollSequences = NoPollSequences
  BY DEF Contract!NoPollSequences, NoPollSequences
<1>4. \A s : Contract!Lengths(s) = Lengths(s)
  BY <1>3 DEF Contract!Lengths, Lengths, Contract!JAM_READS, JAM_READS
<1>5. \A s, n : Contract!Kinds(s, n) = Kinds(s, n)
  BY DEF Contract!Kinds, Kinds
<1> QED
  BY <1>1, <1>2, <1>3, <1>4, <1>5

(***************************************************************************)
(* What the refinement needs beyond TypeOK, RoutesAreCurrent and PollInv:  *)
(* the locals of the sequence in progress mean what the contract says.     *)
(***************************************************************************)
LengthHeld == InCallback => /\ seq \in Instructions \cup Entries
                            /\ total \in Lengths(seq)

(* _polled_i is consumed by the boundary, and set again only by PLP. *)
MaskHeld ==
  InCallback =>
    /\ seq = "PLP" /\ cycle = 4 => polledI = pI
    /\ seq # "JAM_IDLE" /\ ~ (seq = "PLP" /\ cycle = 4) => polledI = None

VectorHeld == (InCallback /\ seq = "NMI") => vector = "NMI"

(* While a branch's operand is read, what its first poll will have seen is *)
(* the detectors' last sample.                                             *)
OperandHeld ==
  (seq = "BRANCH" /\ cycle = 2) =>
    /\ AfterOperand = Sampled
    /\ stalled = None => stalledBefore = None

LocalInv == LengthHeld /\ MaskHeld /\ VectorHeld /\ OperandHeld

RefInv == TypeOK /\ RoutesAreCurrent /\ PollInv /\ LocalInv

(* PLP always makes four accesses. *)
LEMMA PLPLength == Lengths("PLP") = {4}
BY DEF Lengths, NoPollSequences

(* A branch makes two, three or four. *)
LEMMA BranchLengths == Lengths("BRANCH") = {2, 3, 4}
BY DEF Lengths, NoPollSequences

(* Between steps nothing is claimed of the locals. *)
LEMMA LocalInit == ASSUME Init PROVE LocalInv
BY DEF Init, LocalInv, LengthHeld, MaskHeld, VectorHeld, OperandHeld, InCallback

(* A change of the requests does not change what was sampled, and a        *)
(* stalled cycle samples again.                                            *)
LEMMA RequestKeepsSample ==
  ASSUME TypeOK, NEW bits, Request(bits), cycle' = cycle
  PROVE  Sampled' = Sampled
<1>1. requests # None
  BY NoneAssumption DEF TypeOK, FrameTypeOK, Bits
<1> QED
  BY <1>1 DEF Request, Sampled, BetweenSteps

(* The host does not reach the locals of the sequence in progress. *)
LEMMA LocalHost ==
  ASSUME TypeOK, RoutesAreCurrent, LocalInv, Host PROVE LocalInv'
<1> USE DEF LocalInv, LengthHeld, MaskHeld, VectorHeld, OperandHeld, InCallback,
            AfterOperand
<1>1. ASSUME NEW line \in Lines, HostRequests(line) \/ HostClears(line)
      PROVE  LocalInv'
  <2>1. Sampled' = Sampled
    BY <1>1, RequestKeepsSample
       DEF HostRequests, HostClears, RequestInterrupt, ClearInterrupt, stepVars
  <2> QED
    BY <1>1, <2>1
       DEF HostRequests, HostClears, RequestInterrupt, ClearInterrupt, stepVars
<1>2. ASSUME NEW pending \in BOOLEAN, HostSetsReset(pending) PROVE LocalInv'
  BY <1>2 DEF HostSetsReset, SetReset, stepVars, Sampled, BetweenSteps
<1>3. CASE HostStalls
  <2>1. requests # None
    BY NoneAssumption DEF TypeOK, FrameTypeOK, Bits
  <2>2. deferred' = None /\ requests' = requests
    BY <1>3 DEF HostStalls, NoteStall, Confirm
  <2> QED
    BY <1>3, <2>1, <2>2 DEF HostStalls, NoteStall, stepVars, Sampled, BetweenSteps
<1>4. ASSUME NEW c \in Callables, HostReplacesRead(c) \/ HostReplacesWrite(c)
      PROVE  LocalInv'
  BY <1>4 DEF HostReplacesRead, SetReadByte, HostReplacesWrite, SetWriteByte,
              stepVars, Sampled, BetweenSteps
<1>5. CASE HostRoundTrips \/ \E s \in HostStates : HostRestores(s)
  <2>1. cycle' = 0
    BY <1>5 DEF HostRoundTrips, HostRestores, BetweenSteps, stepVars
  <2> QED
    BY <2>1
<1>6. CASE HostRaises
  BY <1>6 DEF HostRaises
<1> QED
  BY <1>1, <1>2, <1>3, <1>4, <1>5, <1>6 DEF Host

(* The boundary consumes _polled_i and starts a sequence of a known length. *)
LEMMA LocalBegin ==
  ASSUME TypeOK, RoutesAreCurrent, LocalInv, BeginStep PROVE LocalInv'
<1> USE DEF LocalInv, LengthHeld, MaskHeld, VectorHeld, OperandHeld, InCallback
<1>1. cycle' = 1
  BY DEF BeginStep, AcceptReset, Halted, EnterInterrupt, Execute, FirstAccess
<1>2. CASE AcceptReset
  <2>1. "RESET" \in Entries /\ 7 \in Lengths("RESET")
    BY DEF Entries, Lengths, NoPollSequences
  <2> QED
    BY <1>1, <1>2, <2>1 DEF AcceptReset, FirstAccess
<1>3. CASE Halted
  <2>1. "JAM_IDLE" \in Entries /\ 1 \in Lengths("JAM_IDLE")
    BY DEF Entries, Lengths, NoPollSequences
  <2> QED
    BY <1>1, <1>3, <2>1 DEF Halted, FirstAccess
<1>4. ASSUME NEW kind \in {"NMI", "IRQ"}, EnterInterrupt(kind) PROVE LocalInv'
  <2>1. kind \in Entries /\ 7 \in Lengths(kind)
    BY DEF Entries, Lengths, NoPollSequences
  <2> QED
    BY <1>1, <1>4, <2>1 DEF EnterInterrupt, FirstAccess
<1>5. ASSUME NEW s \in Instructions, NEW n \in Lengths(s), Execute(s, n)
      PROVE  LocalInv'
  <2>1. polledI' = None
    BY <1>5 DEF Execute, Consulted
  <2>2. s # "NMI"
    BY DEF Instructions
  <2> QED
    BY <1>1, <1>5, <2>1, <2>2 DEF Execute, FirstAccess
<1> QED
  BY <1>2, <1>3, <1>4, <1>5 DEF BeginStep

(* PLP sets _polled_i after its third access; nothing else does in mid-step. *)
LEMMA LocalMid ==
  ASSUME TypeOK, RoutesAreCurrent, LocalInv, MidStep PROVE LocalInv'
<1> USE DEF LocalInv, LengthHeld, MaskHeld, VectorHeld, OperandHeld, InCallback, At
<1> PICK kind \in {"read", "write"} :
      \/ Proceed(kind)
      \/ TakeNMI(kind) \/ ChooseVector(kind) \/ SetI(kind)
      \/ PollOldI(kind) \/ PullP(kind)
      \/ BranchOperand(kind) \/ BranchTaken(kind) \/ BranchCrosses(kind)
  BY KindsKnown DEF MidStep
<1>1. /\ NextAccess(kind) /\ UNCHANGED <<readByte, writeByte>>
      /\ 0 < cycle /\ cycle < total
  BY DEF Proceed, Quiet, TakeNMI, ClearsNMILatch, ChooseVector, ChoosesVector,
         SetI, SetsI, PollOldI, PollsI, PullP, PullsP,
         BranchOperand, BranchTaken, BranchCrosses, InCallback, TypeOK
<1>2. /\ seq' = seq /\ total' = total /\ cycle' = cycle + 1 /\ cycle \in 1..10
  BY <1>1 DEF NextAccess, TypeOK
<1>3. deferred' = None
  BY <1>1, RoutesAccess DEF NextAccess
<1>4. LengthHeld'
  BY <1>1, <1>2
<1>5. CASE Proceed(kind)
  <2>1. ~ (seq = "PLP" /\ cycle = 3) /\ ~ (seq = "BRANCH" /\ cycle = 1)
    BY <1>1, <1>5 DEF Proceed, Quiet, PollsI, BranchPlace
  <2>2. /\ ~ (seq' = "PLP" /\ cycle' = 4) /\ ~ (seq' = "BRANCH" /\ cycle' = 2)
        /\ polledI' = polledI /\ pI' = pI /\ vector' = vector
    BY <1>2, <1>5, <2>1 DEF Proceed
  <2>3. seq = "PLP" => cycle # 4
    BY <1>1, <1>2, PLPLength
  <2> QED
    BY <1>1, <1>2, <1>4, <2>2, <2>3
<1>6. CASE TakeNMI(kind)
  BY <1>1, <1>2, <1>4, <1>6 DEF TakeNMI, ClearsNMILatch
<1>7. CASE ChooseVector(kind)
  BY <1>1, <1>2, <1>4, <1>7 DEF ChooseVector, ChoosesVector
<1>8. CASE SetI(kind)
  BY <1>1, <1>2, <1>4, <1>8 DEF SetI, SetsI
<1>9. CASE PollOldI(kind)
  BY <1>1, <1>2, <1>4, <1>9 DEF PollOldI, PollsI
<1>10. CASE PullP(kind)
  BY <1>1, <1>2, <1>4, <1>10 DEF PullP, PullsP
<1>11. CASE BranchOperand(kind)
  BY <1>1, <1>2, <1>3, <1>4, <1>11 DEF BranchOperand, AfterOperand, Sampled, BetweenSteps
<1>12. CASE BranchTaken(kind)
  BY <1>1, <1>2, <1>4, <1>12 DEF BranchTaken
<1>13. CASE BranchCrosses(kind)
  BY <1>1, <1>2, <1>4, <1>13 DEF BranchCrosses
<1> QED
  BY <1>5, <1>6, <1>7, <1>8, <1>9, <1>10, <1>11, <1>12, <1>13

(* After the last access nothing is claimed any more. *)
LEMMA LocalEnd == ASSUME TypeOK, LocalInv, EndStep PROVE LocalInv'
<1>1. cycle' = 0
  BY DEF EndStep, EndInstruction, EndCLI, EndSEI, EndPLP, EndJAM, EndBRK,
         EndBranchNotTaken, EndBranchSamePage, EndBranchAcrossPage,
         EndEntry, EndHalted, Retire, StepReturns
<1> QED
  BY <1>1 DEF LocalInv, LengthHeld, MaskHeld, VectorHeld, OperandHeld, InCallback

(* RefInv is inductive. *)
LEMMA RefNext == ASSUME HonestStates, RefInv, [Next]_vars PROVE RefInv'
<1>1. LocalInv'
  <2>1. CASE UNCHANGED vars
    BY <2>1 DEF vars, frameVars, stepVars, RefInv, LocalInv, LengthHeld, MaskHeld,
                VectorHeld, OperandHeld, InCallback, AfterOperand, Sampled, BetweenSteps
  <2> QED
    BY <2>1, LocalHost, LocalBegin, LocalMid, LocalEnd DEF RefInv, Next, CPU
<1> QED
  BY <1>1, TypeNext, RoutesNext, PollNext DEF RefInv

-----------------------------------------------------------------------------
(***************************************************************************)
(* Each step of the program is a step of the contract, or a stutter.       *)
(***************************************************************************)
LEMMA MapInit == ASSUME Init PROVE Contract!Init
<1>1. Sampled = {}
  BY DEF Init, Sampled, BetweenSteps
<1>2. PolledRequests = {} /\ PolledMask = FLAG_I
  BY DEF Init, FrameInit, PolledRequests, PolledMask
<1>3. BranchSeen = {} /\ Halts = Contract!NoHalts
  BY DEF Init, BranchSeen, Halts, Contract!NoHalts
<1> QED
  BY <1>1, <1>2, <1>3 DEF Init, FrameInit, Contract!Init

(* What the poll saw is a set of bits, whichever way it is kept. *)
LEMMA PolledTypes ==
  ASSUME TypeOK
  PROVE  /\ requests # None /\ {NO_POLL} # None
         /\ NO_POLL \notin requests
         /\ \A line \in Lines : /\ requests \cup {line} # None
                                /\ polled # None => polled \cup {line} # None
                                /\ polled # None => polled \ {line} # None
         /\ pI # None
<1>1. \A bits \in SUBSET Bits : bits # None
  BY NoneAssumption
<1>2. /\ requests \in SUBSET Bits /\ {NO_POLL} \in SUBSET Bits
      /\ NO_POLL \notin requests
  <2>1. requests \subseteq Lines /\ NO_POLL \notin Lines
    BY DEF TypeOK, FrameTypeOK, Lines
  <2>2. NO_POLL \notin requests
    BY <2>1
  <2>3. requests \subseteq Bits /\ {NO_POLL} \subseteq Bits
    BY <2>1 DEF Bits
  <2> QED
    BY <2>2, <2>3
<1>3. ASSUME NEW line \in Lines
      PROVE  /\ requests \cup {line} \in SUBSET Bits
             /\ polled # None => polled \cup {line} \in SUBSET Bits
             /\ polled # None => polled \ {line} \in SUBSET Bits
  BY <1>2 DEF TypeOK, FrameTypeOK, Bits
<1>4. pI # None
  BY NoneAssumption DEF TypeOK, FrameTypeOK
<1> QED
  BY <1>1, <1>2, <1>3, <1>4

(* A request is the contract's Assert. *)
LEMMA MapRequests ==
  ASSUME TypeOK, NEW line \in Lines, HostRequests(line)
  PROVE  Contract!Assert(line)
<1>1. Sampled' = Sampled
  BY RequestKeepsSample DEF HostRequests, RequestInterrupt, stepVars
<1>2. PolledRequests' = IF NO_POLL \in PolledRequests THEN PolledRequests
                        ELSE PolledRequests \cup {line}
  BY PolledTypes DEF HostRequests, RequestInterrupt, Request, PolledRequests
<1>3. /\ requests' = requests \cup {line} /\ UNCHANGED stepVars
      /\ UNCHANGED <<stalled, stalledBefore, polledI, resetPending, halted, pI>>
  BY DEF HostRequests, RequestInterrupt, Request
<1>4. PolledMask' = PolledMask /\ BranchSeen' = BranchSeen /\ Halts' = Halts
  BY <1>3 DEF stepVars, PolledMask, BranchSeen, Halts
<1> QED
  BY <1>1, <1>2, <1>3, <1>4 DEF stepVars, Contract!Assert

(* A release is the contract's Release. *)
LEMMA MapClears ==
  ASSUME TypeOK, NEW line \in Lines, HostClears(line)
  PROVE  Contract!Release(line)
<1>1. Sampled' = Sampled
  BY RequestKeepsSample DEF HostClears, ClearInterrupt, stepVars
<1>2. PolledRequests' = PolledRequests \ {line}
  BY PolledTypes DEF HostClears, ClearInterrupt, Request, PolledRequests
<1>3. /\ requests' = requests \ {line} /\ UNCHANGED stepVars
      /\ UNCHANGED <<stalled, stalledBefore, polledI, resetPending, halted, pI>>
  BY DEF HostClears, ClearInterrupt, Request
<1>4. PolledMask' = PolledMask /\ BranchSeen' = BranchSeen /\ Halts' = Halts
  BY <1>3 DEF stepVars, PolledMask, BranchSeen, Halts
<1> QED
  BY <1>1, <1>2, <1>3, <1>4 DEF stepVars, Contract!Release

(* So with the reset input. *)
LEMMA MapReset ==
  ASSUME NEW pending \in BOOLEAN, HostSetsReset(pending)
  PROVE  Contract!Reset(pending)
BY DEF HostSetsReset, SetReset, stepVars, Contract!Reset, Sampled, BetweenSteps,
       PolledRequests, PolledMask, BranchSeen, Halts

(* note_stall is the contract's halted cycle. *)
LEMMA MapStall ==
  ASSUME TypeOK, HostStalls PROVE Contract!HaltedCycle
<1>1. Sampled' = requests
  BY DEF HostStalls, NoteStall, Confirm, stepVars, Sampled, BetweenSteps, InCallback,
         TypeOK
<1>2. Halts' = IF seq = "BRANCH" /\ cycle = 3
               THEN [last |-> requests, before |-> Halts.last]
               ELSE [last |-> {}, before |-> {}]
  BY PolledTypes DEF HostStalls, NoteStall, stepVars, Halts, OrNothing
<1> QED
  BY <1>1, <1>2
     DEF HostStalls, NoteStall, stepVars, InCallback, Contract!HaltedCycle,
         Contract!NoHalts, PolledRequests, PolledMask, BranchSeen

(* Replacing a callable is a stutter of the contract. *)
LEMMA MapBus ==
  ASSUME NEW c \in Callables, HostReplacesRead(c) \/ HostReplacesWrite(c)
  PROVE  UNCHANGED Contract!vars
BY DEF HostReplacesRead, HostReplacesWrite, SetReadByte, SetWriteByte, stepVars,
       Contract!vars, Sampled, BetweenSteps, PolledRequests, PolledMask,
       BranchSeen, Halts

(* So is a capture restored at once. *)
LEMMA MapRoundTrip ==
  ASSUME TypeOK, PollInv, HostRoundTrips PROVE UNCHANGED Contract!vars
<1>1. UNCHANGED stepVars /\ cycle = 0
  BY DEF HostRoundTrips, BetweenSteps
<1>2. Sampled' = Sampled /\ BranchSeen' = BranchSeen /\ Halts' = Halts
  BY <1>1 DEF stepVars, Sampled, BetweenSteps, BranchSeen, Halts
<1> QED
  BY <1>1, <1>2, RoundTripFrame DEF stepVars, Contract!vars

(* An abandoned step has spent the poll its boundary looked at: there is   *)
(* nothing in _polled, and nothing in _polled_i but P's own I, so the next *)
(* boundary goes by the requests.                                          *)
LEMMA MapRaise ==
  ASSUME RefInv, HostRaises PROVE Contract!Abandon
<1>1. /\ cycle > 0 /\ cycle' = 0 /\ total' = 0 /\ access' = None
      /\ vector' = None /\ seq' = None
      /\ UNCHANGED <<requests, resetPending, halted, pI, polled, polledI>>
  BY DEF HostRaises, InCallback, frameVars
<1>2. Sampled' = {} /\ BranchSeen' = {} /\ Halts' = Contract!NoHalts
  BY <1>1 DEF Sampled, BetweenSteps, BranchSeen, Halts, Contract!NoHalts
<1>3. PolledRequests' = IF seq \in {"RESET", "JAM_IDLE"} THEN PolledRequests
                        ELSE requests
  BY <1>1 DEF PolledRequests, RefInv, PollInv, PollUsedOnce, InCallback
<1>4. PolledMask' = IF seq = "JAM_IDLE" THEN PolledMask ELSE pI
  BY <1>1 DEF PolledMask, RefInv, LocalInv, MaskHeld, InCallback
<1> QED
  BY <1>1, <1>2, <1>3, <1>4 DEF Contract!Abandon

(* Restoring a host-built state is the contract's Restore. *)
LEMMA MapRestore ==
  ASSUME HonestStates, TypeOK, NEW s \in HostStates, HostRestores(s)
  PROVE  Contract!Restore(s)
<1>1. cycle = 0 /\ UNCHANGED <<cycle, total, access, vector>> /\ seq' = None
  BY DEF HostRestores, BetweenSteps
<1>2. Sampled' = Sampled /\ BranchSeen' = BranchSeen /\ Halts' = Halts
  BY <1>1 DEF Sampled, BetweenSteps, BranchSeen, Halts
<1>3. s \in CPUStates
  BY HostStatesAssumption
<1>4. RestoredSeen(s) \in SUBSET Bits /\ RestoredRequests(s) \in SUBSET Bits
  BY DEF RestoredSeen, RestoredRequests, Bits
<1>5. PolledRequests' = RestoredSeen(s)
  BY <1>4, NoneAssumption
     DEF HostRestores, RestoreState, RestoredPolled, PolledRequests
<1>6. RestoredSeen(s) =
        IF s.skippedPoll THEN {NO_POLL}
        ELSE {l \in Lines : s.polled[l] = TRUE \/ (s.polled[l] = None /\ s.pending[l])}
  <2>1. CASE s.skippedPoll
    BY <2>1 DEF HonestStates
  <2>2. CASE ~ s.skippedPoll
    <3>1. ASSUME NEW l \in Lines
          PROVE  (IF s.polled[l] = None THEN s.pending[l] ELSE s.polled[l])
                   <=> (s.polled[l] = TRUE \/ (s.polled[l] = None /\ s.pending[l]))
      <4>1. s.polled[l] \in BOOLEAN \cup {None}
        BY <1>3 DEF CPUStates
      <4>2. None # TRUE /\ None # FALSE
        BY NoneAssumption
      <4> QED
        BY <4>1, <4>2
    <3> QED
      BY <2>2, <3>1 DEF RestoredSeen
  <2> QED
    BY <2>1, <2>2
<1>7. PolledMask' = IF s.polledI = None THEN s.p
                    ELSE IF s.polledI THEN FLAG_I ELSE 0
  BY NoneAssumption DEF HostRestores, RestoreState, RestoredI, PolledMask, IValues
<1>8. /\ requests' = {l \in Lines : s.pending[l]}
      /\ resetPending' = s.resetPending /\ halted' = s.halted /\ pI' = s.p
  BY DEF HostRestores, RestoreState, RestoredRequests
<1> QED
  BY <1>1, <1>2, <1>5, <1>6, <1>7, <1>8, SameVocabulary DEF Contract!Restore

-----------------------------------------------------------------------------
(***************************************************************************)
(* The boundary, and the first access of what it takes.                    *)
(***************************************************************************)
LEMMA BoundaryKinds == None \notin {"RESET", "JAM_IDLE", "NMI", "IRQ"}
BY NoneAssumption DEF Entries

(* The boundary takes only what the contract may run. *)
LEMMA TakesWhatRuns ==
  /\ StepTakes = None => Contract!Runs = Instructions
  /\ StepTakes # None => Contract!Runs = {StepTakes}
<1>1. None \notin {"RESET", "JAM_IDLE", "NMI", "IRQ"}
  BY BoundaryKinds
<1>2. \A bits : "NMI" \in bits \/ "IRQ" \in bits => bits # {}
  OBVIOUS
<1>3. ~ Consulted => BoundaryInterrupt = None
  BY <1>2 DEF Consulted, PolledRequests, BoundaryInterrupt
<1>4. StepTakes = IF resetPending THEN "RESET" ELSE IF halted THEN "JAM_IDLE"
                  ELSE BoundaryInterrupt
  BY <1>3 DEF StepTakes
<1>5. Contract!Instructions = Instructions
  BY SameVocabulary
<1>6. CASE resetPending
  BY <1>1, <1>4, <1>6 DEF Contract!Runs
<1>7. CASE ~ resetPending /\ halted
  BY <1>1, <1>4, <1>7 DEF Contract!Runs
<1>8. CASE ~ resetPending /\ ~ halted
  <2>1. StepTakes = BoundaryInterrupt
    BY <1>4, <1>8
  <2>2. Contract!Runs = IF "NMI" \in PolledRequests THEN {"NMI"}
                        ELSE IF "IRQ" \in PolledRequests /\ PolledMask = 0 THEN {"IRQ"}
                        ELSE Instructions
    BY <1>5, <1>8 DEF Contract!Runs
  <2> QED
    BY <1>1, <2>1, <2>2 DEF BoundaryInterrupt
<1> QED
  BY <1>6, <1>7, <1>8

(* The first access confirms: the sample is the requests of now. *)
LEMMA FirstAccessMaps ==
  ASSUME TypeOK, RoutesAreCurrent, BetweenSteps, NEW s, NEW n, FirstAccess(s, n),
         requests' = requests
  PROVE  /\ cycle = 0 /\ seq' = s /\ cycle' = 1 /\ total' = n /\ access' = "read"
         /\ Sampled' = requests
         /\ BranchSeen' = BranchSeen /\ Halts' = Halts
<1>1. deferred' = None
  BY DEF FirstAccess, RoutesAreCurrent, Access, Route, Confirm
<1> QED
  BY <1>1 DEF FirstAccess, BetweenSteps, Sampled, BranchSeen, Halts

(* The decision and the first access are the contract's BeginStep. *)
LEMMA MapBegin ==
  ASSUME TypeOK, RoutesAreCurrent, BeginStep
  PROVE  \E s \in Instructions \cup Entries : \E n \in Lengths(s) : Contract!BeginStep(s, n)
<1> USE BoundaryKinds
<1>1. CASE AcceptReset
  <2>1. "RESET" \in Entries /\ 7 \in Lengths("RESET")
    BY DEF Entries, Lengths, NoPollSequences
  <2>2. PolledRequests' = PolledRequests /\ PolledMask' = pI
    BY <1>1 DEF AcceptReset, PolledRequests, PolledMask
  <2>3. Contract!BeginStep("RESET", 7)
    BY <1>1, <2>1, <2>2, FirstAccessMaps, TakesWhatRuns, SameVocabulary
       DEF AcceptReset, Contract!BeginStep, NoPollSequences
  <2> QED
    BY <2>1, <2>3
<1>2. CASE Halted
  <2>1. "JAM_IDLE" \in Entries /\ 1 \in Lengths("JAM_IDLE")
    BY DEF Entries, Lengths, NoPollSequences
  <2>2. PolledRequests' = PolledRequests /\ PolledMask' = PolledMask
    BY <1>2 DEF Halted, PolledRequests, PolledMask
  <2>3. halted \in BOOLEAN /\ resetPending \in BOOLEAN
    BY DEF TypeOK, FrameTypeOK
  <2>4. Contract!BeginStep("JAM_IDLE", 1)
    BY <1>2, <2>1, <2>2, <2>3, FirstAccessMaps, TakesWhatRuns, SameVocabulary
       DEF Halted, Contract!BeginStep, NoPollSequences
  <2> QED
    BY <2>1, <2>4
<1>3. ASSUME NEW kind \in {"NMI", "IRQ"}, EnterInterrupt(kind)
      PROVE  kind \in Entries /\ 7 \in Lengths(kind) /\ Contract!BeginStep(kind, 7)
  <2>1. kind \in Entries /\ 7 \in Lengths(kind)
    BY DEF Entries, Lengths, NoPollSequences
  <2>2. PolledRequests' = requests /\ PolledMask' = pI
    BY <1>3 DEF EnterInterrupt, PolledRequests, PolledMask
  <2>3. halted \in BOOLEAN /\ resetPending \in BOOLEAN
    BY DEF TypeOK, FrameTypeOK
  <2>4. Contract!BeginStep(kind, 7)
    BY <1>3, <2>1, <2>2, <2>3, FirstAccessMaps, TakesWhatRuns, SameVocabulary
       DEF EnterInterrupt, Contract!BeginStep, NoPollSequences
  <2> QED
    BY <2>1, <2>4
<1>4. ASSUME NEW s \in Instructions, NEW n \in Lengths(s), Execute(s, n)
      PROVE  Contract!BeginStep(s, n)
  <2>1. PolledRequests' = requests /\ PolledMask' = pI
    BY <1>4 DEF Execute, Consulted, PolledRequests, PolledMask
  <2>2. halted \in BOOLEAN /\ resetPending \in BOOLEAN
    BY DEF TypeOK, FrameTypeOK
  <2>3. s \notin {"RESET", "JAM_IDLE", "NMI", "IRQ"}
    BY DEF Instructions
  <2> QED
    BY <1>4, <2>1, <2>2, <2>3, FirstAccessMaps, TakesWhatRuns, SameVocabulary
       DEF Execute, Contract!BeginStep, NoPollSequences
<1> QED
  BY <1>1, <1>2, <1>3, <1>4 DEF BeginStep

-----------------------------------------------------------------------------
(***************************************************************************)
(* Between two accesses.                                                   *)
(***************************************************************************)
LEMMA MapMid ==
  ASSUME RefInv, RefInv', MidStep
  PROVE  \E kind \in {"read", "write"} : Contract!NextCycle(kind)
<1> PICK kind \in Kinds(seq, cycle + 1) :
      \/ Proceed(kind)
      \/ TakeNMI(kind) \/ ChooseVector(kind) \/ SetI(kind)
      \/ PollOldI(kind) \/ PullP(kind)
      \/ BranchOperand(kind) \/ BranchTaken(kind) \/ BranchCrosses(kind)
  BY DEF MidStep
<1> USE DEF At
<1>1. /\ NextAccess(kind) /\ UNCHANGED <<resetPending, halted, readByte, writeByte>>
      /\ 0 < cycle /\ cycle < total
  BY DEF Proceed, Quiet, TakeNMI, ClearsNMILatch, ChooseVector, ChoosesVector,
         SetI, SetsI, PollOldI, PollsI, PullP, PullsP,
         BranchOperand, BranchTaken, BranchCrosses, InCallback, TypeOK, RefInv
<1>2. /\ cycle' = cycle + 1 /\ access' = kind /\ UNCHANGED <<seq, total>>
      /\ cycle \in 1..10 /\ total \in 0..11
  BY <1>1 DEF NextAccess, TypeOK, RefInv
<1>3. deferred' = None /\ Sampled' = requests'
  <2>1. kind \in {"read", "write"}
    BY KindsKnown
  <2>2. deferred' = None
    BY <1>1, <2>1, RoutesAccess DEF NextAccess, RefInv
  <2> QED
    BY <1>2, <2>2 DEF Sampled, BetweenSteps
<1>4. kind \in {"read", "write"} /\ kind \in Contract!Kinds(seq, cycle + 1)
  BY KindsKnown, SameVocabulary
<1>5. seq # "JAM_IDLE"
  <2>1. Lengths("JAM_IDLE") = {1}
    BY DEF Lengths, NoPollSequences
  <2> QED
    BY <1>1, <1>2, <2>1 DEF RefInv, LocalInv, LengthHeld, InCallback
<1>6. PolledMask' = pI'
  BY <1>2, <1>5 DEF RefInv, LocalInv, MaskHeld, InCallback, PolledMask
<1>7. polled' = polled /\ (seq # "RESET" => polled = None)
  BY <1>1, <1>5
     DEF RefInv, PollInv, PollUsedOnce, InCallback, Proceed, TakeNMI, ChooseVector,
         SetI, PollOldI, PullP, BranchOperand, BranchTaken, BranchCrosses
<1>8. /\ requests' = IF Contract!TakesLatch THEN requests \ {NMI_LATCH} ELSE requests
      /\ vector' = IF Contract!TakesLatch THEN "NMI" ELSE vector
  <2> USE DEF Contract!TakesLatch
  <2>1. CASE TakeNMI(kind)
    BY <1>2, <2>1 DEF TakeNMI, ClearsNMILatch, RefInv, LocalInv, VectorHeld, InCallback
  <2>2. CASE ChooseVector(kind)
    BY <1>2, <2>2 DEF ChooseVector, ChoosesVector
  <2>3. CASE ~ TakeNMI(kind) /\ ~ ChooseVector(kind)
    <3>1. ~ ClearsNMILatch /\ ~ ChoosesVector
      BY <1>2, <2>3
         DEF Proceed, Quiet, SetI, SetsI, PollOldI, PollsI, PullP, PullsP, BranchOperand,
             BranchTaken, BranchCrosses, ClearsNMILatch, ChoosesVector
    <3>2. UNCHANGED <<requests, vector>>
      BY <2>3 DEF Proceed, SetI, PollOldI, PullP, BranchOperand, BranchTaken,
                  BranchCrosses
    <3> QED
      BY <1>1, <3>1, <3>2 DEF ClearsNMILatch, ChoosesVector
  <2> QED
    BY <2>1, <2>2, <2>3
<1>9. PolledRequests' = IF Contract!TakesLatch THEN PolledRequests \ {NMI_LATCH}
                        ELSE PolledRequests
  BY <1>7, <1>8 DEF PolledRequests, Contract!TakesLatch
<1>10. \/ seq \in NoPollSequences /\ cycle = 5 /\ pI' = FLAG_I
       \/ seq = "RTI" /\ cycle = 4 /\ pI' \in IValues
       \/ /\ ~ (seq \in NoPollSequences /\ cycle = 5)
          /\ ~ (seq = "RTI" /\ cycle = 4)
          /\ pI' = pI
  <2>1. CASE SetI(kind)
    BY <2>1 DEF SetI, SetsI, NoPollSequences
  <2>2. CASE PullP(kind)
    BY <2>2 DEF PullP, PullsP
  <2>3. CASE ~ SetI(kind) /\ ~ PullP(kind)
    <3>1. pI' = pI
      BY <2>3 DEF Proceed, TakeNMI, ChooseVector, PollOldI, BranchOperand, BranchTaken,
                  BranchCrosses
    <3>2. ~ SetsI /\ ~ PullsP
      BY <1>2, <2>3
         DEF Proceed, Quiet, TakeNMI, ClearsNMILatch, ChooseVector, ChoosesVector,
             PollOldI, PollsI, BranchOperand, BranchTaken, BranchCrosses, SetsI, PullsP
    <3> QED
      BY <1>1, <3>1, <3>2 DEF SetsI, PullsP, NoPollSequences
  <2> QED
    BY <2>1, <2>2, <2>3
<1>11. BranchSeen' = CASE seq = "BRANCH" /\ cycle = 2 -> Sampled
                       [] seq = "BRANCH" /\ cycle = 3 -> BranchSeen \cup Halts.before
                       [] OTHER                       -> BranchSeen
  <2>1. CASE seq = "BRANCH" /\ cycle = 2
    <3>1. BranchTaken(kind)
      BY <1>1, <2>1 DEF Proceed, Quiet, BranchPlace, TakeNMI, ClearsNMILatch, ChooseVector,
                   ChoosesVector, SetI, SetsI, PollOldI, PollsI, PullP, PullsP,
                   BranchOperand, BranchCrosses
    <3> QED
      BY <1>2, <2>1, <3>1 DEF BranchTaken, BranchSeen, RefInv, LocalInv, OperandHeld
  <2>2. CASE seq = "BRANCH" /\ cycle = 3
    <3>1. BranchCrosses(kind)
      BY <1>1, <2>2 DEF Proceed, Quiet, BranchPlace, TakeNMI, ClearsNMILatch, ChooseVector,
                   ChoosesVector, SetI, SetsI, PollOldI, PollsI, PullP, PullsP,
                   BranchOperand, BranchTaken
    <3>2. early \cup {} = early
      OBVIOUS
    <3> QED
      BY <1>2, <2>2, <3>1, <3>2 DEF BranchCrosses, BranchSeen, AfterNextOpcode, Halts, OrNothing
  <2>3. CASE seq # "BRANCH"
    BY <1>2, <2>3 DEF BranchSeen
  <2>4. CASE seq = "BRANCH" /\ cycle \notin {2, 3}
    <3>1. cycle = 1
      BY <1>1, <1>2, <2>4, BranchLengths DEF RefInv, LocalInv, LengthHeld, InCallback
    <3> QED
      BY <1>2, <2>4, <3>1 DEF BranchSeen
  <2> QED
    BY <2>1, <2>2, <2>3, <2>4
<1>12. Halts' = Contract!NoHalts
  <2>1. CASE seq = "BRANCH" /\ cycle = 2
    <3>1. BranchTaken(kind)
      BY <1>1, <2>1 DEF Proceed, Quiet, BranchPlace, TakeNMI, ClearsNMILatch, ChooseVector,
                   ChoosesVector, SetI, SetsI, PollOldI, PollsI, PullP, PullsP,
                   BranchOperand, BranchCrosses
    <3>2. stalled' = None /\ stalledBefore' = None
      BY <2>1, <3>1 DEF BranchTaken, RefInv, LocalInv, OperandHeld
    <3> QED
      BY <3>2 DEF Halts, OrNothing, Contract!NoHalts
  <2>2. CASE ~ (seq = "BRANCH" /\ cycle = 2)
    BY <1>2, <2>2 DEF Halts, Contract!NoHalts
  <2> QED
    BY <2>1, <2>2
<1> QED
  <2>1. Contract!NextCycle(kind)
    BY <1>1, <1>2, <1>3, <1>4, <1>6, <1>8, <1>9, <1>10, <1>11, <1>12, SameVocabulary
       DEF Contract!NextCycle
  <2> QED
    BY <1>4, <2>1

-----------------------------------------------------------------------------
(***************************************************************************)
(* The end of step(): the poll of the sequence that ends.                  *)
(***************************************************************************)

(* What step() leaves in polled, where the handler ends with d deferred:   *)
(* d, or the requests when nothing is deferred.                            *)
LEMMA RetireSees ==
  ASSUME polled = None, NEW d, Retire(d), requests' = requests
  PROVE  PolledRequests' = IF d = None THEN requests ELSE d
BY DEF Retire, PolledRequests

(* After a step no sample and no branch poll is left. *)
LEMMA EndMapsRest ==
  ASSUME StepReturns
  PROVE  /\ cycle' = 0 /\ total' = 0 /\ access' = None /\ vector' = None /\ seq' = seq
         /\ Sampled' = {} /\ BranchSeen' = {} /\ Halts' = Contract!NoHalts
BY DEF StepReturns, Sampled, BetweenSteps, BranchSeen, Halts, Contract!NoHalts

(* The end of step() is the contract's EndStep. *)
LEMMA MapEnd == ASSUME RefInv, EndStep PROVE Contract!EndStep
<1>1. StepReturns
  BY DEF EndStep, EndInstruction, EndCLI, EndSEI, EndPLP, EndJAM, EndBRK,
         EndBranchNotTaken, EndBranchSamePage, EndBranchAcrossPage,
         EndEntry, EndHalted, Retire
<1>2. /\ cycle > 0 /\ cycle = total /\ UNCHANGED <<requests, resetPending>>
      /\ seq \in Instructions \cup Entries
  BY DEF EndStep, EndInstruction, EndCLI, EndSEI, EndPLP, EndJAM, EndBRK,
         EndBranchNotTaken, EndBranchSamePage, EndBranchAcrossPage,
         EndEntry, EndHalted, LastCallback, RefInv, LocalInv, LengthHeld, InCallback,
         Instructions, Entries
<1>3. total \in Lengths(seq) /\ (seq \notin {"RESET", "JAM_IDLE"} => polled = None)
  BY <1>2 DEF RefInv, LocalInv, LengthHeld, PollInv, PollUsedOnce, InCallback
<1>4. /\ pI # None /\ {NO_POLL} # None /\ requests # None
      /\ halted \in BOOLEAN
  BY PolledTypes DEF RefInv, TypeOK, FrameTypeOK
<1>5. \A bits \in SUBSET Lines : bits # None
  BY NoneAssumption DEF Bits
<1>6. Sampled = IF deferred = None THEN requests ELSE deferred
  BY <1>2 DEF Sampled, BetweenSteps
<1>7. Contract!NoPollSequences = NoPollSequences
  BY SameVocabulary
<1>8. /\ PolledRequests' = Contract!Poll
      /\ CASE seq = "CLI" -> pI' = 0 /\ PolledMask' = pI
           [] seq = "SEI" -> pI' = FLAG_I /\ PolledMask' = pI
           [] seq = "PLP" -> pI' \in IValues /\ PolledMask' = pI
           [] OTHER       -> UNCHANGED <<pI, PolledMask>>
      /\ halted' = (halted \/ seq = "JAM")
  <2> USE <1>2, <1>3, <1>4, <1>6, <1>7
      DEF Contract!Poll, LastCallback, NoPollSequences, PolledMask
  <2>1. CASE EndInstruction
    BY <2>1, RetireSees DEF EndInstruction
  <2>2. CASE EndCLI
    BY <2>2, RetireSees DEF EndCLI
  <2>3. CASE EndSEI
    BY <2>3, RetireSees DEF EndSEI
  <2>4. CASE EndPLP
    <3>1. polledI = pI
      BY <2>4, PLPLength DEF EndPLP, RefInv, LocalInv, MaskHeld, InCallback
    <3> QED
      BY <2>4, <3>1, RetireSees DEF EndPLP
  <2>5. CASE EndJAM
    BY <2>5, RetireSees DEF EndJAM
  <2>6. CASE EndBRK
    BY <2>6, RetireSees DEF EndBRK
  <2>7. CASE EndBranchNotTaken
    BY <2>7, RetireSees DEF EndBranchNotTaken
  <2>8. CASE EndBranchSamePage
    <3>1. AfterNextOpcode \in SUBSET Lines
      BY DEF AfterNextOpcode, RefInv, TypeOK, FrameTypeOK
    <3>2. AfterNextOpcode = BranchSeen \cup Halts.before
      <4>1. cycle = 3 /\ seq = "BRANCH"
        BY <2>8 DEF EndBranchSamePage
      <4>2. early \cup {} = early
        OBVIOUS
      <4> QED
        BY <4>1, <4>2 DEF AfterNextOpcode, BranchSeen, Halts, OrNothing
    <3> QED
      BY <1>5, <2>8, <3>1, <3>2, RetireSees DEF EndBranchSamePage
  <2>9. CASE EndBranchAcrossPage
    <3>1. early \cup Sampled \in SUBSET Lines
      BY DEF RefInv, TypeOK, FrameTypeOK
    <3>2. BranchSeen = early
      BY <2>9 DEF EndBranchAcrossPage, BranchSeen
    <3> QED
      BY <1>5, <2>9, <3>1, <3>2, RetireSees DEF EndBranchAcrossPage
  <2>10. CASE EndEntry
    BY <2>10 DEF EndEntry, PolledRequests
  <2>11. CASE EndHalted
    BY <2>11 DEF EndHalted, PolledRequests
  <2> QED
    BY <2>1, <2>2, <2>3, <2>4, <2>5, <2>6, <2>7, <2>8, <2>9, <2>10, <2>11 DEF EndStep
<1>9. Contract!IValues = IValues
  BY SameVocabulary
<1> QED
  BY <1>1, <1>2, <1>8, <1>9, EndMapsRest DEF Contract!EndStep

-----------------------------------------------------------------------------
(* Every step of the program is one of the contract, or a stutter. *)
LEMMA MapNext ==
  ASSUME HonestStates, RefInv, RefInv', [Next]_vars
  PROVE  [Contract!Next]_Contract!vars
<1>1. CASE UNCHANGED vars
  BY <1>1 DEF vars, frameVars, stepVars, Contract!vars, Sampled, BetweenSteps,
              PolledRequests, PolledMask, BranchSeen, Halts
<1>2. CASE Host
  <2>1. ASSUME NEW line \in Lines, HostRequests(line) \/ HostClears(line)
        PROVE  Contract!Board
    BY <2>1, MapRequests, MapClears, SameVocabulary DEF RefInv, Contract!Board
  <2>2. ASSUME NEW pending \in BOOLEAN, HostSetsReset(pending) PROVE Contract!Board
    BY <2>2, MapReset DEF Contract!Board
  <2>3. CASE HostStalls
    <3>1. Contract!HaltedCycle
      BY <2>3, MapStall DEF RefInv
    <3> QED
      BY <3>1 DEF Contract!Board, Contract!Next
  <2>4. ASSUME NEW c \in Callables, HostReplacesRead(c) \/ HostReplacesWrite(c)
        PROVE  UNCHANGED Contract!vars
    BY <2>4, MapBus
  <2>5. CASE HostRoundTrips
    BY <2>5, MapRoundTrip DEF RefInv
  <2>6. ASSUME NEW s \in HostStates, HostRestores(s) PROVE Contract!Board
    BY <2>6, MapRestore DEF RefInv, Contract!Board
  <2>7. CASE HostRaises
    <3>1. Contract!Abandon
      BY <2>7, MapRaise
    <3> QED
      BY <3>1 DEF Contract!Board, Contract!Next
  <2> QED
    BY <1>2, <2>1, <2>2, <2>3, <2>4, <2>5, <2>6, <2>7 DEF Host, Contract!Next
<1>3. CASE BeginStep
  BY <1>3, MapBegin, SameVocabulary DEF RefInv, Contract!Next, Contract!Chip
<1>4. CASE MidStep
  BY <1>4, MapMid DEF Contract!Next, Contract!Chip
<1>5. CASE EndStep
  BY <1>5, MapEnd DEF Contract!Next, Contract!Chip
<1> QED
  BY <1>1, <1>2, <1>3, <1>4, <1>5 DEF Next, CPU

(* However the requests, the stalls and the restored states arrive, the    *)
(* lazily kept _deferred, _polled, _polled_i and _stalled of the frame     *)
(* decide every boundary as the contract of docs/start-here.md does.       *)
THEOREM Implements == HonestStates => (Spec => ImplementsContract)
<1> SUFFICES ASSUME HonestStates PROVE Spec => Contract!Spec
  BY DEF ImplementsContract
<1>1. Init => RefInv
  BY TypeInit, RoutesInit, PollInit, LocalInit DEF RefInv
<1>2. RefInv /\ [Next]_vars => RefInv'
  BY RefNext
<1>3. Init => Contract!Init
  BY MapInit
<1>4. RefInv /\ RefInv' /\ [Next]_vars => [Contract!Next]_Contract!vars
  BY MapNext
<1> QED
  BY <1>1, <1>2, <1>3, <1>4, PTL DEF Spec, Contract!Spec
-----------------------------------------------------------------------------
(***************************************************************************)
(* How long a request waits.  Each lemma is about one line and one kind of *)
(* step of the contract.                                                   *)
(***************************************************************************)
CountTypeOK == waited \in [Lines -> 0..2]

(* A request that has seen two sequences end is the next boundary's. *)
NextIsIts(line) == line \in PolledRequests /\ (line = IRQ_LINE => PolledMask = 0)

(* One that has seen any was there when the step in progress began: every  *)
(* poll of an instruction will see it, and an entry is the line's own, or  *)
(* the other line's and then at most the first it has seen, until it comes *)
(* to the cycle that takes the request.                                    *)
IsSampled(line) ==
  /\ seq # "RESET"
  /\ line \in Sampled
  /\ seq = "BRANCH" /\ cycle > 2 => line \in BranchSeen
  /\ seq \in Instructions /\ seq # "BRK" => waited[line] = 1
  /\ line = NMI_LATCH /\ seq = "NMI" => cycle <= 2
  /\ line = NMI_LATCH /\ seq \in {"IRQ", "BRK"} => cycle <= 4 /\ waited[line] <= 1
  /\ line = IRQ_LINE /\ seq \in NoPollSequences => cycle <= 5
  /\ line = IRQ_LINE => PolledMask = 0

Held(line) ==
  /\ waited[line] > 0 => Waiting(line)
  /\ waited[line] = 2 /\ (BetweenSteps \/ seq = "JAM_IDLE") => NextIsIts(line)
  /\ waited[line] > 0 /\ InCallback /\ seq # "JAM_IDLE" => IsSampled(line)

LatencyInv == CountTypeOK /\ \A line \in Lines : Held(line)

(* A step that completes nothing leaves a line's count, or clears it. *)
Keeps(line) ==
  \/ waited'[line] = 0
  \/ waited'[line] = waited[line] /\ Waiting(line)'

(* Of a line that has seen nothing end nothing is claimed. *)
LEMMA HeldAtZero == ASSUME NEW line \in Lines, waited'[line] = 0 PROVE Held(line)'
BY DEF Held

(* No request, release, reset input or halted cycle hides a request from  *)
(* the sample or the poll it is already in.                                *)
LEMMA HeldBoard ==
  ASSUME TypeOK, CountTypeOK, NEW line \in Lines, Held(line), Keeps(line),
         \/ UNCHANGED Contract!vars
         \/ \E other \in Lines : Contract!Assert(other) \/ Contract!Release(other)
         \/ \E pending \in BOOLEAN : Contract!Reset(pending)
         \/ Contract!HaltedCycle
  PROVE  Held(line)'
<1>1. SUFFICES ASSUME waited'[line] = waited[line], Waiting(line)', waited[line] > 0
               PROVE  Held(line)'
  BY HeldAtZero DEF Keeps, CountTypeOK
<1>2. UNCHANGED <<seq, cycle>> /\ PolledMask' = PolledMask /\ BranchSeen' = BranchSeen
  BY DEF Contract!vars, Contract!Assert, Contract!Release, Contract!Reset,
         Contract!HaltedCycle
<1>3. line \in PolledRequests => line \in PolledRequests'
  <2>1. line \in requests'
    BY <1>1 DEF Waiting
  <2> QED
    BY <2>1 DEF Contract!vars, Contract!Assert, Contract!Release, Contract!Reset,
           Contract!HaltedCycle
<1>4. line \in Sampled => line \in Sampled'
  BY <1>1 DEF Waiting, Held, Contract!vars, Contract!Assert, Contract!Release,
              Contract!Reset, Contract!HaltedCycle
<1> QED
  BY <1>1, <1>2, <1>3, <1>4 DEF Held, NextIsIts, IsSampled, BetweenSteps, InCallback

(* An abandoned step leaves the next boundary the requests as they are. *)
LEMMA HeldAbandon ==
  ASSUME TypeOK, CountTypeOK, NEW line \in Lines, Held(line), Keeps(line),
         Contract!Abandon
  PROVE  Held(line)'
<1>1. SUFFICES ASSUME waited'[line] = waited[line], Waiting(line)', waited[line] > 0
               PROVE  Held(line)'
  BY HeldAtZero DEF Keeps, CountTypeOK
<1>2. cycle' = 0 /\ InCallback
  BY DEF Contract!Abandon, InCallback
<1>3. waited[line] = 2 => NextIsIts(line)'
  <2>1. CASE seq = "JAM_IDLE"
    BY <2>1 DEF Held, NextIsIts, Contract!Abandon
  <2>2. CASE seq # "JAM_IDLE"
    BY <1>1, <1>2, <2>2 DEF Held, IsSampled, Waiting, NextIsIts, Contract!Abandon
  <2> QED
    BY <2>1, <2>2
<1> QED
  BY <1>1, <1>2, <1>3 DEF Held, InCallback

(* A boundary takes what has waited twice, and samples what still waits. *)
LEMMA HeldBegin ==
  ASSUME TypeOK, CountTypeOK, NEW line \in Lines, Held(line), Keeps(line),
         NEW s \in (Instructions \cup Entries) \ {"RESET"}, NEW n \in Lengths(s),
         Contract!BeginStep(s, n)
  PROVE  Held(line)'
<1>1. SUFFICES ASSUME waited'[line] = waited[line], Waiting(line)', waited[line] > 0
               PROVE  Held(line)'
  BY HeldAtZero DEF Keeps, CountTypeOK
<1>2. /\ BetweenSteps /\ seq' = s /\ cycle' = 1 /\ s \in Contract!Runs
      /\ Sampled' = requests /\ UNCHANGED <<requests, pI>>
  BY DEF Contract!BeginStep, BetweenSteps
<1>3. CASE s = "JAM_IDLE"
  BY <1>1, <1>2, <1>3 DEF Held, NextIsIts, Contract!BeginStep
<1>4. CASE s # "JAM_IDLE"
  <2>1. PolledMask' = pI
    BY <1>4 DEF Contract!BeginStep
  <2>2. waited[line] = 2 => \/ s = "NMI"
                            \/ line = IRQ_LINE /\ s = "IRQ"
    <3>1. waited[line] = 2 => NextIsIts(line)
      BY <1>2 DEF Held
    <3>2. s # "RESET"
      OBVIOUS
    <3> QED
      BY <1>2, <1>4, <3>1, <3>2 DEF NextIsIts, Contract!Runs, Lines
  <2>3. waited[line] \in {1, 2}
    BY <1>1 DEF CountTypeOK
  <2>4. "NMI" \notin Instructions /\ "IRQ" \notin Instructions
    BY DEF Instructions
  <2>5. IsSampled(line)'
    BY <1>1, <1>2, <2>1, <2>2, <2>3, <2>4 DEF IsSampled, Waiting
  <2> QED
    BY <1>1, <1>2, <1>4, <2>5 DEF Held, BetweenSteps
<1> QED
  BY <1>3, <1>4

(* Between two accesses the sample is renewed, a branch's second access    *)
(* adds it to the branch's own polls, and an entry takes its request.      *)
LEMMA HeldMid ==
  ASSUME TypeOK, CountTypeOK, NEW line \in Lines, Held(line), Keeps(line),
         LengthHeld, NEW kind, Contract!NextCycle(kind)
  PROVE  Held(line)'
<1>1. SUFFICES ASSUME waited'[line] = waited[line], Waiting(line)', waited[line] > 0
               PROVE  Held(line)'
  BY HeldAtZero DEF Keeps, CountTypeOK
<1>2. /\ InCallback /\ seq' = seq /\ cycle' = cycle + 1 /\ cycle < total
      /\ cycle \in 1..10 /\ Sampled' = requests' /\ PolledMask' = pI'
  BY DEF Contract!NextCycle, InCallback, TypeOK
<1>3. seq # "JAM_IDLE"
  <2>1. Lengths("JAM_IDLE") = {1}
    BY DEF Lengths, NoPollSequences
  <2> QED
    BY <1>2, <2>1 DEF LengthHeld
<1>4. IsSampled(line)
  BY <1>1, <1>2, <1>3 DEF Held
<1>5. line \in requests' /\ (line = IRQ_LINE => pI' = 0)
  BY <1>1 DEF Waiting
<1>6. seq = "BRANCH" /\ cycle' > 2 => line \in BranchSeen'
  <2>1. CASE seq = "BRANCH" /\ cycle = 2
    BY <1>4, <2>1 DEF IsSampled, Contract!NextCycle
  <2>2. CASE seq = "BRANCH" /\ cycle > 2
    BY <1>4, <2>2 DEF IsSampled, Contract!NextCycle
  <2> QED
    BY <1>2, <2>1, <2>2
<1>7. line = NMI_LATCH /\ seq = "NMI" => cycle' <= 2
  BY <1>2, <1>4, <1>5 DEF IsSampled, Contract!NextCycle, Contract!TakesLatch
<1>8. line = NMI_LATCH /\ seq \in {"IRQ", "BRK"} => cycle' <= 4
  <2>1. line \in requests
    BY <1>1 DEF Held, Waiting
  <2> QED
    BY <1>2, <1>4, <1>5, <2>1 DEF IsSampled, Contract!NextCycle, Contract!TakesLatch
<1>9. line = IRQ_LINE /\ seq \in NoPollSequences => cycle' <= 5
  BY <1>2, <1>4, <1>5, SameVocabulary DEF IsSampled, Contract!NextCycle, NoPollSequences
<1>10. IsSampled(line)'
  BY <1>1, <1>2, <1>4, <1>5, <1>6, <1>7, <1>8, <1>9 DEF IsSampled
<1> QED
  BY <1>1, <1>2, <1>3, <1>10 DEF Held, BetweenSteps, InCallback

(* Only the end of a step raises a count, and a sequence at whose end the  *)
(* line has waited once already is an instruction, whose poll has seen it. *)
LEMMA HeldEnd ==
  ASSUME TypeOK, CountTypeOK, NEW line \in Lines, Held(line), LengthHeld,
         Contract!EndStep,
         \/ waited'[line] = 0
         \/ /\ waited'[line] = waited[line]
                 + (IF seq \notin {"RESET", "JAM_IDLE"} THEN 1 ELSE 0)
            /\ Waiting(line)'
  PROVE  Held(line)' /\ waited'[line] \in 0..2
<1>1. SUFFICES ASSUME waited'[line] # 0 PROVE Held(line)' /\ waited'[line] \in 0..2
  BY HeldAtZero
<1>2. /\ InCallback /\ cycle = total /\ seq' = seq /\ cycle' = 0
      /\ requests' = requests /\ Waiting(line)' /\ waited[line] \in 0..2
      /\ total \in Lengths(seq) /\ seq \in Instructions \cup Entries
  BY <1>1 DEF Contract!EndStep, InCallback, LengthHeld, CountTypeOK
<1>3. CASE waited[line] = 0
  <2>1. waited'[line] = 1
    BY <1>1, <1>3
  <2> QED
    BY <1>2, <2>1 DEF Held, BetweenSteps, InCallback
<1>4. CASE waited[line] > 0 /\ seq = "JAM_IDLE"
  <2>1. waited'[line] = waited[line]
    BY <1>1, <1>2, <1>4
  <2>2. PolledRequests' = PolledRequests /\ PolledMask' = PolledMask
    BY <1>4 DEF Contract!EndStep, Contract!Poll, Contract!NoPollSequences
  <2>3. waited[line] = 2 => NextIsIts(line)'
    BY <1>4, <2>2 DEF Held, NextIsIts
  <2> QED
    BY <1>2, <2>1, <2>3 DEF Held, BetweenSteps, InCallback
<1>5. CASE waited[line] > 0 /\ seq # "JAM_IDLE"
  <2>1. IsSampled(line)
    BY <1>2, <1>5 DEF Held
  <2>2. seq \in NoPollSequences => cycle = 7
    <3>1. \A s \in NoPollSequences : Lengths(s) = {7}
      BY DEF Lengths, NoPollSequences
    <3> QED
      BY <1>2, <3>1
  <2>3. seq \notin NoPollSequences
    <3>1. line = IRQ_LINE \/ line = NMI_LATCH
      BY DEF Lines
    <3> QED
      BY <2>1, <2>2, <3>1 DEF IsSampled, NoPollSequences
  <2>4. waited[line] = 1 /\ waited'[line] = 2
    <3>1. seq \in Instructions /\ seq # "BRK"
      BY <1>2, <1>5, <2>3 DEF Entries, NoPollSequences
    <3>2. seq \notin {"RESET", "JAM_IDLE"}
      BY <3>1 DEF Instructions
    <3> QED
      BY <1>1, <2>1, <3>1, <3>2 DEF IsSampled
  <2>5. line \in PolledRequests'
    <3>1. PolledRequests' = Contract!Poll /\ Contract!NoPollSequences = NoPollSequences
      BY SameVocabulary DEF Contract!EndStep
    <3>2. CASE seq = "BRANCH" /\ total \in {3, 4}
      BY <1>2, <2>1, <2>3, <3>1, <3>2 DEF Contract!Poll, IsSampled
    <3>3. CASE ~ (seq = "BRANCH" /\ total \in {3, 4})
      BY <1>5, <2>1, <2>3, <3>1, <3>3 DEF Contract!Poll, IsSampled
    <3> QED
      BY <3>2, <3>3
  <2>6. line = IRQ_LINE => PolledMask' = 0
    <3>1. line = IRQ_LINE => pI = 0 /\ PolledMask = 0
      BY <1>5, <2>1 DEF Held, Waiting, IsSampled
    <3> QED
      BY <1>2, <3>1 DEF Contract!EndStep, Waiting
  <2> QED
    BY <1>2, <2>4, <2>5, <2>6 DEF Held, NextIsIts, BetweenSteps, InCallback
<1> QED
  BY <1>2, <1>3, <1>4, <1>5
(* A step that is neither a completed sequence nor a fresh start is one of *)
(* the contract's that change no count.                                    *)
LEMMA HeldOtherwise ==
  ASSUME HonestStates, RefInv, RefInv', CountTypeOK, [Next]_vars,
         ~ StartsAnew, ~ EndStep,
         NEW line \in Lines, Held(line), Keeps(line)
  PROVE  Held(line)'
<1> TypeOK /\ RoutesAreCurrent /\ PollInv /\ LengthHeld
  BY DEF RefInv, LocalInv
<1>1. CASE UNCHANGED vars
  <2>1. UNCHANGED Contract!vars
    BY <1>1 DEF vars, frameVars, stepVars, Contract!vars, Sampled, BetweenSteps,
                PolledRequests, PolledMask, BranchSeen, Halts
  <2> QED
    BY <2>1, HeldBoard
<1>2. ASSUME NEW other \in Lines, HostRequests(other) \/ HostClears(other)
      PROVE  Held(line)'
  BY <1>2, MapRequests, MapClears, HeldBoard
<1>3. ASSUME NEW pending \in BOOLEAN, HostSetsReset(pending) PROVE Held(line)'
  BY <1>3, MapReset, HeldBoard
<1>4. CASE HostStalls
  BY <1>4, MapStall, HeldBoard
<1>5. ASSUME NEW c \in Callables, HostReplacesRead(c) \/ HostReplacesWrite(c)
      PROVE  Held(line)'
  BY <1>5, MapBus, HeldBoard
<1>6. CASE HostRoundTrips
  BY <1>6, MapRoundTrip, HeldBoard
<1>7. CASE HostRaises
  BY <1>7, MapRaise, HeldAbandon
<1>8. CASE BeginStep
  <2>1. PICK s \in Instructions \cup Entries :
          \E n \in Lengths(s) : Contract!BeginStep(s, n)
    BY <1>8, MapBegin
  <2>2. s # "RESET"
    <3>1. seq' = s
      BY <2>1 DEF Contract!BeginStep
    <3>2. seq' # "RESET"
      BY <1>8 DEF BeginStep, StartsAnew, Halted, EnterInterrupt, Execute, FirstAccess,
                  Instructions
    <3> QED
      BY <3>1, <3>2
  <2> QED
    BY <2>1, <2>2, HeldBegin
<1>9. CASE MidStep
  BY <1>9, MapMid, HeldMid
<1> QED
  BY <1>1, <1>2, <1>3, <1>4, <1>5, <1>6, <1>7, <1>8, <1>9
     DEF Next, CPU, Host, StartsAnew

(* What the observer does to one line's count. *)
LEMMA CountsOf ==
  ASSUME CountTypeOK, Counts, NEW line \in Lines
  PROVE  /\ StartsAnew \/ ~ Waiting(line)' => waited'[line] = 0
         /\ ~ StartsAnew /\ Waiting(line)' /\ ~ Completes => waited'[line] = waited[line]
         /\ ~ StartsAnew /\ Waiting(line)' /\ Completes => waited'[line] = waited[line] + 1
BY DEF Counts, CountTypeOK, Enough

(* LatencyInv is inductive beside RefInv. *)
LEMMA LatencyNext ==
  ASSUME HonestStates, RefInv, RefInv', LatencyInv,
         [Next /\ Counts]_<<vars, waited>>
  PROVE  LatencyInv'
<1>1. CASE UNCHANGED <<vars, waited>>
  <2>1. UNCHANGED <<Sampled, PolledRequests, PolledMask, BranchSeen>>
    BY <1>1 DEF vars, frameVars, stepVars, Sampled, BetweenSteps, PolledRequests,
                PolledMask, BranchSeen
  <2> QED
    BY <1>1, <2>1 DEF vars, frameVars, stepVars, LatencyInv, CountTypeOK, Held, Waiting,
                      NextIsIts, IsSampled, BetweenSteps, InCallback
<1>2. CASE Next /\ Counts
  <2> USE <1>2 DEF LatencyInv
  <2>1. ASSUME NEW line \in Lines PROVE Held(line)' /\ waited'[line] \in 0..2
    <3> waited[line] \in 0..2
      BY DEF CountTypeOK
    <3>1. CASE StartsAnew
      BY <3>1, CountsOf, HeldAtZero
    <3>2. CASE ~ StartsAnew /\ EndStep
      <4>1. TypeOK /\ LengthHeld /\ Contract!EndStep
        BY <3>2, MapEnd DEF RefInv, LocalInv
      <4>2. \/ waited'[line] = 0
            \/ /\ Waiting(line)'
               /\ waited'[line] = waited[line]
                    + (IF seq \notin {"RESET", "JAM_IDLE"} THEN 1 ELSE 0)
        BY <3>2, CountsOf DEF Completes
      <4> QED
        BY <4>1, <4>2, HeldEnd
    <3>3. CASE ~ StartsAnew /\ ~ EndStep
      <4>1. Keeps(line)
        BY <3>3, CountsOf DEF Completes, Keeps
      <4>2. Held(line)'
        BY <3>3, <4>1, HeldOtherwise
      <4> QED
        BY <4>1, <4>2 DEF Keeps
    <3> QED
      BY <3>1, <3>2, <3>3
  <2>2. waited' \in [Lines -> 0..2]
    BY <2>1 DEF Counts
  <2> QED
    BY <2>1, <2>2 DEF CountTypeOK
<1> QED
  BY <1>1, <1>2

(* At most two sequences end between a request that I does not mask and    *)
(* the entry it causes, whatever the host does, short of stopping the CPU, *)
(* resetting it or restoring another state, and whatever program runs.     *)
THEOREM InterruptsTakenWithinTwo == HonestStates => (CountedSpec => []TakenWithinTwo)
<1> SUFFICES ASSUME HonestStates PROVE CountedSpec => []TakenWithinTwo
  OBVIOUS
<1> DEFINE Step == [Next /\ Counts]_<<vars, waited>>
<1>1. Init => RefInv
  BY TypeInit, RoutesInit, PollInit, LocalInit DEF RefInv
<1>2. waited = [line \in Lines |-> 0] => LatencyInv
  BY DEF LatencyInv, CountTypeOK, Held
<1>3. RefInv /\ Step => RefInv'
  BY RefNext DEF vars
<1>4. RefInv /\ RefInv' /\ LatencyInv /\ Step => LatencyInv'
  BY LatencyNext
<1>5. LatencyInv => TakenWithinTwo
  BY DEF LatencyInv, CountTypeOK, TakenWithinTwo
<1> QED
  BY <1>1, <1>2, <1>3, <1>4, <1>5, PTL DEF CountedSpec
=============================================================================
