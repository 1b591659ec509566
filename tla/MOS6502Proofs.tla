--------------------------- MODULE MOS6502Proofs ---------------------------
(***************************************************************************)
(* Theorems about MOS6502, for every set of callables, host operations,    *)
(* instruction lengths and host-built states the assumptions allow.        *)
(***************************************************************************)
EXTENDS MOS6502, TLAPS

USE DEF IRQ_LINE, NMI_LATCH, NO_POLL, FLAG_I

(* No sequence is longer than JAM: two reads and the nine JAM_READS. *)
LEMMA LengthsBounded ==
  \A s \in Instructions \cup Entries : Lengths(s) \subseteq 1..11
BY PlainCyclesAssumption
   DEF Lengths, Instructions, Entries, NoPollSequences, JAM_READS

(* An access is a read or a write. *)
LEMMA KindsKnown == \A s, n : Kinds(s, n) \subseteq {"read", "write"}
BY DEF Kinds

(* A route leads to a callable of the host's. *)
LEMMA ReachedCallable ==
  ASSUME FrameTypeOK, NEW kind
  PROVE  Reached(kind) \in Callables
BY DEF FrameTypeOK, Reached, Route, HostCallable

(* _confirm, or an access that needs none, keeps the routes well-typed. *)
LEMMA AccessTypes ==
  ASSUME FrameTypeOK, NEW kind, Access(kind)
  PROVE  /\ deferred' \in {None} \cup SUBSET Lines
         /\ read' \in Callables \cup {Confirming}
         /\ write' \in Callables \cup {Confirming}
BY DEF FrameTypeOK, Access, Confirm

(* A boundary takes one of the four entries, or none. *)
LEMMA StepTakesKnown == StepTakes \in Entries \cup {None}
BY DEF StepTakes, BoundaryInterrupt, Entries

(* A state that is captured is one CPUState admits. *)
LEMMA CaptureTypes == ASSUME FrameTypeOK PROVE CaptureState \in CPUStates
<1>1. \A l \in Lines : Differs(PolledRequests, requests, l) \in BOOLEAN \cup {None}
  BY DEF Differs
<1>2. (IF polledI = None THEN None ELSE polledI # 0) \in BOOLEAN \cup {None}
  OBVIOUS
<1> QED
  BY <1>1, <1>2 DEF FrameTypeOK, CaptureState, CPUStates

(* restore_state leaves a well-typed frame, for any state. *)
LEMMA RestoreTypes ==
  ASSUME FrameTypeOK, NEW s \in CPUStates, RestoreState(s)
  PROVE  FrameTypeOK'
<1>1. RestoredRequests(s) \in SUBSET Lines
  BY DEF RestoredRequests
<1>2. RestoredPolled(s) \in {None} \cup SUBSET Bits
  BY DEF RestoredPolled, RestoredSeen, Bits
<1>3. RestoredI(s) \in {None} \cup IValues
  BY DEF RestoredI, IValues
<1>4. s.halted \in BOOLEAN /\ s.resetPending \in BOOLEAN /\ s.p \in IValues
  BY DEF CPUStates
<1> QED
  BY <1>1, <1>2, <1>3, <1>4 DEF RestoreState, Confirm, FrameTypeOK

-----------------------------------------------------------------------------
(***************************************************************************)
(* Type correctness.                                                       *)
(***************************************************************************)
LEMMA TypeInit == ASSUME Init PROVE TypeOK
<1>1. ASSUME Init PROVE FrameTypeOK
  BY <1>1 DEF Init, FrameInit, FrameTypeOK, IValues
<1> QED
  BY <1>1 DEF Init, TypeOK

(* Every act of the host keeps the types. *)
LEMMA TypeHost == ASSUME TypeOK, Host PROVE TypeOK'
<1> USE DEF TypeOK, FrameTypeOK
<1>1. ASSUME NEW line \in Lines, HostRequests(line) PROVE TypeOK'
  <2>1. requests' \in SUBSET Lines /\ deferred' \in {None} \cup SUBSET Lines
    BY <1>1 DEF HostRequests, RequestInterrupt, Request
  <2>2. polled' \in {None} \cup SUBSET Bits
    BY <1>1 DEF HostRequests, RequestInterrupt, Bits
  <2>3. read' \in Callables \cup {Confirming} /\ write' \in Callables \cup {Confirming}
    BY <1>1 DEF HostRequests, RequestInterrupt, Request
  <2> QED
    BY <1>1, <2>1, <2>2, <2>3 DEF HostRequests, RequestInterrupt, stepVars
<1>2. ASSUME NEW line \in Lines, HostClears(line) PROVE TypeOK'
  <2>1. requests' \in SUBSET Lines /\ deferred' \in {None} \cup SUBSET Lines
    BY <1>2 DEF HostClears, ClearInterrupt, Request
  <2>2. polled' \in {None} \cup SUBSET Bits
    BY <1>2 DEF HostClears, ClearInterrupt
  <2>3. read' \in Callables \cup {Confirming} /\ write' \in Callables \cup {Confirming}
    BY <1>2 DEF HostClears, ClearInterrupt, Request
  <2> QED
    BY <1>2, <2>1, <2>2, <2>3 DEF HostClears, ClearInterrupt, stepVars
<1>3. ASSUME NEW pending \in BOOLEAN, HostSetsReset(pending) PROVE TypeOK'
  BY <1>3 DEF HostSetsReset, SetReset, stepVars
<1>4. ASSUME HostStalls PROVE TypeOK'
  BY <1>4 DEF HostStalls, NoteStall, Confirm, stepVars
<1>5. ASSUME NEW c \in Callables, HostReplacesRead(c) PROVE TypeOK'
  BY <1>5 DEF HostReplacesRead, SetReadByte, stepVars
<1>6. ASSUME NEW c \in Callables, HostReplacesWrite(c) PROVE TypeOK'
  BY <1>6 DEF HostReplacesWrite, SetWriteByte, stepVars
<1>7. ASSUME HostRoundTrips PROVE TypeOK'
  <2>1. FrameTypeOK'
    BY <1>7, CaptureTypes, RestoreTypes DEF HostRoundTrips
  <2> QED
    BY <1>7, <2>1 DEF HostRoundTrips, stepVars
<1>8. ASSUME NEW s \in HostStates, HostRestores(s) PROVE TypeOK'
  <2>1. FrameTypeOK'
    BY <1>8, RestoreTypes, HostStatesAssumption DEF HostRestores
  <2> QED
    BY <1>8, <2>1 DEF HostRestores
<1>9. ASSUME HostRaises PROVE TypeOK'
  BY <1>9 DEF HostRaises, frameVars
<1> QED
  BY <1>1, <1>2, <1>3, <1>4, <1>5, <1>6, <1>7, <1>8, <1>9 DEF Host

(* So does the first access of a step. *)
LEMMA TypeFirstAccess ==
  ASSUME TypeOK, NEW s \in Instructions \cup Entries, NEW n \in Lengths(s),
         FirstAccess(s, n)
  PROVE  /\ seq' \in Instructions \cup Entries \cup {None}
         /\ cycle' \in 0..11 /\ total' \in 0..11 /\ cycle' <= total'
         /\ access' \in {"read", "write", None}
         /\ callee' \in Callables \cup {None}
         /\ early' \in SUBSET Lines
         /\ deferred' \in {None} \cup SUBSET Lines
         /\ read' \in Callables \cup {Confirming}
         /\ write' \in Callables \cup {Confirming}
<1>1. n \in 1..11
  BY LengthsBounded
<1>2. Reached("read") \in Callables
  BY ReachedCallable DEF TypeOK
<1>3. /\ deferred' \in {None} \cup SUBSET Lines
      /\ read' \in Callables \cup {Confirming}
      /\ write' \in Callables \cup {Confirming}
  BY AccessTypes DEF TypeOK, FirstAccess
<1> QED
  BY <1>1, <1>2, <1>3 DEF FirstAccess

(* So does the decision at a boundary. *)
LEMMA TypeBeginStep == ASSUME TypeOK, BeginStep PROVE TypeOK'
<1> USE DEF TypeOK, FrameTypeOK
<1>1. ASSUME AcceptReset PROVE TypeOK'
  <2>1. 7 \in Lengths("RESET") /\ "RESET" \in Entries
    BY DEF Lengths, NoPollSequences, Entries
  <2> QED
    BY <1>1, <2>1, TypeFirstAccess DEF AcceptReset, Vectors
<1>2. ASSUME Halted PROVE TypeOK'
  <2>1. 1 \in Lengths("JAM_IDLE") /\ "JAM_IDLE" \in Entries
    BY DEF Lengths, NoPollSequences, Entries
  <2> QED
    BY <1>2, <2>1, TypeFirstAccess DEF Halted
<1>3. ASSUME NEW kind \in {"NMI", "IRQ"}, EnterInterrupt(kind) PROVE TypeOK'
  <2>1. 7 \in Lengths(kind) /\ kind \in Entries
    BY DEF Lengths, NoPollSequences, Entries
  <2> QED
    BY <1>3, <2>1, TypeFirstAccess DEF EnterInterrupt, Vectors
<1>4. ASSUME NEW s \in Instructions, NEW n \in Lengths(s), Execute(s, n)
      PROVE  TypeOK'
  BY <1>4, TypeFirstAccess DEF Execute, Vectors
<1> QED
  BY <1>1, <1>2, <1>3, <1>4 DEF BeginStep

(* So does a further access. *)
LEMMA TypeNextAccess ==
  ASSUME TypeOK, NEW kind \in {"read", "write"}, NextAccess(kind), cycle < total
  PROVE  /\ seq' \in Instructions \cup Entries \cup {None}
         /\ cycle' \in 0..11 /\ total' \in 0..11 /\ cycle' <= total'
         /\ access' \in {"read", "write", None}
         /\ callee' \in Callables \cup {None}
         /\ deferred' \in {None} \cup SUBSET Lines
         /\ read' \in Callables \cup {Confirming}
         /\ write' \in Callables \cup {Confirming}
<1>1. Reached(kind) \in Callables
  BY ReachedCallable DEF TypeOK
<1>2. /\ deferred' \in {None} \cup SUBSET Lines
      /\ read' \in Callables \cup {Confirming}
      /\ write' \in Callables \cup {Confirming}
  BY AccessTypes DEF TypeOK, NextAccess
<1> QED
  BY <1>1, <1>2 DEF NextAccess, TypeOK

(* So does the code between two accesses of a sequence. *)
LEMMA TypeMidStep == ASSUME TypeOK, MidStep PROVE TypeOK'
<1> USE DEF TypeOK, FrameTypeOK, At
<1> PICK kind \in {"read", "write"} :
      \/ Proceed(kind)
      \/ TakeNMI(kind) \/ ChooseVector(kind) \/ SetI(kind)
      \/ PollOldI(kind) \/ PullP(kind)
      \/ BranchOperand(kind) \/ BranchTaken(kind) \/ BranchCrosses(kind)
  BY KindsKnown DEF MidStep
<1>1. CASE Proceed(kind)
  BY <1>1, TypeNextAccess DEF Proceed, Quiet
<1>2. CASE TakeNMI(kind)
  BY <1>2, TypeNextAccess DEF TakeNMI, ClearsNMILatch
<1>3. CASE ChooseVector(kind)
  BY <1>3, TypeNextAccess DEF ChooseVector, ChoosesVector, Vectors
<1>4. CASE SetI(kind)
  BY <1>4, TypeNextAccess DEF SetI, SetsI, IValues
<1>5. CASE PollOldI(kind)
  BY <1>5, TypeNextAccess DEF PollOldI, PollsI
<1>6. CASE PullP(kind)
  BY <1>6, TypeNextAccess DEF PullP, PullsP
<1>7. CASE BranchOperand(kind)
  BY <1>7, TypeNextAccess DEF BranchOperand
<1>8. CASE BranchTaken(kind)
  BY <1>8, TypeNextAccess DEF BranchTaken, AfterOperand
<1>9. CASE BranchCrosses(kind)
  BY <1>9, TypeNextAccess DEF BranchCrosses, AfterNextOpcode
<1> QED
  BY <1>1, <1>2, <1>3, <1>4, <1>5, <1>6, <1>7, <1>8, <1>9

(* So does the end of step(). *)
LEMMA TypeEndStep == ASSUME TypeOK, EndStep PROVE TypeOK'
<1> USE DEF TypeOK, FrameTypeOK, Retire, StepReturns, Bits
<1>1. CASE EndInstruction
  BY <1>1 DEF EndInstruction
<1>2. CASE EndCLI
  BY <1>2 DEF EndCLI, IValues
<1>3. CASE EndSEI
  BY <1>3 DEF EndSEI, IValues
<1>4. CASE EndPLP
  BY <1>4 DEF EndPLP
<1>5. CASE EndJAM
  BY <1>5 DEF EndJAM
<1>6. CASE EndBRK
  BY <1>6 DEF EndBRK
<1>7. CASE EndBranchNotTaken
  BY <1>7 DEF EndBranchNotTaken
<1>8. CASE EndBranchSamePage
  BY <1>8 DEF EndBranchSamePage, AfterNextOpcode
<1>9. CASE EndBranchAcrossPage
  BY <1>9 DEF EndBranchAcrossPage
<1>10. CASE EndEntry
  BY <1>10 DEF EndEntry
<1>11. CASE EndHalted
  BY <1>11 DEF EndHalted
<1> QED
  BY <1>1, <1>2, <1>3, <1>4, <1>5, <1>6, <1>7, <1>8, <1>9, <1>10, <1>11 DEF EndStep

(* So does every step of the specification. *)
LEMMA TypeNext == ASSUME TypeOK, [Next]_vars PROVE TypeOK'
<1>1. ASSUME UNCHANGED vars PROVE TypeOK'
  BY <1>1 DEF vars, frameVars, stepVars, TypeOK, FrameTypeOK
<1> QED
  BY <1>1, TypeHost, TypeBeginStep, TypeMidStep, TypeEndStep DEF Next, CPU

(* TypeOK is an invariant: the frame's fields keep the shapes frame.py      *)
(* gives them, and a step never runs past the accesses of its sequence.    *)
THEOREM TypeCorrect == Spec => []TypeOK
BY TypeInit, TypeNext, PTL DEF Spec

-----------------------------------------------------------------------------
(***************************************************************************)
(* The routes of the bus.                                                  *)
(***************************************************************************)
LEMMA RoutesAccess ==
  ASSUME RoutesAreCurrent, NEW kind \in {"read", "write"}, Access(kind),
         UNCHANGED <<readByte, writeByte>>
  PROVE  RoutesAreCurrent' /\ deferred' = None
BY DEF RoutesAreCurrent, Access, Route, Confirm

(* Every step keeps the routes current: setters, requests, confirmations. *)
LEMMA RoutesNext ==
  ASSUME TypeOK, RoutesAreCurrent, [Next]_vars PROVE RoutesAreCurrent'
<1> USE DEF RoutesAreCurrent
<1>1. CASE UNCHANGED vars
  BY <1>1 DEF vars, frameVars
<1>2. CASE Host
  <2>1. ASSUME NEW line \in Lines, HostRequests(line) \/ HostClears(line)
        PROVE  RoutesAreCurrent'
    BY <2>1 DEF HostRequests, HostClears, RequestInterrupt, ClearInterrupt, Request
  <2>2. ASSUME NEW pending \in BOOLEAN, HostSetsReset(pending) PROVE RoutesAreCurrent'
    BY <2>2 DEF HostSetsReset, SetReset
  <2>3. CASE HostStalls
    BY <2>3 DEF HostStalls, NoteStall, Confirm
  <2>4. ASSUME NEW c \in Callables, HostReplacesRead(c) PROVE RoutesAreCurrent'
    BY <2>4 DEF HostReplacesRead, SetReadByte
  <2>5. ASSUME NEW c \in Callables, HostReplacesWrite(c) PROVE RoutesAreCurrent'
    BY <2>5 DEF HostReplacesWrite, SetWriteByte
  <2>6. CASE HostRoundTrips
    BY <2>6 DEF HostRoundTrips, RestoreState, Confirm
  <2>7. ASSUME NEW s \in HostStates, HostRestores(s) PROVE RoutesAreCurrent'
    BY <2>7 DEF HostRestores, RestoreState, Confirm
  <2>8. CASE HostRaises
    BY <2>8 DEF HostRaises, frameVars
  <2> QED
    BY <1>2, <2>1, <2>2, <2>3, <2>4, <2>5, <2>6, <2>7, <2>8 DEF Host
<1>3. CASE BeginStep
  BY <1>3, RoutesAccess
     DEF BeginStep, AcceptReset, Halted, EnterInterrupt, Execute, FirstAccess
<1>4. CASE MidStep
  BY <1>4, RoutesAccess, KindsKnown
     DEF MidStep, NextAccess, Proceed, TakeNMI, ChooseVector, SetI, PollOldI,
         PullP, BranchOperand, BranchTaken, BranchCrosses
<1>5. CASE EndStep
  BY <1>5 DEF EndStep, EndInstruction, EndCLI, EndSEI, EndPLP, EndJAM, EndBRK,
              EndBranchNotTaken, EndBranchSamePage, EndBranchAcrossPage,
              EndEntry, EndHalted, Retire, StepReturns
<1> QED
  BY <1>1, <1>2, <1>3, <1>4, <1>5 DEF Next, CPU

(* A new frame calls the host directly. *)
LEMMA RoutesInit == ASSUME Init PROVE RoutesAreCurrent
BY DEF Init, FrameInit, RoutesAreCurrent

(* Whenever the host replaces its callables, requests or stalls, both      *)
(* routes of the bus lead to the callables it assigned last, and while a   *)
(* change of the requests is unconfirmed both lead there by way of         *)
(* _confirm.                                                               *)
THEOREM RoutesStayCurrent == Spec => []RoutesAreCurrent
<1>1. Init => TypeOK /\ RoutesAreCurrent
  BY TypeInit, RoutesInit
<1>2. TypeOK /\ RoutesAreCurrent /\ [Next]_vars => (TypeOK /\ RoutesAreCurrent)'
  BY TypeNext, RoutesNext
<1> QED
  BY <1>1, <1>2, PTL DEF Spec

(* A current route ends in the callable the host assigned last. *)
LEMMA AccessReaches ==
  ASSUME RoutesAreCurrent, NEW kind \in {"read", "write"}
  PROVE  Reached(kind) = HostCallable(kind)
BY DEF RoutesAreCurrent, Reached, Route, HostCallable

(* Each step that makes an access reaches that callable. *)
LEMMA ReachesStep ==
  ASSUME TypeOK, RoutesAreCurrent, [Next]_vars
  PROVE  cycle' > cycle => callee' = HostCallable(access')
<1>1. CASE UNCHANGED vars
  BY <1>1 DEF vars, stepVars, TypeOK
<1>2. CASE Host
  <2>1. cycle' = cycle \/ cycle' = 0
    BY <1>2 DEF Host, HostRequests, HostClears, HostSetsReset, HostStalls,
                HostReplacesRead, HostReplacesWrite, HostRoundTrips,
                HostRestores, HostRaises, stepVars
  <2> QED
    BY <2>1 DEF TypeOK
<1>3. CASE BeginStep
  BY <1>3, AccessReaches
     DEF BeginStep, AcceptReset, Halted, EnterInterrupt, Execute, FirstAccess
<1>4. CASE MidStep
  BY <1>4, AccessReaches, KindsKnown
     DEF MidStep, NextAccess, Proceed, TakeNMI, ChooseVector, SetI, PollOldI,
         PullP, BranchOperand, BranchTaken, BranchCrosses
<1>5. CASE EndStep
  <2>1. cycle' = 0
    BY <1>5 DEF EndStep, EndInstruction, EndCLI, EndSEI, EndPLP, EndJAM, EndBRK,
                EndBranchNotTaken, EndBranchSamePage, EndBranchAcrossPage,
                EndEntry, EndHalted, Retire, StepReturns
  <2> QED
    BY <2>1 DEF TypeOK
<1> QED
  BY <1>1, <1>2, <1>3, <1>4, <1>5 DEF Next, CPU

(* So every access of every step is served by the callable the host        *)
(* assigned last.                                                          *)
THEOREM AccessesReachTheHost == Spec => ReachesHostsCallable
<1>1. Init => TypeOK /\ RoutesAreCurrent
  BY TypeInit, RoutesInit
<1>2. TypeOK /\ RoutesAreCurrent /\ [Next]_vars => (TypeOK /\ RoutesAreCurrent)'
  BY TypeNext, RoutesNext
<1>3. TypeOK /\ RoutesAreCurrent /\ [Next]_vars
        => [cycle' > cycle => callee' = HostCallable(access')]_vars
  BY ReachesStep
<1> QED
  BY <1>1, <1>2, <1>3, PTL DEF Spec, ReachesHostsCallable

-----------------------------------------------------------------------------
(***************************************************************************)
(* The poll.  PollInv is inductive beside TypeOK; the host-built states    *)
(* have to be honest about a skipped poll.                                 *)
(***************************************************************************)
LEMMA PollInit == ASSUME Init PROVE PollInv
BY NoneAssumption
   DEF Init, FrameInit, PollInv, PollUsedOnce, SkippedPollSawNothing,
       SkippedPollIsHeld, InCallback, NoPollSequences, Instructions, Entries

(* Capturing and restoring at once keeps the requests and the poll.        *)
LEMMA RoundTripPoll ==
  ASSUME TypeOK, SkippedPollSawNothing
  PROVE  /\ RestoredRequests(CaptureState) = requests
         /\ RestoredSeen(CaptureState) = PolledRequests
         /\ RestoredI(CaptureState) = polledI
<1> DEFINE s == CaptureState
<1>1. /\ s.pending = [l \in Lines |-> l \in requests]
      /\ s.polled = [l \in Lines |-> Differs(PolledRequests, requests, l)]
      /\ s.skippedPoll = (NO_POLL \in PolledRequests)
      /\ s.polledI = IF polledI = None THEN None ELSE polledI # 0
  BY DEF CaptureState
<1>2. requests \subseteq Lines /\ PolledRequests \subseteq Bits
  BY DEF TypeOK, FrameTypeOK, PolledRequests, Bits
<1>3. RestoredRequests(s) = requests
  BY <1>1, <1>2 DEF RestoredRequests
<1>4. \A l \in Lines :
        (IF s.polled[l] = None THEN s.pending[l] ELSE s.polled[l])
          = (l \in PolledRequests)
  <2> SUFFICES ASSUME NEW l \in Lines
               PROVE  (IF s.polled[l] = None THEN s.pending[l] ELSE s.polled[l])
                        = (l \in PolledRequests)
    OBVIOUS
  <2>1. s.polled[l] = Differs(PolledRequests, requests, l) /\ s.pending[l] = (l \in requests)
    BY <1>1
  <2>2. CASE (l \in PolledRequests) = (l \in requests)
    BY <2>1, <2>2 DEF Differs
  <2>3. CASE (l \in PolledRequests) # (l \in requests)
    <3>1. s.polled[l] = (l \in PolledRequests)
      BY <2>1, <2>3 DEF Differs
    <3>2. s.polled[l] # None
      <4>1. None # TRUE /\ None # FALSE
        BY NoneAssumption
      <4>2. CASE l \in PolledRequests
        BY <3>1, <4>1, <4>2
      <4>3. CASE l \notin PolledRequests
        <5>1. (l \in PolledRequests) = FALSE
          BY <4>3
        <5>2. s.polled[l] = FALSE
          BY <3>1, <5>1
        <5> QED
          BY <4>1, <5>2
      <4> QED
        BY <4>2, <4>3
    <3> QED
      BY <3>1, <3>2
  <2> QED
    BY <2>2, <2>3
<1>5. RestoredSeen(s) = {l \in Lines : l \in PolledRequests}
                          \cup (IF NO_POLL \in PolledRequests THEN {NO_POLL} ELSE {})
  BY <1>1, <1>4 DEF RestoredSeen
<1>6. RestoredSeen(s) = PolledRequests
  BY <1>2, <1>5 DEF Bits
<1>7. RestoredI(s) = polledI
  BY <1>1, NoneAssumption DEF RestoredI, TypeOK, FrameTypeOK, IValues
<1> QED
  BY <1>3, <1>6, <1>7

(* The host cannot break the poll: _NO_POLL guards it from requests. *)
LEMMA PollHost ==
  ASSUME HonestStates, TypeOK, PollInv, Host PROVE PollInv'
<1> USE DEF PollInv, PollUsedOnce, SkippedPollSawNothing, SkippedPollIsHeld,
            InCallback, BetweenSteps
<1>1. ASSUME NEW line \in Lines, HostRequests(line) PROVE PollInv'
  BY <1>1 DEF HostRequests, RequestInterrupt, stepVars, Lines
<1>2. ASSUME NEW line \in Lines, HostClears(line) PROVE PollInv'
  <2>1. polled = {NO_POLL} => polled \ {line} = {NO_POLL}
    BY DEF Lines
  <2>2. polled' # None => polled # None /\ polled' = polled \ {line}
    BY <1>2 DEF HostClears, ClearInterrupt
  <2> QED
    BY <1>2, <2>1, <2>2, NoneAssumption DEF HostClears, ClearInterrupt, stepVars, Bits
<1>3. ASSUME NEW pending \in BOOLEAN, HostSetsReset(pending) PROVE PollInv'
  BY <1>3 DEF HostSetsReset, SetReset, stepVars
<1>4. CASE HostStalls
  BY <1>4 DEF HostStalls, NoteStall, stepVars
<1>5. ASSUME NEW c \in Callables, HostReplacesRead(c) \/ HostReplacesWrite(c)
      PROVE  PollInv'
  BY <1>5 DEF HostReplacesRead, SetReadByte, HostReplacesWrite, SetWriteByte, stepVars
<1>6. CASE HostRoundTrips
  <2>1. polled' = IF PolledRequests = requests THEN None ELSE PolledRequests
    BY <1>6, RoundTripPoll DEF HostRoundTrips, RestoreState, RestoredPolled
  <2>2. halted' = halted /\ UNCHANGED stepVars
    BY <1>6 DEF HostRoundTrips, RestoreState, CaptureState
  <2>3. requests # {NO_POLL}
    BY DEF TypeOK, FrameTypeOK, Lines
  <2>4. cycle = 0
    BY <1>6 DEF HostRoundTrips
  <2> QED
    BY <2>1, <2>2, <2>3, <2>4, NoneAssumption
       DEF PolledRequests, stepVars, TypeOK, FrameTypeOK, Lines, Bits
<1>7. ASSUME NEW s \in HostStates, HostRestores(s) PROVE PollInv'
  <2>1. polled' = RestoredPolled(s) /\ seq' = None /\ cycle' = 0
    BY <1>7 DEF HostRestores, RestoreState
  <2>2. NO_POLL \in RestoredSeen(s) => RestoredSeen(s) = {NO_POLL}
    BY DEF HonestStates, RestoredSeen, Lines
  <2>3. None \notin NoPollSequences
    BY NoneAssumption DEF NoPollSequences, Instructions, Entries
  <2> QED
    BY <2>1, <2>2, <2>3 DEF RestoredPolled
<1>8. CASE HostRaises
  <2>1. None \notin NoPollSequences
    BY NoneAssumption DEF NoPollSequences, Instructions, Entries
  <2> QED
    BY <1>8, <2>1 DEF HostRaises, frameVars
<1> QED
  BY <1>1, <1>2, <1>3, <1>4, <1>5, <1>6, <1>7, <1>8 DEF Host

(* The CPU's own steps use a poll once and hold a skipped one. *)
LEMMA PollCPU == ASSUME TypeOK, PollInv, CPU PROVE PollInv'
<1> USE DEF PollInv, PollUsedOnce, SkippedPollSawNothing, SkippedPollIsHeld,
            InCallback, BetweenSteps, NoPollSequences
<1>1. CASE AcceptReset
  BY <1>1 DEF AcceptReset, FirstAccess
<1>2. CASE Halted
  BY <1>2 DEF Halted, FirstAccess
<1>3. ASSUME NEW kind \in {"NMI", "IRQ"}, EnterInterrupt(kind) PROVE PollInv'
  <2>1. ~ halted
    BY <1>3, NoneAssumption DEF EnterInterrupt, StepTakes
  <2> QED
    BY <1>3, <2>1 DEF EnterInterrupt, FirstAccess
<1>4. ASSUME NEW s \in Instructions, NEW n \in Lengths(s), Execute(s, n)
      PROVE  PollInv'
  <2>1. ~ halted
    BY <1>4, NoneAssumption DEF Execute, StepTakes, Entries
  <2>2. polled' = None
    BY <1>4 DEF Execute, Consulted
  <2> QED
    BY <1>4, <2>1, <2>2 DEF Execute, FirstAccess
<1>5. CASE MidStep
  <2>1. polled' = polled /\ halted' = halted /\ seq' = seq /\ cycle > 0 /\ cycle' > 0
    BY <1>5 DEF MidStep, NextAccess, Proceed, TakeNMI, ChooseVector, SetI,
                PollOldI, PullP, BranchOperand, BranchTaken, BranchCrosses,
                Quiet, ClearsNMILatch, ChoosesVector, SetsI, PollsI, PullsP, At, TypeOK
  <2> QED
    BY <2>1
<1>6. CASE EndStep
  <2>1. cycle > 0 /\ cycle' = 0 /\ seq' = seq
    BY <1>6 DEF EndStep, EndInstruction, EndCLI, EndSEI, EndPLP, EndJAM, EndBRK,
                EndBranchNotTaken, EndBranchSamePage, EndBranchAcrossPage,
                EndEntry, EndHalted, Retire, StepReturns, LastCallback
  <2>2. CASE EndBRK \/ EndEntry
    BY <1>6, <2>1, <2>2 DEF EndBRK, EndEntry, Retire, LastCallback
  <2>3. CASE EndHalted
    BY <2>1, <2>3 DEF EndHalted, LastCallback
  <2>4. CASE \/ EndInstruction \/ EndCLI \/ EndSEI \/ EndPLP \/ EndJAM
             \/ EndBranchNotTaken \/ EndBranchSamePage \/ EndBranchAcrossPage
    <3>1. seq \in {"PLAIN", "RTI", "CLI", "SEI", "PLP", "JAM", "BRANCH"}
      BY <2>4 DEF EndInstruction, EndCLI, EndSEI, EndPLP, EndJAM,
                  EndBranchNotTaken, EndBranchSamePage, EndBranchAcrossPage,
                  LastCallback
    <3>2. polled = None
      BY <2>1, <3>1
    <3>3. polled' \in {None} \cup SUBSET Lines
      BY <2>4, <3>2 DEF EndInstruction, EndCLI, EndSEI, EndPLP, EndJAM,
                  EndBranchNotTaken, EndBranchSamePage, EndBranchAcrossPage,
                  Retire, AfterNextOpcode, TypeOK, FrameTypeOK
    <3> QED
      BY <2>1, <3>1, <3>3 DEF Lines
  <2> QED
    BY <1>6, <2>2, <2>3, <2>4 DEF EndStep
<1> QED
  BY <1>1, <1>2, <1>3, <1>4, <1>5, <1>6 DEF CPU, BeginStep

(* Together: every step keeps PollInv, for honest host-built states. *)
LEMMA PollNext ==
  ASSUME HonestStates, TypeOK, PollInv, [Next]_vars PROVE PollInv'
<1>1. ASSUME UNCHANGED vars PROVE PollInv'
  BY <1>1 DEF vars, frameVars, stepVars, PollInv, PollUsedOnce,
              SkippedPollSawNothing, SkippedPollIsHeld, InCallback, BetweenSteps
<1> QED
  BY <1>1, PollHost, PollCPU DEF Next

(* No poll outlives its boundary, and one that was skipped stays empty and *)
(* stays until the boundary, whatever the host does.                       *)
THEOREM PollInvariant == HonestStates => (Spec => []PollInv)
<1> SUFFICES ASSUME HonestStates PROVE Spec => []PollInv
  OBVIOUS
<1>1. Init => TypeOK /\ PollInv
  BY TypeInit, PollInit
<1>2. TypeOK /\ PollInv /\ [Next]_vars => (TypeOK /\ PollInv)'
  BY TypeNext, PollNext
<1> QED
  BY <1>1, <1>2, PTL DEF Spec

(* The snapshot holds enough: what it says a line's poll saw is what the   *)
(* live poll saw.                                                          *)
LEMMA CaptureSees ==
  ASSUME TypeOK, NEW l \in Lines
  PROVE  (IF CaptureState.polled[l] = None
          THEN CaptureState.pending[l] ELSE CaptureState.polled[l])
           <=> (l \in PolledRequests)
<1>1. /\ CaptureState.polled[l] = Differs(PolledRequests, requests, l)
      /\ CaptureState.pending[l] = (l \in requests)
  BY DEF CaptureState
<1>2. CASE (l \in PolledRequests) = (l \in requests)
  BY <1>1, <1>2 DEF Differs
<1>3. CASE (l \in PolledRequests) # (l \in requests)
  <2>1. CaptureState.polled[l] = (l \in PolledRequests)
    BY <1>1, <1>3 DEF Differs
  <2>2. None # TRUE /\ None # FALSE
    BY NoneAssumption
  <2>3. CASE l \in PolledRequests
    BY <2>1, <2>2, <2>3
  <2>4. CASE l \notin PolledRequests
    <3>1. (l \in PolledRequests) = FALSE
      BY <2>4
    <3>2. CaptureState.polled[l] = FALSE
      BY <2>1, <3>1
    <3> QED
      BY <2>2, <2>4, <3>2
  <2> QED
    BY <2>3, <2>4
<1> QED
  BY <1>2, <1>3

(* A captured state has the I bit the boundary will use. *)
LEMMA CaptureMasks ==
  ASSUME TypeOK
  PROVE  (IF CaptureState.polledI = None THEN CaptureState.p # 0
          ELSE CaptureState.polledI) <=> PolledMask # 0
<1>1. /\ CaptureState.polledI = IF polledI = None THEN None ELSE polledI # 0
      /\ CaptureState.p = pI
  BY DEF CaptureState
<1>2. None # TRUE /\ None # FALSE
  BY NoneAssumption
<1>3. CASE polledI = None
  BY <1>1, <1>3 DEF PolledMask
<1>4. CASE polledI # None /\ polledI # 0
  <2>1. CaptureState.polledI = TRUE
    BY <1>1, <1>4
  <2> QED
    BY <1>2, <1>4, <2>1 DEF PolledMask
<1>5. CASE polledI # None /\ polledI = 0
  <2>1. CaptureState.polledI = FALSE
    BY <1>1, <1>5
  <2> QED
    BY <1>2, <1>5, <2>1 DEF PolledMask
<1> QED
  BY <1>3, <1>4, <1>5

(* next_boundary of a captured state is what step() takes. *)
LEMMA Predicts == ASSUME TypeOK, PollInv PROVE PredictsBoundary
<1> DEFINE Sees(l) == IF CaptureState.polled[l] = None
                      THEN CaptureState.pending[l] ELSE CaptureState.polled[l]
           masked == IF CaptureState.polledI = None THEN CaptureState.p # 0
                     ELSE CaptureState.polledI
<1>1. /\ Sees(NMI_LATCH) <=> NMI_LATCH \in PolledRequests
      /\ Sees(IRQ_LINE) <=> IRQ_LINE \in PolledRequests
  BY CaptureSees DEF Lines
<1>2. masked <=> PolledMask # 0
  BY CaptureMasks
<1>3. /\ CaptureState.resetPending = resetPending
      /\ CaptureState.halted = halted
      /\ CaptureState.skippedPoll = (NO_POLL \in PolledRequests)
  BY DEF CaptureState
<1>4. NO_POLL \in PolledRequests
        => NMI_LATCH \notin PolledRequests /\ IRQ_LINE \notin PolledRequests
  BY DEF PollInv, SkippedPollSawNothing, PolledRequests, TypeOK, FrameTypeOK, Lines
<1>5. ~ Consulted => NMI_LATCH \notin PolledRequests /\ IRQ_LINE \notin PolledRequests
  BY DEF Consulted, PolledRequests
<1> HIDE DEF Sees, masked
<1>6. NextBoundary(CaptureState) =
        IF CaptureState.resetPending THEN "RESET"
        ELSE IF CaptureState.halted THEN "JAM_IDLE"
        ELSE IF CaptureState.skippedPoll THEN None
        ELSE IF Sees(NMI_LATCH) THEN "NMI"
        ELSE IF Sees(IRQ_LINE) /\ ~ masked THEN "IRQ"
        ELSE None
  BY DEF NextBoundary, Sees, masked
<1>7. NextBoundary(CaptureState) = StepTakes
  BY <1>1, <1>2, <1>3, <1>4, <1>5, <1>6 DEF StepTakes, BoundaryInterrupt
<1> QED
  BY <1>7 DEF PredictsBoundary

(* next_boundary, given nothing but a snapshot, foretells every decision   *)
(* of step(): the five poll fields are all of the hidden state there is.   *)
THEOREM NextBoundaryIsExact == HonestStates => (Spec => []PredictsBoundary)
<1> SUFFICES ASSUME HonestStates PROVE Spec => []PredictsBoundary
  OBVIOUS
<1>1. Init => TypeOK /\ PollInv
  BY TypeInit, PollInit
<1>2. TypeOK /\ PollInv /\ [Next]_vars => (TypeOK /\ PollInv)'
  BY TypeNext, PollNext
<1>3. TypeOK /\ PollInv => PredictsBoundary
  BY Predicts
<1> QED
  BY <1>1, <1>2, <1>3, PTL DEF Spec

(* A step() begun after an unpolled sequence takes no interrupt. *)
LEMMA OneInstructionStep ==
  ASSUME TypeOK, PollInv, [Next]_vars, BetweenSteps, InCallback',
         seq \in NoPollSequences
  PROVE  seq' \in Instructions \cup {"RESET"}
<1> USE DEF BetweenSteps, InCallback
<1>1. polled = {NO_POLL} /\ ~ halted
  BY DEF PollInv, SkippedPollIsHeld
<1>2. StepTakes \in {"RESET", None}
  BY <1>1, NoneAssumption DEF StepTakes, BoundaryInterrupt, PolledRequests, Bits
<1>3. cycle' # cycle
  BY DEF TypeOK
<1>4. ~ Host /\ ~ MidStep /\ ~ EndStep /\ ~ UNCHANGED vars
  BY <1>3 DEF Host, HostRequests, HostClears, HostSetsReset, HostStalls,
              HostReplacesRead, HostReplacesWrite, HostRoundTrips, HostRestores,
              HostRaises, stepVars, vars, MidStep, Proceed, TakeNMI, ChooseVector, SetI,
              PollOldI, PullP, BranchOperand, BranchTaken, BranchCrosses, Quiet,
              ClearsNMILatch, ChoosesVector, SetsI, PollsI, PullsP, At, EndStep,
              EndInstruction, EndCLI, EndSEI, EndPLP, EndJAM, EndBRK,
              EndBranchNotTaken, EndBranchSamePage, EndBranchAcrossPage,
              EndEntry, EndHalted, LastCallback
<1>5. BeginStep
  BY <1>4 DEF Next, CPU
<1>6. CASE AcceptReset
  BY <1>6 DEF AcceptReset, FirstAccess
<1>7. CASE Halted
  BY <1>2, <1>7, NoneAssumption DEF Halted, Entries
<1>8. ASSUME NEW kind \in {"NMI", "IRQ"}, EnterInterrupt(kind) PROVE FALSE
  BY <1>2, <1>8, NoneAssumption DEF EnterInterrupt, Entries
<1>9. ASSUME NEW s \in Instructions, NEW n \in Lengths(s), Execute(s, n)
      PROVE  seq' \in Instructions
  BY <1>9 DEF Execute, FirstAccess
<1> QED
  BY <1>5, <1>6, <1>7, <1>8, <1>9 DEF BeginStep

(* The handler's first instruction always runs: after BRK, an entry or     *)
(* reset no interrupt is taken by the next step, whatever was requested.   *)
THEOREM HandlerRunsFirst == HonestStates => (Spec => OneInstructionFirst)
<1> SUFFICES ASSUME HonestStates PROVE Spec => OneInstructionFirst
  OBVIOUS
<1>1. Init => TypeOK /\ PollInv
  BY TypeInit, PollInit
<1>2. TypeOK /\ PollInv /\ [Next]_vars => (TypeOK /\ PollInv)'
  BY TypeNext, PollNext
<1>3. TypeOK /\ PollInv /\ [Next]_vars
        => [(BetweenSteps /\ InCallback' /\ seq \in NoPollSequences)
              => seq' \in Instructions \cup {"RESET"}]_vars
  BY OneInstructionStep
<1> QED
  BY <1>1, <1>2, <1>3, PTL DEF Spec, OneInstructionFirst

(* A capture restored at once gives back the requests and the poll. *)
LEMMA RoundTripFrame ==
  ASSUME TypeOK, PollInv, HostRoundTrips
  PROVE  /\ requests' = requests /\ polledI' = polledI /\ pI' = pI
         /\ halted' = halted /\ resetPending' = resetPending
         /\ PolledRequests' = PolledRequests /\ PolledMask' = PolledMask
<1>1. /\ requests' = requests /\ polledI' = polledI
      /\ polled' = IF PolledRequests = requests THEN None ELSE PolledRequests
  BY RoundTripPoll DEF PollInv, HostRoundTrips, RestoreState, RestoredPolled
<1>2. pI' = pI /\ halted' = halted /\ resetPending' = resetPending
  BY DEF HostRoundTrips, RestoreState, CaptureState
<1>3. PolledRequests # None
  BY NoneAssumption DEF PolledRequests, TypeOK, FrameTypeOK, Bits
<1>4. PolledRequests' = PolledRequests
  BY <1>1, <1>3 DEF PolledRequests
<1> QED
  BY <1>1, <1>2, <1>4 DEF PolledMask

(* So both the next capture and the next boundary are as before. *)
LEMMA RoundTripStep ==
  ASSUME TypeOK, PollInv, HostRoundTrips
  PROVE  CaptureState' = CaptureState /\ StepTakes' = StepTakes
<1>1. CaptureState' = CaptureState
  BY RoundTripFrame DEF CaptureState
<1>2. \A q : NMI_LATCH \in q \/ IRQ_LINE \in q => q # {}
  OBVIOUS
<1>3. (NMI_LATCH \in PolledRequests \/ IRQ_LINE \in PolledRequests) => Consulted
  BY <1>2 DEF Consulted, PolledRequests
<1>4. (NMI_LATCH \in PolledRequests \/ IRQ_LINE \in PolledRequests)' => Consulted'
  BY <1>2 DEF Consulted, PolledRequests
<1>5. BoundaryInterrupt' = BoundaryInterrupt
  BY RoundTripFrame DEF BoundaryInterrupt
<1>6. /\ StepTakes = IF resetPending THEN "RESET" ELSE IF halted THEN "JAM_IDLE"
                     ELSE BoundaryInterrupt
      /\ StepTakes' = IF resetPending' THEN "RESET" ELSE IF halted' THEN "JAM_IDLE"
                      ELSE BoundaryInterrupt'
  BY <1>3, <1>4 DEF StepTakes, BoundaryInterrupt
<1> QED
  BY <1>1, <1>5, <1>6, RoundTripFrame

(* Restoring a capture at once changes neither the next capture nor the    *)
(* next decision, in any reachable state between two steps.                *)
THEOREM RoundTripsAreExact == HonestStates => (Spec => RoundTripIsExact)
<1> SUFFICES ASSUME HonestStates PROVE Spec => RoundTripIsExact
  OBVIOUS
<1>1. Init => TypeOK /\ PollInv
  BY TypeInit, PollInit
<1>2. TypeOK /\ PollInv /\ [Next]_vars => (TypeOK /\ PollInv)'
  BY TypeNext, PollNext
<1>3. TypeOK /\ PollInv /\ [Next]_vars
        => [HostRoundTrips => CaptureState' = CaptureState /\ StepTakes' = StepTakes]_vars
  BY RoundTripStep
<1> QED
  BY <1>1, <1>2, <1>3, PTL DEF Spec, RoundTripIsExact

(* What restore_state makes of the poll fields of an honest state. *)
LEMMA RestoredPoll ==
  ASSUME TypeOK, NEW s \in CPUStates, RestoreState(s)
  PROVE  /\ PolledRequests' = RestoredSeen(s)
         /\ PolledMask' = IF s.polledI = None THEN s.p ELSE IF s.polledI THEN FLAG_I ELSE 0
<1>1. RestoredSeen(s) # None
  <2>1. RestoredSeen(s) \in SUBSET Bits
    BY DEF RestoredSeen, Bits
  <2> QED
    BY <2>1, NoneAssumption
<1>2. PolledRequests' = RestoredSeen(s)
  BY <1>1 DEF RestoreState, RestoredPolled, PolledRequests
<1>3. s.polledI # None => RestoredI(s) # None
  BY NoneAssumption DEF RestoredI, IValues
<1>4. polledI' = RestoredI(s) /\ pI' = s.p
  BY DEF RestoreState
<1> QED
  BY <1>2, <1>3, <1>4 DEF PolledMask, RestoredI

(* So the step after it takes what next_boundary says of that state. *)
LEMMA RestoreDecides ==
  ASSUME HonestStates, TypeOK, NEW s \in HostStates, HostRestores(s)
  PROVE  StepTakes' = NextBoundary(s)
<1> DEFINE Sees(l) == IF s.polled[l] = None THEN s.pending[l] ELSE s.polled[l]
           masked  == IF s.polledI = None THEN s.p # 0 ELSE s.polledI
<1>1. s \in CPUStates /\ RestoreState(s)
  BY HostStatesAssumption DEF HostRestores
<1>2. /\ NMI_LATCH \in PolledRequests' <=> Sees(NMI_LATCH)
      /\ IRQ_LINE \in PolledRequests' <=> Sees(IRQ_LINE)
      /\ s.skippedPoll => NMI_LATCH \notin PolledRequests' /\ IRQ_LINE \notin PolledRequests'
  BY <1>1, RestoredPoll DEF RestoredSeen, Lines, HonestStates
<1>3. PolledMask' = 0 <=> ~ masked
  <2>1. s.polledI \in BOOLEAN \cup {None} /\ s.p \in IValues
    BY <1>1 DEF CPUStates
  <2> QED
    BY <1>1, <2>1, RestoredPoll DEF IValues
<1>4. (NMI_LATCH \in PolledRequests' \/ IRQ_LINE \in PolledRequests') => Consulted'
  <2>1. ~ Consulted' => requests' = {} /\ polled' = None
    BY DEF Consulted
  <2> QED
    BY <2>1 DEF PolledRequests
<1>5. resetPending' = s.resetPending /\ halted' = s.halted
  BY <1>1 DEF RestoreState
<1> HIDE DEF Sees, masked
<1>6. NextBoundary(s) = IF s.resetPending THEN "RESET"
                        ELSE IF s.halted THEN "JAM_IDLE"
                        ELSE IF s.skippedPoll THEN None
                        ELSE IF Sees(NMI_LATCH) THEN "NMI"
                        ELSE IF Sees(IRQ_LINE) /\ ~ masked THEN "IRQ"
                        ELSE None
  BY DEF NextBoundary, Sees, masked
<1>7. StepTakes' = IF s.resetPending THEN "RESET"
                   ELSE IF s.halted THEN "JAM_IDLE"
                   ELSE BoundaryInterrupt'
  BY <1>4, <1>5 DEF StepTakes, BoundaryInterrupt
<1> QED
  BY <1>2, <1>3, <1>6, <1>7 DEF BoundaryInterrupt

(* A step that was abandoned leaves nothing that restore_state does not    *)
(* replace: for any honest state the next decision is the state's own.     *)
THEOREM RestoredStatesDecide == HonestStates => (Spec => RestoredStateDecides)
<1> SUFFICES ASSUME HonestStates PROVE Spec => RestoredStateDecides
  OBVIOUS
<1>1. Init => TypeOK
  BY TypeInit
<1>2. TypeOK /\ [Next]_vars => TypeOK'
  BY TypeNext
<1>3. TypeOK /\ [Next]_vars
        => [\A s \in HostStates : HostRestores(s) => StepTakes' = NextBoundary(s)]_vars
  BY RestoreDecides
<1> QED
  BY <1>1, <1>2, <1>3, PTL DEF Spec, RestoredStateDecides
=============================================================================
