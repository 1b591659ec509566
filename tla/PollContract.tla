--------------------------- MODULE PollContract ----------------------------
(***************************************************************************)
(* What CPUFrame and MOS6502 promise a board about interrupts, as          *)
(* docs/start-here.md ("Reset and interrupts") states it and with none of  *)
(* the machinery that achieves it: no None, no deferred request, no        *)
(* wrapper.                                                                *)
(*                                                                         *)
(* The detectors sample the requests at the end of every cycle, a halted   *)
(* cycle of a stalled read included.  An instruction polls in its last     *)
(* cycle, so it sees the sample before that; a branch polls at places of   *)
(* its own; BRK, the interrupt entries and reset do not poll.  What the    *)
(* poll saw, and the I bit it saw, decide the next boundary.               *)
(***************************************************************************)
EXTENDS Sequences65

CONSTANT HostStates   \* restorable states, as CPUFrame's CPUStates

VARIABLES
  requests, resetPending, halted, pI,
  sampled,     \* the detectors' last sample, during a step
  seen,        \* what the last poll saw, or {NO_POLL}
  seenI,       \* the I bit it saw
  branchSeen,  \* what a taken branch's polls have seen up to its cycle 2
  halts,       \* the samples of the last two halted cycles of its cycle 3
  seq, cycle, total, access, vector

vars == <<requests, resetPending, halted, pI, sampled, seen, seenI, branchSeen,
          halts, seq, cycle, total, access, vector>>

NoHalts == [last |-> {}, before |-> {}]

Init ==
  /\ requests = {} /\ resetPending = FALSE /\ halted = FALSE /\ pI = FLAG_I
  /\ sampled = {} /\ seen = {} /\ seenI = FLAG_I
  /\ branchSeen = {} /\ halts = NoHalts
  /\ seq = None /\ cycle = 0 /\ total = 0 /\ access = None /\ vector = None

-----------------------------------------------------------------------------
(* The board. *)

Assert(line) ==
  /\ requests' = requests \cup {line}
  /\ seen' = IF NO_POLL \in seen THEN seen ELSE seen \cup {line}
  /\ UNCHANGED <<resetPending, halted, pI, sampled, seenI, branchSeen, halts,
                 seq, cycle, total, access, vector>>

Release(line) ==
  /\ requests' = requests \ {line}
  /\ seen' = seen \ {line}
  /\ UNCHANGED <<resetPending, halted, pI, sampled, seenI, branchSeen, halts,
                 seq, cycle, total, access, vector>>

Reset(pending) ==
  /\ resetPending' = pending
  /\ UNCHANGED <<requests, halted, pI, sampled, seen, seenI, branchSeen, halts,
                 seq, cycle, total, access, vector>>

(* RDY holds the read in progress for one more cycle. *)
HaltedCycle ==
  /\ cycle > 0 /\ access = "read"
  /\ sampled' = requests
  /\ halts' = IF seq = "BRANCH" /\ cycle = 3
              THEN [last |-> requests, before |-> halts.last] ELSE NoHalts
  /\ UNCHANGED <<requests, resetPending, halted, pI, seen, seenI, branchSeen,
                 seq, cycle, total, access, vector>>

(* A state of the host's: a field of "polled" overrides the request. *)
Restore(s) ==
  /\ cycle = 0
  /\ requests' = {l \in Lines : s.pending[l]}
  /\ seen' = IF s.skippedPoll THEN {NO_POLL}
             ELSE {l \in Lines : s.polled[l] = TRUE \/ (s.polled[l] = None /\ s.pending[l])}
  /\ resetPending' = s.resetPending /\ halted' = s.halted /\ pI' = s.p
  /\ seenI' = IF s.polledI = None THEN s.p ELSE IF s.polledI THEN FLAG_I ELSE 0
  /\ seq' = None
  /\ UNCHANGED <<sampled, branchSeen, halts, cycle, total, access, vector>>

(* The board gives up on the step that is running.  What its boundary      *)
(* looked at is spent; what would have been its own poll is never made, so *)
(* the next boundary goes by the requests, and the I bit, as they are.     *)
Abandon ==
  /\ cycle > 0
  /\ cycle' = 0 /\ total' = 0 /\ access' = None /\ vector' = None /\ seq' = None
  /\ sampled' = {} /\ branchSeen' = {} /\ halts' = NoHalts
  /\ seen' = IF seq \in {"RESET", "JAM_IDLE"} THEN seen ELSE requests
  /\ seenI' = IF seq = "JAM_IDLE" THEN seenI ELSE pI
  /\ UNCHANGED <<requests, resetPending, halted, pI>>

Board ==
  \/ \E line \in Lines : Assert(line) \/ Release(line)
  \/ \E pending \in BOOLEAN : Reset(pending)
  \/ HaltedCycle
  \/ \E s \in HostStates : Restore(s)
  \/ Abandon

-----------------------------------------------------------------------------
(* The chip. *)

Runs ==
  IF resetPending THEN {"RESET"}
  ELSE IF halted THEN {"JAM_IDLE"}
  ELSE IF NMI_LATCH \in seen THEN {"NMI"}
  ELSE IF IRQ_LINE \in seen /\ seenI = 0 THEN {"IRQ"}
  ELSE Instructions

BeginStep(s, n) ==
  /\ cycle = 0 /\ s \in Runs /\ n \in Lengths(s)
  /\ seq' = s /\ cycle' = 1 /\ total' = n /\ access' = "read"
  /\ vector' = IF s = "BRK" THEN "IRQ"
               ELSE IF s \in NoPollSequences THEN s ELSE None
  /\ resetPending' = (resetPending /\ s # "RESET")
  /\ halted' = (halted /\ s # "RESET")
  /\ sampled' = requests
  /\ seen' = IF s \in {"RESET", "JAM_IDLE"} THEN seen ELSE requests
  /\ seenI' = IF s = "JAM_IDLE" THEN seenI ELSE pI
  /\ UNCHANGED <<requests, pI, branchSeen, halts>>

(* NMI is taken off its latch in cycle 3 of its entry, or by a takeover. *)
TakesLatch ==
  \/ seq = "NMI" /\ cycle = 2
  \/ seq \in {"BRK", "IRQ"} /\ cycle = 4 /\ NMI_LATCH \in requests

NextCycle(kind) ==
  /\ 0 < cycle /\ cycle < total
  /\ kind \in Kinds(seq, cycle + 1)
  /\ cycle' = cycle + 1 /\ access' = kind
  /\ requests' = IF TakesLatch THEN requests \ {NMI_LATCH} ELSE requests
  /\ vector' = IF TakesLatch THEN "NMI" ELSE vector
  /\ sampled' = requests'
  /\ seen' = IF TakesLatch THEN seen \ {NMI_LATCH} ELSE seen
  /\ \/ /\ seq \in NoPollSequences /\ cycle = 5
        /\ pI' = FLAG_I
     \/ /\ seq = "RTI" /\ cycle = 4
        /\ pI' \in IValues
     \/ /\ ~ (seq \in NoPollSequences /\ cycle = 5)
        /\ ~ (seq = "RTI" /\ cycle = 4)
        /\ pI' = pI
  /\ seenI' = pI'
  /\ branchSeen' =
       CASE seq = "BRANCH" /\ cycle = 2 -> sampled
         [] seq = "BRANCH" /\ cycle = 3 -> branchSeen \cup halts.before
         [] OTHER                       -> branchSeen
  /\ halts' = NoHalts
  /\ UNCHANGED <<seq, total, resetPending, halted>>

(* What the poll of the sequence that ends has seen. *)
Poll ==
  CASE seq \in NoPollSequences        -> {NO_POLL}
    [] seq = "JAM_IDLE"               -> seen
    [] seq = "BRANCH" /\ total = 3    -> branchSeen \cup halts.before
    [] seq = "BRANCH" /\ total = 4    -> branchSeen \cup sampled
    [] OTHER                          -> sampled

EndStep ==
  /\ cycle > 0 /\ cycle = total
  /\ seen' = Poll
  /\ CASE seq = "CLI"  -> pI' = 0 /\ seenI' = pI
       [] seq = "SEI"  -> pI' = FLAG_I /\ seenI' = pI
       [] seq = "PLP"  -> pI' \in IValues /\ seenI' = pI
       [] OTHER        -> UNCHANGED <<pI, seenI>>
  /\ halted' = (halted \/ seq = "JAM")
  /\ cycle' = 0 /\ total' = 0 /\ access' = None /\ vector' = None
  /\ sampled' = {} /\ branchSeen' = {} /\ halts' = NoHalts
  /\ UNCHANGED <<requests, resetPending, seq>>

Chip ==
  \/ \E s \in Instructions \cup Entries : \E n \in Lengths(s) : BeginStep(s, n)
  \/ \E kind \in {"read", "write"} : NextCycle(kind)
  \/ EndStep

Next == Board \/ Chip
Spec == Init /\ [][Next]_vars
=============================================================================
