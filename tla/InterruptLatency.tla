-------------------------- MODULE InterruptLatency --------------------------
(***************************************************************************)
(* MOS6502 with an observer that counts, for each line, the sequences that *)
(* step() completes while a request waits.  The observer only watches.     *)
(***************************************************************************)
EXTENDS MOS6502

VARIABLE waited   \* for each line, the sequences completed while it waits

(* A latched NMI waits; a held IRQ waits while I is clear. *)
Waiting(line) == line \in requests /\ (line = IRQ_LINE => pI = 0)

(* Reset, and a state from elsewhere, start the count anew. *)
StartsAnew == AcceptReset \/ \E s \in HostStates : HostRestores(s)

(* A stopped CPU's steps and the reset sequence do not count. *)
Completes == EndStep /\ seq \notin {"RESET", "JAM_IDLE"}

(* Bound: the count stops here. *)
Enough == 3

Counts ==
  waited' = [line \in Lines |->
               IF Waiting(line)' /\ ~ StartsAnew
               THEN waited[line] + (IF Completes /\ waited[line] < Enough THEN 1 ELSE 0)
               ELSE 0]

CountedSpec ==
  Init /\ waited = [line \in Lines |-> 0] /\ [][Next /\ Counts]_<<vars, waited>>

FairCountedSpec == CountedSpec /\ Fairness

(* A latched NMI, or an IRQ held while I is clear, sees at most two        *)
(* sequences end before its own entry is under way (an NMI's latch is      *)
(* released, an IRQ's I set): the one running, whose poll it may be too    *)
(* late for or which does not poll, and the next.  No branch that ignores  *)
(* its last cycles, no late mask of a CLI, BRK, entry of the other line or *)
(* DMA stall makes it three (frame.py:191, _control.py _branch).           *)
TakenWithinTwo == \A line \in Lines : waited[line] <= 2
=============================================================================
