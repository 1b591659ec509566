----------------------------- MODULE MCMOS6502 -----------------------------
(* MOS6502 on small instances: the values its configurations draw from. *)
EXTENDS MOS6502, TLC

TwoAndThree == {2, 3}
OnlyTwo == {2}

NoStates == {}

CallableSymmetry == Permutations(Callables)

(* What a host builds by hand: the two pending fields, P and nothing else. *)
Built(irq, nmi, p) ==
  [halted |-> FALSE, resetPending |-> FALSE,
   pending |-> [l \in Lines |-> IF l = IRQ_LINE THEN irq ELSE nmi],
   polledI |-> None, polled |-> [l \in Lines |-> None],
   skippedPoll |-> FALSE, p |-> p]

(* And what an earlier capture may have kept: a delayed I, a poll that     *)
(* disagrees with the requests or saw none of them, a skipped poll, a      *)
(* stopped CPU, a reset that waits.                                        *)
Kept ==
  {[Built(TRUE, FALSE, 0) EXCEPT !.polledI = TRUE],
   [Built(TRUE, TRUE, 0) EXCEPT !.polled[NMI_LATCH] = FALSE],
   [Built(TRUE, TRUE, 4) EXCEPT !.polled = [l \in Lines |-> FALSE]],
   [Built(FALSE, FALSE, 0) EXCEPT !.polled[IRQ_LINE] = TRUE],
   [Built(TRUE, FALSE, 0) EXCEPT !.polled[IRQ_LINE] = FALSE, !.skippedPoll = TRUE],
   [Built(FALSE, TRUE, 4) EXCEPT !.halted = TRUE],
   [Built(FALSE, TRUE, 0) EXCEPT !.halted = TRUE, !.resetPending = TRUE]}

SavedStates == {Built(irq, nmi, 0) : irq, nmi \in BOOLEAN} \cup Kept
=============================================================================
