---------------------------- MODULE Sequences65 ----------------------------
(***************************************************************************)
(* The vocabulary the interrupt modules share: the request bits, what a    *)
(* step() can run, how many bus accesses each of them makes, and which of  *)
(* those are writes.                                                       *)
(*                                                                         *)
(* A step runs one sequence.  The instructions whose interrupt behaviour   *)
(* is their own have a name; every other instruction is "PLAIN", of any of *)
(* the lengths in PlainCycles, because the poll tells them apart only by   *)
(* which access is the last one.                                           *)
(***************************************************************************)
EXTENDS Naturals

CONSTANTS
  None,          \* Python's None; a value outside every other domain
  PlainCycles    \* the lengths a PLAIN instruction may have

(***************************************************************************)
(* OPCODES gives every opcode between 2 and 8 cycles (an unindexed or      *)
(* indexed mode's extra cycle included), JAM apart.                        *)
(***************************************************************************)
ASSUME PlainCyclesAssumption == PlainCycles \subseteq 2..8

(* The bits of _requests, and the further bit _polled may hold. *)
IRQ_LINE  == "IRQ"
NMI_LATCH == "NMI"
NO_POLL   == "NO_POLL"
Lines     == {IRQ_LINE, NMI_LATCH}
Bits      == Lines \cup {NO_POLL}

(* The I bit of P, as self.p & I finds it. *)
FLAG_I  == 4
IValues == {0, FLAG_I}

-----------------------------------------------------------------------------
(* What a boundary may take instead of an instruction (debug.BoundaryKind). *)
Entries == {"RESET", "JAM_IDLE", "NMI", "IRQ"}

Instructions == {"PLAIN", "CLI", "SEI", "PLP", "RTI", "BRK", "BRANCH", "JAM"}

ASSUME NoneAssumption == /\ \A bits \in SUBSET Bits : None # bits
                         /\ None \notin IValues
                         /\ None \notin BOOLEAN
                         /\ None \notin Instructions \cup Entries

(* These do not poll at their end. *)
NoPollSequences == {"RESET", "NMI", "IRQ", "BRK"}

(* JAM reads PC once more after its opcode, then the nine JAM_READS. *)
JAM_READS == 9

(***************************************************************************)
(* The number of bus accesses, which is the number of cycles.  A branch is *)
(* 2 not taken, 3 taken on the same page and 4 taken across a page.        *)
(***************************************************************************)
Lengths(s) ==
  CASE s \in NoPollSequences   -> {7}
    [] s = "JAM_IDLE"          -> {1}
    [] s \in {"CLI", "SEI"}    -> {2}
    [] s = "PLP"               -> {4}
    [] s = "RTI"               -> {6}
    [] s = "BRANCH"            -> {2, 3, 4}
    [] s = "JAM"               -> {2 + JAM_READS}
    [] s = "PLAIN"             -> PlainCycles

(***************************************************************************)
(* Whether access n of s reads or writes.  BRK and the interrupt entries   *)
(* push PCH, PCL and P in their cycles 3 to 5.  A PLAIN instruction reads  *)
(* its opcode and the byte after it; what comes later may be either.       *)
(***************************************************************************)
Kinds(s, n) ==
  CASE s \in {"BRK", "NMI", "IRQ"} /\ n \in 3..5 -> {"write"}
    [] s = "PLAIN" /\ n > 2                      -> {"read", "write"}
    [] OTHER                                     -> {"read"}
=============================================================================
