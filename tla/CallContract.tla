---------------------------- MODULE CallContract ----------------------------
(***************************************************************************)
(* What a program is promised of calls and interrupts, and a user of over: *)
(* frames nest; a return goes to the instruction after its call; an        *)
(* interrupted program goes on where it was, with its I flag; what was     *)
(* pushed is pulled; and over ends when the very call it began has         *)
(* returned, or earlier for a reason of its own.  There are no bytes, no   *)
(* S and no stack page here.                                               *)
(***************************************************************************)
EXTENDS Naturals, Sequences

CONSTANTS
  Base,       \* the values of a byte: 256
  CallSites,  \* the addresses that hold a JSR
  None

VARIABLES
  pc,
  p,        \* the I flag
  frames,   \* what is on the stack
  over      \* the command in progress: the depth it began at, and whether the
            \* call has been made

vars == <<pc, p, frames, over>>

Bytes     == 0..(Base - 1)
Addresses == 0..(Base * Base - 1)

After(a, n) == (a + n) % (Base * Base)

Call(ret)          == [kind |-> "CALL", ret |-> ret, value |-> None]
Interrupted(ret)   == [kind |-> "INTERRUPT", ret |-> ret, value |-> p]
Kept(value)        == [kind |-> "BYTE", ret |-> None, value |-> value]

Top == frames[Len(frames)]
OnTop(kind) == frames # <<>> /\ Top.kind = kind
Below == SubSeq(frames, 1, Len(frames) - 1)

Init ==
  /\ pc \in Addresses /\ p \in {0, 1}
  /\ frames = <<>>
  /\ over = None

(* The call over began is over: that is when it looks no further. *)
Returned == over # None /\ over.called /\ Len(frames) = over.depth

Runs == ~ Returned

-----------------------------------------------------------------------------
JSR ==
  /\ Runs /\ pc \in CallSites
  /\ frames' = Append(frames, Call(After(pc, 3)))
  /\ over' = IF over # None /\ Len(frames) = over.depth
             THEN [over EXCEPT !.called = TRUE] ELSE over
  /\ pc' \in Addresses
  /\ UNCHANGED p

RTS ==
  /\ Runs /\ pc \notin CallSites /\ OnTop("CALL")
  /\ pc' = Top.ret
  /\ frames' = Below
  /\ UNCHANGED <<p, over>>

Interrupt(ret) ==
  /\ Runs
  /\ frames' = Append(frames, Interrupted(ret))
  /\ pc' \in Addresses /\ p' = 1
  /\ UNCHANGED over

EnterInterrupt == Interrupt(pc)
BRK == pc \notin CallSites /\ Interrupt(After(pc, 2))

RTI ==
  /\ Runs /\ pc \notin CallSites /\ OnTop("INTERRUPT")
  /\ pc' = Top.ret /\ p' = Top.value
  /\ frames' = Below
  /\ UNCHANGED over

Push(value) ==
  /\ Runs /\ pc \notin CallSites
  /\ frames' = Append(frames, Kept(value))
  /\ pc' = After(pc, 1)
  /\ UNCHANGED <<p, over>>

(* PLA, which leaves I alone, and PLP, which takes it. *)
Pull ==
  /\ Runs /\ pc \notin CallSites /\ OnTop("BYTE")
  /\ p' \in {p, Top.value % 2}
  /\ frames' = Below
  /\ pc' = After(pc, 1)
  /\ UNCHANGED over

(* An instruction that leaves the stack alone. *)
Other ==
  /\ Runs /\ pc \notin CallSites
  /\ pc' \in Addresses /\ p' \in {0, 1}
  /\ UNCHANGED <<frames, over>>

(* Nothing that was called or interrupted before a reset is gone back to.  *)
Reset ==
  /\ frames' = <<>> /\ over' = None
  /\ pc' \in Addresses /\ p' = 1

OverBegins ==
  /\ over = None /\ pc \in CallSites
  /\ over' = [depth |-> Len(frames), called |-> FALSE]
  /\ UNCHANGED <<pc, p, frames>>

OverEnds ==
  /\ Returned
  /\ over' = None
  /\ UNCHANGED <<pc, p, frames>>

(* A breakpoint, a watchpoint, a stop or the command's limit.              *)
OverBreaksOff ==
  /\ over # None
  /\ over' = None
  /\ UNCHANGED <<pc, p, frames>>

Next ==
  \/ JSR \/ RTS \/ EnterInterrupt \/ BRK \/ RTI
  \/ \E value \in Bytes : Push(value)
  \/ Pull \/ Other \/ Reset
  \/ OverBegins \/ OverEnds \/ OverBreaksOff

Spec == Init /\ [][Next]_vars
=============================================================================
