----------------------------- MODULE CallStack -----------------------------
(***************************************************************************)
(* The stack page, S, and the instructions and sequences that push and     *)
(* pull; and the command over, which knows a call's return by PC and S     *)
(* alone.                                                                  *)
(*                                                                         *)
(* The program is any one that pulls what it pushed: RTS with its call's   *)
(* frame on top, RTI with an interrupt's, and no write to the stack page   *)
(* but by pushes.  frames is that knowledge: what was pushed, in order,    *)
(* each frame with the number of bytes beneath it, and bottom is what S    *)
(* was with nothing pushed.  The CPU reads neither.                        *)
(***************************************************************************)
EXTENDS Naturals, Sequences

CONSTANTS
  StackSize,  \* 256
  Base,       \* the values of a byte: 256
  CallSites,  \* the addresses that hold a JSR
  Starts,     \* what S may be when the program begins
  MaxBytes,   \* bound: the bytes the program keeps on its stack
  None

Bytes     == 0..(Base - 1)
Addresses == 0..(Base * Base - 1)
Slots     == 0..(StackSize - 1)

Overs == [next : Addresses, s : Slots, depth : Nat, called : BOOLEAN]

ASSUME CallStackAssumption ==
  /\ StackSize \in Nat /\ Base \in Nat
  /\ StackSize > 3 /\ Base > 1
  /\ MaxBytes \in 0..(StackSize - 1)
  /\ CallSites \subseteq Addresses
  /\ Starts \subseteq Slots
  /\ None \notin Nat /\ None \notin Overs
  /\ None \notin [depth : Nat, called : BOOLEAN]

VARIABLES
  pc,
  p,         \* the I flag, which is all of P that is told apart
  s,
  memory,    \* the stack page
  frames, bottom,
  over       \* _over's locals (next_address, state.s), and of the call it began:
             \* the depth, and whether it was made

vars == <<pc, p, s, memory, frames, bottom, over>>

After(a, n) == (a + n) % (Base * Base)
High(a) == a \div Base
Low(a)  == a % Base

Size == [CALL |-> 2, INTERRUPT |-> 3, BYTE |-> 1]

Frames ==
  [kind : {"CALL"}, ret : Addresses, value : {None}, at : 0..MaxBytes]
  \cup [kind : {"INTERRUPT"}, ret : Addresses, value : {0, 1}, at : 0..MaxBytes]
  \cup [kind : {"BYTE"}, ret : {None}, value : Bytes, at : 0..MaxBytes]

TypeOK ==
  /\ pc \in Addresses /\ p \in {0, 1}
  /\ s \in Slots /\ bottom \in Slots
  /\ memory \in [Slots -> Bytes]
  /\ frames \in Seq(Frames)
  /\ over \in Overs \cup {None}

Init ==
  /\ pc \in Addresses /\ p \in {0, 1}
  /\ s \in Starts /\ bottom = s
  /\ memory = [slot \in Slots |-> 0]
  /\ frames = <<>>
  /\ over = None

Top == frames[Len(frames)]
OnTop(kind) == frames # <<>> /\ Top.kind = kind
Depth == IF frames = <<>> THEN 0 ELSE Top.at + Size[Top.kind]

(* Faulty: a recursive call's return is taken for it. *)
BackByPC == over # None /\ pc = over.next

(* _over's test for "control is back", which every pass of its loop makes  *)
(* before it runs one step more.                                           *)
Back == over # None /\ pc = over.next /\ s = over.s
Runs == ~ Back

-----------------------------------------------------------------------------
(* Faulty: S does not wrap around. *)
DecClamped(x) == IF x = 0 THEN 0 ELSE x - 1

Dec(x) == IF x = 0 THEN StackSize - 1 ELSE x - 1
Inc(x) == IF x = StackSize - 1 THEN 0 ELSE x + 1

(* Faulty: PCL first. *)
PushedAddressSwapped(a) == [memory EXCEPT ![s] = Low(a), ![Dec(s)] = High(a)]

(* _push twice: PCH, then PCL. *)
PushedAddress(a) == [memory EXCEPT ![s] = High(a), ![Dec(s)] = Low(a)]

(* _pull twice, above S = x: PCL, then PCH. *)
PulledAddress(x) == memory[Inc(Inc(x))] * Base + memory[Inc(x)]

NewFrame(kind, ret, value) ==
  /\ Depth + Size[kind] <= MaxBytes
  /\ frames' = Append(frames, [kind |-> kind, ret |-> ret, value |-> value, at |-> Depth])
  /\ UNCHANGED bottom

PopFrame ==
  /\ frames' = SubSeq(frames, 1, Len(frames) - 1)
  /\ UNCHANGED bottom

(* What is pushed is PC + 2, the address of JSR's own last byte. *)
JSR ==
  /\ Runs /\ pc \in CallSites
  /\ memory' = PushedAddress(After(pc, 2)) /\ s' = Dec(Dec(s))
  /\ pc' \in Addresses
  /\ NewFrame("CALL", After(pc, 3), None)
  /\ over' = IF over # None /\ Len(frames) = over.depth
             THEN [over EXCEPT !.called = TRUE] ELSE over
  /\ UNCHANGED p

(* Faulty: the increment does not wrap around at the top of memory. *)
RTSUnwrapped ==
  /\ Runs /\ pc \notin CallSites /\ OnTop("CALL")
  /\ pc' = PulledAddress(s) + 1 /\ s' = Inc(Inc(s))
  /\ PopFrame
  /\ UNCHANGED <<p, memory, over>>

RTS ==
  /\ Runs /\ pc \notin CallSites /\ OnTop("CALL")
  /\ pc' = After(PulledAddress(s), 1) /\ s' = Inc(Inc(s))
  /\ PopFrame
  /\ UNCHANGED <<p, memory, over>>

(* _interrupt: PCH, PCL and P pushed, I set. *)
Interrupt(ret) ==
  /\ Runs
  /\ memory' = [PushedAddress(ret) EXCEPT ![Dec(Dec(s))] = p]
  /\ s' = Dec(Dec(Dec(s)))
  /\ pc' \in Addresses /\ p' = 1
  /\ NewFrame("INTERRUPT", ret, p)
  /\ UNCHANGED over

EnterInterrupt == Interrupt(pc)
BRK == pc \notin CallSites /\ Interrupt(After(pc, 2))

RTI ==
  /\ Runs /\ pc \notin CallSites /\ OnTop("INTERRUPT")
  /\ p' = memory[Inc(s)] % 2
  /\ pc' = PulledAddress(Inc(s)) /\ s' = Inc(Inc(Inc(s)))
  /\ PopFrame
  /\ UNCHANGED <<memory, over>>

(* PHA, PHP. *)
Push(value) ==
  /\ Runs /\ pc \notin CallSites
  /\ memory' = [memory EXCEPT ![s] = value] /\ s' = Dec(s)
  /\ pc' = After(pc, 1)
  /\ NewFrame("BYTE", None, value)
  /\ UNCHANGED <<p, over>>

(* PLA, PLP. *)
Pull ==
  /\ Runs /\ pc \notin CallSites /\ OnTop("BYTE")
  /\ p' \in {p, memory[Inc(s)] % 2} /\ s' = Inc(s)
  /\ pc' = After(pc, 1)
  /\ PopFrame
  /\ UNCHANGED <<memory, over>>

(* An instruction that leaves the stack alone. *)
Other ==
  /\ Runs /\ pc \notin CallSites
  /\ pc' \in Addresses /\ p' \in {0, 1}
  /\ UNCHANGED <<s, memory, frames, bottom, over>>

(* The start sequence moves S and writes nothing.  The call that over      *)
(* waits for is lost with the frames: what is left of the command's loop   *)
(* has nothing to find, and is left out.                                   *)
Reset ==
  /\ Runs
  /\ s' = Dec(Dec(Dec(s))) /\ bottom' = s'
  /\ pc' \in Addresses /\ p' = 1
  /\ frames' = <<>>
  /\ over' = None
  /\ UNCHANGED memory

-----------------------------------------------------------------------------
(* over, begun where its disassembly shows a JSR. *)
OverBegins ==
  /\ over = None /\ pc \in CallSites
  /\ over' = [next |-> After(pc, 3), s |-> s,
              depth |-> Len(frames), called |-> FALSE]
  /\ UNCHANGED <<pc, p, s, memory, frames, bottom>>

OverEnds ==
  /\ Back
  /\ over' = None
  /\ UNCHANGED <<pc, p, s, memory, frames, bottom>>

(* A breakpoint, a watchpoint, a stop or the limit. *)
OverBreaksOff ==
  /\ over # None
  /\ over' = None
  /\ UNCHANGED <<pc, p, s, memory, frames, bottom>>

Instruction ==
  \/ JSR \/ RTS \/ BRK \/ RTI
  \/ \E value \in Bytes : Push(value)
  \/ Pull \/ Other

Next ==
  \/ Instruction \/ EnterInterrupt \/ Reset
  \/ OverBegins \/ OverEnds \/ OverBreaksOff

Spec == Init /\ [][Next]_vars
-----------------------------------------------------------------------------
(* The slot of the byte that has k bytes beneath it. *)
Slot(k) == IF k <= bottom THEN bottom - k ELSE bottom - k + StackSize

Holds(f) ==
  IF f.kind = "BYTE" THEN memory[Slot(f.at)] = f.value
  ELSE LET pushed == IF f.kind = "CALL" THEN After(f.ret, Base * Base - 1) ELSE f.ret
       IN /\ memory[Slot(f.at)] = High(pushed)
          /\ memory[Slot(f.at + 1)] = Low(pushed)
          /\ f.kind = "INTERRUPT" => memory[Slot(f.at + 2)] = f.value

(* However deep calls, interrupts and kept bytes nest, and wherever in the *)
(* page S began, every frame is still on the stack page, byte for byte,    *)
(* under the frames above it (_core.py, _push and _pull).                  *)
FramesAreHeld ==
  /\ s = Slot(Depth)
  /\ \A i \in DOMAIN frames : Holds(frames[i])

Returned == over # None /\ over.called /\ Len(frames) = over.depth

(* "stop when control is back at the instruction after the JSR with the    *)
(* stack where it was" (console.py:319): PC and S say so exactly when the  *)
(* call over began has returned, and not for a recursive call, an          *)
(* interrupt that came first or one that landed inside.                    *)
BackIsReturned == Back <=> Returned

(* What the contract sees of the frames and of over. *)
Mapped(f)    == [kind |-> f.kind, ret |-> f.ret, value |-> f.value]
MappedFrames == [i \in DOMAIN frames |-> Mapped(frames[i])]
MappedOver   == IF over = None THEN None ELSE [depth |-> over.depth, called |-> over.called]

Contract == INSTANCE CallContract WITH frames <- MappedFrames, over <- MappedOver

(* The stack page implements the nesting of calls and interrupts, and      *)
(* over's test the end of its call.                                        *)
ImplementsContract == Contract!Spec
=============================================================================
