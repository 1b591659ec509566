----------------------------- MODULE BusCycles ------------------------------
(***************************************************************************)
(* Which bus accesses each instruction makes, and the cycles step() says   *)
(* it took: the opcode map of _dispatch.py against the addressing modes of *)
(* _core.py and the handlers' own accesses, with host callables that may   *)
(* raise; and the length disasm.py gives each of them.                     *)
(*                                                                         *)
(* An access is named by what it is for.  Registers and memory are data: a *)
(* fetched base address, an index and whether a branch is taken are free   *)
(* choices.  Addresses are kept only where two accesses may meet at one,   *)
(* which is in the indexed modes.                                          *)
(***************************************************************************)
EXTENDS Integers, Sequences

CONSTANTS
  Base,          \* how many values a byte has: 256 in the code
  HostRaises,    \* whether a host callable may raise
  HostRestores   \* whether it then restores a state before it steps again

ASSUME BaseAssumption == Base \in Nat /\ Base > 1
ASSUME HostRaisesAssumption   == HostRaises \in BOOLEAN
ASSUME HostRestoresAssumption == HostRestores \in BOOLEAN

Bytes     == 0 .. Base - 1
Addresses == 0 .. Base * Base - 1

PageOf(address) == address \div Base
LowOf(address)  == address % Base

-----------------------------------------------------------------------------
(***************************************************************************)
(* The opcode map, a row for each family of handlers and addressing mode.  *)
(***************************************************************************)
Row(family, mode, cycles) == [family |-> family, mode |-> mode, cycles |-> cycles]

ReadRows ==
  {Row("read", "imm", 2), Row("read", "zp", 3), Row("read", "zpx", 4), Row("read", "zpy", 4),
   Row("read", "abs", 4), Row("read", "abx", 4), Row("read", "aby", 4),
   Row("read", "izx", 6), Row("read", "izy", 5)}

WriteRows ==
  {Row("write", "zp", 3), Row("write", "zpx", 4), Row("write", "zpy", 4),
   Row("write", "abs", 4), Row("write", "abx_w", 5), Row("write", "aby_w", 5),
   Row("write", "izx", 6), Row("write", "izy_w", 6)}

ModifyRows ==
  {Row("modify", "zp", 5), Row("modify", "zpx", 6), Row("modify", "abs", 6),
   Row("modify", "abx_w", 7), Row("modify", "aby_w", 7),
   Row("modify", "izx", 8), Row("modify", "izy_w", 8)}

(* SHA, SHX, SHY and TAS: a store whose address is unstable. *)
UnstableRows ==
  {Row("unstable", "abx_w", 5), Row("unstable", "aby_w", 5), Row("unstable", "izy_w", 6)}

(* The handlers with mode None. *)
OwnRows ==
  {Row("implied", "none", 2), Row("branch", "none", 2), Row("push", "none", 3),
   Row("pull", "none", 4), Row("jmp", "none", 3), Row("jmp_ind", "none", 5),
   Row("jsr", "none", 6), Row("rts", "none", 6), Row("rti", "none", 6),
   Row("brk", "none", 7), Row("jam", "none", 11)}

OPCODES == ReadRows \cup WriteRows \cup ModifyRows \cup UnstableRows \cup OwnRows

(* What step() runs instead, with the constant it returns. *)
Lifecycle == {Row("enter", "none", 7), Row("reset", "none", 7), Row("idle", "none", 1)}

Families == {row.family : row \in OPCODES \cup Lifecycle}

IndexedReads  == {"abx", "aby", "izy"}
IndexedWrites == {"abx_w", "aby_w", "izy_w"}
Indexed       == IndexedReads \cup IndexedWrites

(* The disassembler's name for each mode, and the bytes it shows for it.   *)
MODE_NAMES ==
  [imm |-> "immediate", zp |-> "zero_page", zpx |-> "zero_page_x", zpy |-> "zero_page_y",
   abs |-> "absolute", abx |-> "absolute_x", abx_w |-> "absolute_x",
   aby |-> "absolute_y", aby_w |-> "absolute_y", izx |-> "indexed_indirect",
   izy |-> "indirect_indexed", izy_w |-> "indirect_indexed"]

(* Faulty: JSR is forgotten among the handlers with no mode. *)
FormWithoutJSR(r) ==
  CASE r.family = "branch"  -> "relative"
    [] r.family = "jmp_ind" -> "indirect"
    [] r.family = "jmp"     -> "absolute"
    [] OTHER -> IF r.mode = "none" THEN "implied" ELSE MODE_NAMES[r.mode]

Form(r) ==
  CASE r.family = "branch"          -> "relative"
    [] r.family = "jmp_ind"         -> "indirect"
    [] r.family \in {"jmp", "jsr"} -> "absolute"
    [] OTHER -> IF r.mode = "none" THEN "implied" ELSE MODE_NAMES[r.mode]

LENGTHS(form) ==
  CASE form = "implied" -> 1
    [] form \in {"absolute", "absolute_x", "absolute_y", "indirect"} -> 3
    [] OTHER -> 2

-----------------------------------------------------------------------------
(* The accesses of each mode, up to an indexed one's base address, and the *)
(* rest of the instruction's.                                              *)
ModeAccesses(mode) ==
  CASE mode \in {"imm", "none"}                       -> <<>>
    [] mode = "zp"                                    -> <<"operand">>
    [] mode \in {"zpx", "zpy"}                        -> <<"operand", "unindexed">>
    [] mode \in {"abs", "abx", "aby", "abx_w", "aby_w"} -> <<"operand", "operand">>
    [] mode = "izx"  -> <<"operand", "unindexed", "pointer", "pointer">>
    [] mode \in {"izy", "izy_w"} -> <<"operand", "pointer", "pointer">>

(* Faulty: JAM's read of PC is counted twice. *)
JAM_READS_AND_PC == 10

JAM_READS == 9

(* A branch is not taken, taken on its page, or taken across it. *)
Bodies(family) ==
  CASE family \in {"read", "write", "unstable"} -> {<<"data">>}
    [] family = "modify"  -> {<<"data", "data", "data">>}
    [] family = "implied" -> {<<"next">>}
    [] family = "branch"  -> {<<"operand">>, <<"operand", "next">>,
                              <<"operand", "next", "page">>}
    [] family = "push"    -> {<<"next", "stack">>}
    [] family = "pull"    -> {<<"next", "stack", "stack">>}
    [] family = "jmp"     -> {<<"operand", "operand">>}
    [] family = "jmp_ind" -> {<<"operand", "operand", "pointer", "pointer">>}
    [] family = "jsr"     -> {<<"operand", "stack", "stack", "stack", "operand">>}
    [] family = "rts"     -> {<<"next", "stack", "stack", "stack", "pulled">>}
    [] family = "rti"     -> {<<"next", "stack", "stack", "stack", "stack">>}
    [] family = "brk"     -> {<<"operand", "stack", "stack", "stack", "vector", "vector">>}
    [] family = "jam"     -> {<<"next">> \o [k \in 1..JAM_READS |-> "jam"]}
    [] family = "enter"   -> {<<"stack", "stack", "stack", "vector", "vector">>}
    [] family = "reset"   -> {<<"stack", "stack", "stack", "vector", "vector">>}
    [] family = "idle"    -> {<<>>}

(* The first accesses: the opcode; an entry's and a reset's two reads of   *)
(* PC; an idle cycle's read of $FFFF.                                      *)
Opening(row) ==
  CASE row.family \in {"enter", "reset"} -> <<"discarded", "discarded">>
    [] row.family = "idle"               -> <<"idle">>
    [] OTHER                             -> <<"opcode">> \o ModeAccesses(row.mode)

-----------------------------------------------------------------------------
VARIABLES
  row,       \* what the step runs
  todo,      \* its accesses still to return, the first one with the host;
             \*   empty between steps
  made,      \* how many accesses the step has made
  consumed,  \* how many of them, returned, were of the instruction's own bytes
  extra,     \* _extra
  base, ea,  \* the base address fetched, and the effective address
  touched,   \* how many of the step's accesses since then were at ea
  returned,  \* what the last step() returned; 0 if it raised
  halted,    \* JAM has stopped the CPU
  spoiled    \* a step was cut short, and no state has been restored since

vars == <<row, todo, made, consumed, extra, base, ea, touched, returned, halted, spoiled>>

Places == {"opcode", "operand", "unindexed", "pointer", "fixup", "data", "next", "page",
           "stack", "pulled", "vector", "jam", "discarded", "idle"}

TypeOK ==
  /\ row \in OPCODES \cup Lifecycle
  /\ todo \in Seq(Places) /\ Len(todo) <= 11
  /\ made \in 0..11 /\ consumed \in 0..3
  /\ extra \in 0..2
  /\ base \in Addresses /\ ea \in Addresses
  /\ touched \in 0..4
  /\ returned \in 0..13
  /\ halted \in BOOLEAN /\ spoiled \in BOOLEAN

Init ==
  /\ row = Row("idle", "none", 1) /\ todo = <<>> /\ made = 0 /\ consumed = 0
  /\ extra = 0 /\ base = 0 /\ ea = 0 /\ touched = 0
  /\ returned = 0 /\ halted = FALSE /\ spoiled = FALSE

BetweenSteps == todo = <<>>

Runnable ==
  IF halted THEN {r \in Lifecycle : r.family \in {"reset", "idle"}}
  ELSE OPCODES \cup {r \in Lifecycle : r.family \in {"reset", "enter"}}

Begin(r, body) ==
  /\ BetweenSteps
  /\ r \in Runnable
  /\ spoiled => ~ HostRestores
  /\ row' = r
  /\ todo' = Opening(r) \o body
  /\ made' = 1 /\ consumed' = 0
  /\ base' = 0 /\ ea' = 0 /\ touched' = 0
  /\ halted' = (halted /\ r.family # "reset")
  /\ UNCHANGED <<extra, returned, spoiled>>

-----------------------------------------------------------------------------
(* The access with the host returns.  The steps below are by which it is.  *)
Access == Head(todo)

(* PC moves on with a fetched byte, and with an immediate operand, which   *)
(* is read as data.  JSR's second operand byte is read where PC stands.    *)
Consumes ==
  IF Access \in {"opcode", "operand"} \/ (row.mode = "imm" /\ Access = "data") THEN 1 ELSE 0

(* Whether the base address is complete: the data access, or the fix-up    *)
(* before it, is next.                                                     *)
Indexes == row.mode \in Indexed /\ Len(todo) > 1 /\ todo[2] = "data" /\ Access # "fixup"
             /\ Access # "data"

(* The address on the bus while the carry reaches the high byte. *)
Uncorrected(b, address) == PageOf(b) * Base + LowOf(address)

(* Faulty: the page crossing is judged by the low bytes' order only.       *)
CrossesLate(b, address) == LowOf(address) > LowOf(b)

Crosses(b, address) == PageOf(b) # PageOf(address)

FixesUp(b, address) == row.mode \in IndexedWrites \/ Crosses(b, address)

(* _extra after an access: a page crossed by an indexed read, a branch.    *)
ExtraAfter(access, rest) ==
  CASE access = "fixup" /\ row.mode \in IndexedReads -> 1
    [] row.family = "branch" /\ access = "next" /\ rest = <<>> -> 1
    [] row.family = "branch" /\ access = "page" -> 2
    [] OTHER -> extra

(* _indexed, once the base is in. *)
Index(b, i) ==
  LET address == (b + i) % (Base * Base)
      fixup   == FixesUp(b, address)
  IN  /\ Indexes
      /\ base' = b /\ ea' = address
      /\ todo' = IF fixup THEN <<"fixup">> \o Tail(todo) ELSE Tail(todo)
      /\ made' = made + 1 /\ consumed' = consumed + Consumes
      /\ touched' = IF fixup /\ Uncorrected(b, address) # address THEN 0 ELSE 1
      /\ UNCHANGED <<row, extra, returned, halted, spoiled>>

(* How often a data access is at ea.  Across a page, an unstable store     *)
(* puts the value it stores in the high byte of the address.               *)
AtOperand == IF row.family = "unstable" /\ Crosses(base, ea) THEN {0, 1} ELSE {1}

(* Any other access but the last. *)
Continue ==
  /\ ~ BetweenSteps /\ Len(todo) > 1 /\ ~ Indexes
  /\ todo' = Tail(todo)
  /\ made' = made + 1 /\ consumed' = consumed + Consumes
  /\ IF row.mode \in Indexed /\ todo[2] = "data"
     THEN \E hit \in AtOperand : touched' = touched + hit
     ELSE touched' = touched
  /\ extra' = ExtraAfter(Access, Tail(todo))
  /\ UNCHANGED <<row, base, ea, returned, halted, spoiled>>

(* The last access returns, and step() adds _extra and clears it: _execute *)
(* does, the entries, reset and the idle cycle return a constant.          *)
Return ==
  /\ Len(todo) = 1
  /\ todo' = <<>> /\ consumed' = consumed + Consumes
  /\ LET e == ExtraAfter(Access, <<>>)
     IN  IF row \in Lifecycle
         THEN returned' = row.cycles /\ extra' = e
         ELSE returned' = row.cycles + e /\ extra' = 0
  /\ halted' = (halted \/ row.family = "jam")
  /\ UNCHANGED <<row, made, base, ea, touched, spoiled>>

(* The host's callable raises, through step(). *)
Raise ==
  /\ HostRaises /\ ~ BetweenSteps
  /\ todo' = <<>>
  /\ returned' = 0
  /\ spoiled' = TRUE
  /\ UNCHANGED <<row, made, consumed, extra, base, ea, touched, halted>>

(* Faulty: _extra is not part of the state, and is left as it is. *)
RestoreStateKeepsExtra ==
  /\ BetweenSteps
  /\ extra' = extra /\ spoiled' = FALSE
  /\ halted' \in BOOLEAN
  /\ UNCHANGED <<row, todo, made, consumed, base, ea, touched, returned>>

(* restore_state, of any state: halted is one of its fields. *)
RestoreState ==
  /\ BetweenSteps
  /\ extra' = 0 /\ spoiled' = FALSE
  /\ halted' \in BOOLEAN
  /\ UNCHANGED <<row, todo, made, consumed, base, ea, touched, returned>>

Next ==
  \/ \E r \in OPCODES \cup Lifecycle : \E body \in Bodies(r.family) : Begin(r, body)
  \/ \E b \in Addresses, i \in Bytes : Index(b, i)
  \/ Continue
  \/ Return
  \/ Raise
  \/ RestoreState

Spec == Init /\ [][Next]_vars

-----------------------------------------------------------------------------
(* docs/start-here.md: "step() calls the bus exactly once per cycle it     *)
(* returns", whatever the mode, the index and the branch do, and whatever  *)
(* steps came before.                                                      *)
CyclesAreAccesses == (BetweenSteps /\ returned # 0) => returned = made

(* An indexed read reads its operand's address once: a device there is not *)
(* acknowledged by the cycle that corrects the page.  A store or a         *)
(* read-modify-write touches it once more than its data accesses when no   *)
(* page is crossed, and no more when one is (docs/start-here.md's table).  *)
OperandTouchedOnce ==
  (BetweenSteps /\ returned # 0 /\ row.mode \in Indexed) =>
    LET samePage == base \div Base = ea \div Base
        expected == (IF row.family = "modify" THEN 3 ELSE 1)
                      + (IF row.mode \in IndexedWrites /\ samePage THEN 1 ELSE 0)
    IN  IF row.family = "unstable" /\ ~ samePage THEN touched <= 1 ELSE touched = expected

(* disasm.py: "the disassembler cannot disagree with the core about which  *)
(* opcode is which instruction, how long it is": what it shows is what the *)
(* core reads as the instruction, for the jumps and calls too, except that *)
(* BRK takes one byte more (docs/disassembly.md).                          *)
ListingIsConsumed ==
  (BetweenSteps /\ returned # 0 /\ row \in OPCODES) =>
    consumed = LENGTHS(Form(row)) + (IF row.family = "brk" THEN 1 ELSE 0)
=============================================================================
