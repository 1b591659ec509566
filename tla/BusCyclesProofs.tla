-------------------------- MODULE BusCyclesProofs ---------------------------
(***************************************************************************)
(* That step() returns the cycles its accesses took, that an indexed       *)
(* operand is touched as often as documented, and that an instruction is   *)
(* as long as its listing, for every size of byte and page.                *)
(*                                                                         *)
(* The invariant follows a step through its accesses.  What an access      *)
(* still with the host, and those after it, will add up to is known from   *)
(* the row and from what is left: for a branch from its last access, for   *)
(* an indexed mode from whether the base is in and how the fix-up went.    *)
(* The bytes of the instruction are counted in what is left, and a count   *)
(* of a sequence is the sum of its parts' counts.                          *)
(***************************************************************************)
EXTENDS BusCycles, FiniteSetTheorems, SequenceTheorems, TLAPS

Leading == {"opcode", "operand", "unindexed", "pointer"}

ModeLength(mode) ==
  CASE mode \in {"imm", "none"}                          -> 0
    [] mode = "zp"                                       -> 1
    [] mode \in {"zpx", "zpy"}                           -> 2
    [] mode \in {"abs", "abx", "aby", "abx_w", "aby_w"}  -> 2
    [] mode = "izx"                                      -> 4
    [] mode \in {"izy", "izy_w"}                         -> 3

DataCount(r) == IF r.family = "modify" THEN 3 ELSE 1

BranchExtra(last) == CASE last = "operand" -> 0 [] last = "next" -> 1 [] last = "page" -> 2

(* The base address is not complete: no fix-up and no data access yet. *)
Pending == row.mode \in Indexed /\ Len(todo) > DataCount(row) /\ todo[1] # "fixup"

Types ==
  /\ row \in OPCODES \cup Lifecycle
  /\ todo \in Seq(Places)
  /\ made \in Nat /\ extra \in Nat /\ touched \in Nat

(* The data accesses of an indexed mode come last, and a fix-up is the     *)
(* access before them.                                                     *)
IndexedShape ==
  row.mode \in Indexed =>
    /\ \A i \in 1 .. Len(todo) : todo[i] = "data" <=> i > Len(todo) - DataCount(row)
    /\ \A i \in 1 .. Len(todo) : todo[i] = "fixup" => i = 1 /\ Len(todo) = DataCount(row) + 1

(* What the step has made and still has to make, against what it returns.  *)
BranchOwed ==
  /\ extra = 0 /\ todo[Len(todo)] \in {"operand", "next", "page"}
  /\ \A i \in 1 .. Len(todo) : todo[i] = "page" => i = Len(todo)
  /\ made + Len(todo) = row.cycles + 1 + BranchExtra(todo[Len(todo)])

ReadOwed ==
  IF todo[1] = "fixup" THEN extra = 0 /\ made + Len(todo) = row.cycles + 2
  ELSE made + Len(todo) = row.cycles + 1 + extra /\ (Pending => extra = 0)

WriteOwed ==
  extra = 0 /\ made + Len(todo) = row.cycles + (IF Pending THEN 0 ELSE 1)

OtherOwed ==
  extra = 0 /\ made + Len(todo) = row.cycles + 1

Owed ==
  ~ BetweenSteps =>
    /\ row.family = "branch" => BranchOwed
    /\ row.mode \in IndexedReads => ReadOwed
    /\ row.mode \in IndexedWrites => WriteOwed
    /\ (row.family # "branch" /\ row.mode \notin Indexed) => OtherOwed

(* _extra is left over only by a step that was cut short. *)
ExtraIsSpent ==
  /\ BetweenSteps /\ ~ spoiled => extra = 0
  /\ ~ BetweenSteps => ~ spoiled
  /\ spoiled => HostRaises

Expected ==
  DataCount(row) + (IF row.mode \in IndexedWrites /\ PageOf(base) = PageOf(ea) THEN 1 ELSE 0)

(* The accesses at the operand, made and to be made. *)
Touches ==
  (~ BetweenSteps /\ row.mode \in Indexed /\ ~ Pending) =>
    IF row.family = "unstable" /\ PageOf(base) # PageOf(ea)
    THEN touched + Len(todo) <= 2
    ELSE touched + Len(todo) = Expected + 1

CountInv == Types /\ IndexedShape /\ Owed /\ ExtraIsSpent /\ CyclesAreAccesses
TouchInv == Types /\ IndexedShape /\ Touches /\ OperandTouchedOnce
-----------------------------------------------------------------------------
(* The rows of the map, and how long their parts are. *)
Modes == {"imm", "none", "zp", "zpx", "zpy", "abs", "abx", "aby", "abx_w", "aby_w",
          "izx", "izy", "izy_w"}

BodyLength(family) ==
  CASE family = "idle" -> 0
    [] family \in {"read", "write", "unstable", "implied"} -> 1
    [] family \in {"push", "jmp"} -> 2
    [] family \in {"modify", "pull"} -> 3
    [] family = "jmp_ind" -> 4
    [] family \in {"jsr", "rts", "rti", "enter", "reset"} -> 5
    [] family = "brk" -> 6
    [] family = "jam" -> 10

DataRows == ReadRows \cup WriteRows \cup ModifyRows \cup UnstableRows

LEMMA DataRowsAre ==
  ASSUME NEW r \in DataRows
  PROVE  /\ r.family \in {"read", "write", "modify", "unstable"} /\ r.mode \in Modes \ {"none"}
         /\ r.cycles = 1 + ModeLength(r.mode) + DataCount(r)
                         + (IF r.mode \in IndexedWrites THEN 1 ELSE 0)
<1>1. CASE r \in ReadRows
  BY <1>1 DEF ReadRows, Row, Modes, ModeLength, DataCount, IndexedWrites
<1>2. CASE r \in WriteRows
  BY <1>2 DEF WriteRows, Row, Modes, ModeLength, DataCount, IndexedWrites
<1>3. CASE r \in ModifyRows
  BY <1>3 DEF ModifyRows, Row, Modes, ModeLength, DataCount, IndexedWrites
<1>4. CASE r \in UnstableRows
  BY <1>4 DEF UnstableRows, Row, Modes, ModeLength, DataCount, IndexedWrites
<1> QED
  BY <1>1, <1>2, <1>3, <1>4 DEF DataRows

LEMMA OtherRowsAre ==
  ASSUME NEW r \in OwnRows \cup Lifecycle
  PROVE  /\ r.mode = "none"
         /\ r.family \in {"implied", "branch", "push", "pull", "jmp", "jmp_ind", "jsr", "rts",
                          "rti", "brk", "jam", "enter", "reset", "idle"}
         /\ r.family = "branch" => r.cycles = 2
         /\ r.family # "branch" =>
              r.cycles = (IF r.family \in {"enter", "reset"} THEN 2 ELSE 1)
                            + BodyLength(r.family)
<1>1. CASE r \in OwnRows
  BY <1>1 DEF OwnRows, Row, BodyLength
<1>2. CASE r \in Lifecycle
  BY <1>2 DEF Lifecycle, Row, BodyLength
<1> QED
  BY <1>1, <1>2

(* Sequences of the few accesses that each part of a row has. *)
LEMMA TuplesAre ==
  ASSUME NEW S
  PROVE  /\ <<>> \in Seq(S) /\ Len(<<>>) = 0
         /\ \A a \in S : <<a>> \in Seq(S) /\ Len(<<a>>) = 1
         /\ \A a, b \in S : <<a, b>> \in Seq(S) /\ Len(<<a, b>>) = 2
         /\ \A a, b, c \in S : <<a, b, c>> \in Seq(S) /\ Len(<<a, b, c>>) = 3
         /\ \A a, b, c, d \in S : <<a, b, c, d>> \in Seq(S) /\ Len(<<a, b, c, d>>) = 4
         /\ \A a, b, c, d, e \in S : <<a, b, c, d, e>> \in Seq(S) /\ Len(<<a, b, c, d, e>>) = 5
         /\ \A a, b, c, d, e, f \in S :
              <<a, b, c, d, e, f>> \in Seq(S) /\ Len(<<a, b, c, d, e, f>>) = 6
OBVIOUS

LEMMA ModeAccessesAre ==
  ASSUME NEW mode \in Modes
  PROVE  ModeAccesses(mode) \in Seq(Leading) /\ Len(ModeAccesses(mode)) = ModeLength(mode)
<1>0. "operand" \in Leading /\ "unindexed" \in Leading /\ "pointer" \in Leading
  BY DEF Leading
<1>1. CASE mode \in {"imm", "none"}
  <2>1. ModeAccesses(mode) = <<>> /\ ModeLength(mode) = 0
    BY <1>1 DEF ModeAccesses, ModeLength
  <2> QED
    BY <1>0, <2>1, TuplesAre
<1>2. CASE mode = "zp"
  <2>1. ModeAccesses(mode) = <<"operand">> /\ ModeLength(mode) = 1
    BY <1>2 DEF ModeAccesses, ModeLength
  <2> QED
    BY <1>0, <2>1, TuplesAre
<1>3. CASE mode \in {"zpx", "zpy"}
  <2>1. ModeAccesses(mode) = <<"operand", "unindexed">> /\ ModeLength(mode) = 2
    BY <1>3 DEF ModeAccesses, ModeLength
  <2> QED
    BY <1>0, <2>1, TuplesAre
<1>4. CASE mode \in {"abs", "abx", "aby", "abx_w", "aby_w"}
  <2>1. ModeAccesses(mode) = <<"operand", "operand">> /\ ModeLength(mode) = 2
    BY <1>4 DEF ModeAccesses, ModeLength
  <2> QED
    BY <1>0, <2>1, TuplesAre
<1>5. CASE mode = "izx"
  <2>1. ModeAccesses(mode) = <<"operand", "unindexed", "pointer", "pointer">> /\ ModeLength(mode) = 4
    BY <1>5 DEF ModeAccesses, ModeLength
  <2> QED
    BY <1>0, <2>1, TuplesAre
<1>6. CASE mode \in {"izy", "izy_w"}
  <2>1. ModeAccesses(mode) = <<"operand", "pointer", "pointer">> /\ ModeLength(mode) = 3
    BY <1>6 DEF ModeAccesses, ModeLength
  <2> QED
    BY <1>0, <2>1, TuplesAre
<1> QED
  BY <1>1, <1>2, <1>3, <1>4, <1>5, <1>6 DEF Modes

LEMMA DataBodiesAre ==
  ASSUME NEW r \in DataRows, NEW body \in Bodies(r.family)
  PROVE  /\ body \in Seq({"data"}) /\ Len(body) = DataCount(r)
         /\ \A i \in 1 .. Len(body) : body[i] = "data"
<1>1. body \in Seq({"data"}) /\ Len(body) = DataCount(r)
  <2>1. CASE r.family = "modify"
    <3>1. body = <<"data", "data", "data">> /\ DataCount(r) = 3
      BY <2>1 DEF Bodies, DataCount
    <3> QED
      BY <3>1, TuplesAre
  <2>2. CASE r.family \in {"read", "write", "unstable"}
    <3>1. body = <<"data">> /\ DataCount(r) = 1
      BY <2>2 DEF Bodies, DataCount
    <3> QED
      BY <3>1, TuplesAre
  <2> QED
    BY <2>1, <2>2, DataRowsAre
<1> QED
  BY <1>1

LEMMA OtherBodiesAre ==
  ASSUME NEW r \in OwnRows \cup Lifecycle, r.family # "branch", NEW body \in Bodies(r.family)
  PROVE  body \in Seq(Places) /\ Len(body) = BodyLength(r.family)
<1>0. /\ "next" \in Places /\ "stack" \in Places /\ "operand" \in Places /\ "pointer" \in Places
      /\ "pulled" \in Places /\ "vector" \in Places
  BY DEF Places
<1>1. CASE r.family = "implied"
  <2>1. body = <<"next">> /\ BodyLength(r.family) = 1
    BY <1>1 DEF Bodies, BodyLength
  <2> QED
    BY <1>0, <2>1, TuplesAre
<1>2. CASE r.family = "push"
  <2>1. body = <<"next", "stack">> /\ BodyLength(r.family) = 2
    BY <1>2 DEF Bodies, BodyLength
  <2> QED
    BY <1>0, <2>1, TuplesAre
<1>3. CASE r.family = "pull"
  <2>1. body = <<"next", "stack", "stack">> /\ BodyLength(r.family) = 3
    BY <1>3 DEF Bodies, BodyLength
  <2> QED
    BY <1>0, <2>1, TuplesAre
<1>4. CASE r.family = "jmp"
  <2>1. body = <<"operand", "operand">> /\ BodyLength(r.family) = 2
    BY <1>4 DEF Bodies, BodyLength
  <2> QED
    BY <1>0, <2>1, TuplesAre
<1>5. CASE r.family = "jmp_ind"
  <2>1. body = <<"operand", "operand", "pointer", "pointer">> /\ BodyLength(r.family) = 4
    BY <1>5 DEF Bodies, BodyLength
  <2> QED
    BY <1>0, <2>1, TuplesAre
<1>6. CASE r.family \in {"jsr", "rts", "rti"}
  <2>1. CASE r.family = "jsr"
    <3>1. body = <<"operand", "stack", "stack", "stack", "operand">> /\ BodyLength(r.family) = 5
      BY <2>1 DEF Bodies, BodyLength
    <3> QED
      BY <1>0, <3>1, TuplesAre
  <2>2. CASE r.family = "rts"
    <3>1. body = <<"next", "stack", "stack", "stack", "pulled">> /\ BodyLength(r.family) = 5
      BY <2>2 DEF Bodies, BodyLength
    <3> QED
      BY <1>0, <3>1, TuplesAre
  <2>3. CASE r.family = "rti"
    <3>1. body = <<"next", "stack", "stack", "stack", "stack">> /\ BodyLength(r.family) = 5
      BY <2>3 DEF Bodies, BodyLength
    <3> QED
      BY <1>0, <3>1, TuplesAre
  <2> QED
    BY <1>6, <2>1, <2>2, <2>3
<1>7. CASE r.family = "brk"
  <2>1. body = <<"operand", "stack", "stack", "stack", "vector", "vector">> /\ BodyLength(r.family) = 6
    BY <1>7 DEF Bodies, BodyLength
  <2> QED
    BY <1>0, <2>1, TuplesAre
<1>8. CASE r.family \in {"enter", "reset"}
  <2>1. body = <<"stack", "stack", "stack", "vector", "vector">> /\ BodyLength(r.family) = 5
    BY <1>8 DEF Bodies, BodyLength
  <2> QED
    BY <1>0, <2>1, TuplesAre
<1>9. CASE r.family = "idle"
  <2>1. body = <<>> /\ BodyLength(r.family) = 0
    BY <1>9 DEF Bodies, BodyLength
  <2> QED
    BY <1>0, <2>1, TuplesAre
<1>10. CASE r.family = "jam"
  <2> DEFINE jams == [k \in 1..JAM_READS |-> "jam"]
  <2>1. <<"next">> \in Seq(Places) /\ Len(<<"next">>) = 1
    BY <1>0, TuplesAre
  <2>2. jams \in Seq(Places) /\ Len(jams) = 9
    BY DEF JAM_READS, Places
  <2>3. body = <<"next">> \o jams /\ BodyLength(r.family) = 10
    BY <1>10 DEF Bodies, BodyLength
  <2> HIDE DEF jams
  <2>4. <<"next">> \o jams \in Seq(Places) /\ Len(<<"next">> \o jams) = Len(<<"next">>) + Len(jams)
    BY <2>1, <2>2, ConcatProperties
  <2>5. Len(body) = 1 + 9
    BY <2>1, <2>2, <2>3, <2>4
  <2> QED
    BY <2>3, <2>4, <2>5
<1> QED
  BY <1>1, <1>2, <1>3, <1>4, <1>5, <1>6, <1>7, <1>8, <1>9, <1>10, OtherRowsAre

(* The accesses of a row, as its step begins. *)
LEMMA StepsAre ==
  ASSUME NEW r \in OPCODES \cup Lifecycle, NEW body \in Bodies(r.family),
         NEW t, t = Opening(r) \o body
  PROVE  /\ t \in Seq(Places) /\ Len(t) \in Nat /\ Len(t) > 0 /\ r.cycles \in Nat
         /\ r.family = "branch" =>
              /\ t[Len(t)] \in {"operand", "next", "page"}
              /\ \A i \in 1 .. Len(t) : t[i] = "page" => i = Len(t)
              /\ Len(t) = r.cycles + BranchExtra(t[Len(t)])
         /\ r.mode \in Indexed =>
              /\ r.family # "branch" /\ Len(t) > DataCount(r)
              /\ \A i \in 1 .. Len(t) : t[i] = "data" <=> i > Len(t) - DataCount(r)
              /\ \A i \in 1 .. Len(t) : t[i] # "fixup"
         /\ r.family # "branch" =>
              Len(t) = r.cycles - (IF r.mode \in IndexedWrites THEN 1 ELSE 0)
<1>1. CASE r \in DataRows
  <2>1. /\ Opening(r) = <<"opcode">> \o ModeAccesses(r.mode)
        /\ r.family \notin {"enter", "reset", "idle", "branch"}
    BY <1>1, DataRowsAre DEF Opening
  <2>2. /\ ModeAccesses(r.mode) \in Seq(Leading)
        /\ Len(ModeAccesses(r.mode)) = ModeLength(r.mode) /\ ModeLength(r.mode) \in Nat
    BY <1>1, DataRowsAre, ModeAccessesAre
  <2>3. <<"opcode">> \in Seq(Leading) /\ Len(<<"opcode">>) = 1
    BY DEF Leading
  <2>4. Opening(r) \in Seq(Leading) /\ Len(Opening(r)) = 1 + ModeLength(r.mode)
    BY <2>1, <2>2, <2>3, ConcatProperties
  <2>5. body \in Seq({"data"}) /\ Len(body) = DataCount(r) /\ \A i \in 1 .. Len(body) : body[i] = "data"
    BY <1>1, DataBodiesAre
  <2>6. DataCount(r) \in Nat /\ DataCount(r) > 0
    BY DEF DataCount
  <2>7. Opening(r) \in Seq(Places) /\ body \in Seq(Places)
    BY <2>4, <2>5 DEF Leading, Places
  <2>8. /\ t \in Seq(Places) /\ Len(t) = 1 + ModeLength(r.mode) + DataCount(r)
        /\ \A i \in 1 .. Len(t) : t[i] = IF i <= 1 + ModeLength(r.mode) THEN Opening(r)[i]
                                        ELSE body[i - (1 + ModeLength(r.mode))]
    BY <2>4, <2>5, <2>7, ConcatProperties
  <2>9. \A i \in 1 .. Len(t) : /\ t[i] = "data" <=> i > 1 + ModeLength(r.mode)
                               /\ t[i] # "fixup"
    <3>1. TAKE i \in 1 .. Len(t)
    <3>2. CASE i <= 1 + ModeLength(r.mode)
      <4>1. Opening(r)[i] \in Leading
        BY <2>2, <2>4, <3>2
      <4> QED
        BY <2>2, <2>8, <3>2, <4>1 DEF Leading
    <3>3. CASE i > 1 + ModeLength(r.mode)
      <4>1. i - (1 + ModeLength(r.mode)) \in 1 .. Len(body)
        BY <2>2, <2>5, <2>6, <2>8, <3>3
      <4>2. t[i] = "data"
        BY <2>2, <2>5, <2>8, <3>3, <4>1
      <4> QED
        BY <3>3, <4>2
    <3> QED
      BY <2>2, <3>2, <3>3
  <2>10. r.cycles = 1 + ModeLength(r.mode) + DataCount(r)
                      + (IF r.mode \in IndexedWrites THEN 1 ELSE 0)
    BY <1>1, DataRowsAre
  <2>11. /\ Len(t) \in Nat /\ Len(t) > 0 /\ r.cycles \in Nat /\ Len(t) > DataCount(r)
         /\ Len(t) = r.cycles - (IF r.mode \in IndexedWrites THEN 1 ELSE 0)
         /\ 1 + ModeLength(r.mode) = Len(t) - DataCount(r)
    BY <2>2, <2>6, <2>8, <2>10
  <2>12. \A i \in 1 .. Len(t) : t[i] = "data" <=> i > Len(t) - DataCount(r)
    BY <2>9, <2>11
  <2> QED
    BY <2>1, <2>8, <2>9, <2>11, <2>12
<1>2. CASE r \in OwnRows \cup Lifecycle /\ r.family # "branch"
  <2>1. r.mode = "none" /\ r.mode \notin Indexed /\ r.mode \notin IndexedWrites
    BY <1>2, OtherRowsAre DEF Indexed, IndexedReads, IndexedWrites
  <2>2. body \in Seq(Places) /\ Len(body) = BodyLength(r.family)
    BY <1>2, OtherBodiesAre
  <2>3. BodyLength(r.family) \in Nat
    BY <2>2
  <2>4. /\ Opening(r) \in Seq(Places)
        /\ Len(Opening(r)) = IF r.family \in {"enter", "reset"} THEN 2 ELSE 1
    <3>1. CASE r.family \in {"enter", "reset"}
      <4>1. Opening(r) = <<"discarded", "discarded">>
        BY <3>1 DEF Opening
      <4> QED
        BY <3>1, <4>1, TuplesAre DEF Places
    <3>2. CASE r.family = "idle"
      <4>1. Opening(r) = <<"idle">>
        BY <3>2 DEF Opening
      <4> QED
        BY <3>2, <4>1, TuplesAre DEF Places
    <3>3. CASE r.family \notin {"enter", "reset", "idle"}
      <4>1. Opening(r) = <<"opcode">> \o <<>>
        BY <2>1, <3>3 DEF Opening, ModeAccesses
      <4> QED
        BY <3>3, <4>1 DEF Places
    <3> QED
      BY <3>1, <3>2, <3>3
  <2>5. t \in Seq(Places) /\ Len(t) = Len(Opening(r)) + Len(body)
    BY <2>2, <2>4, ConcatProperties
  <2> QED
    BY <1>2, <2>1, <2>2, <2>3, <2>4, <2>5, OtherRowsAre
<1>3. CASE r \in OwnRows \cup Lifecycle /\ r.family = "branch"
  <2>1. r.mode = "none" /\ r.cycles = 2 /\ r.mode \notin Indexed
    BY <1>3, OtherRowsAre DEF Indexed, IndexedReads, IndexedWrites
  <2>2. Opening(r) = <<"opcode">>
    <3>1. Opening(r) = <<"opcode">> \o <<>>
      BY <1>3, <2>1 DEF Opening, ModeAccesses
    <3> QED
      BY <3>1
  <2>3. body \in {<<"operand">>, <<"operand", "next">>, <<"operand", "next", "page">>}
    BY <1>3 DEF Bodies
  <2>4. "operand" \in Places /\ "next" \in Places /\ "page" \in Places /\ "opcode" \in Places
    BY DEF Places
  <2>5. /\ body \in Seq(Places) /\ Len(body) \in 1 .. 3
        /\ body[Len(body)] \in {"operand", "next", "page"}
        /\ \A i \in 1 .. Len(body) : body[i] = "page" => i = Len(body)
        /\ Len(body) = 1 + BranchExtra(body[Len(body)])
    <3>1. CASE body = <<"operand">>
      BY <2>4, <3>1, TuplesAre DEF BranchExtra
    <3>2. CASE body = <<"operand", "next">>
      <4>1. body \in Seq(Places) /\ Len(body) = 2
        BY <2>4, <3>2, TuplesAre
      <4>2. /\ body[Len(body)] = "next" /\ BranchExtra(body[Len(body)]) = 1
        BY <3>2, <4>1 DEF BranchExtra
      <4>3. \A i \in 1 .. Len(body) : body[i] = "page" => i = Len(body)
        BY <3>2, <4>1
      <4> QED
        BY <4>1, <4>2, <4>3
    <3>3. CASE body = <<"operand", "next", "page">>
      <4>1. body \in Seq(Places) /\ Len(body) = 3
        BY <2>4, <3>3, TuplesAre
      <4>2. /\ body[Len(body)] = "page" /\ BranchExtra(body[Len(body)]) = 2
        BY <3>3, <4>1 DEF BranchExtra
      <4>3. \A i \in 1 .. Len(body) : body[i] = "page" => i = Len(body)
        BY <3>3, <4>1
      <4> QED
        BY <4>1, <4>2, <4>3
    <3> QED
      BY <2>3, <3>1, <3>2, <3>3
  <2>6. <<"opcode">> \in Seq(Places) /\ Len(<<"opcode">>) = 1
    BY <2>4, TuplesAre
  <2>7. /\ t \in Seq(Places) /\ Len(t) = 1 + Len(body)
        /\ t[1 + Len(body)] = body[Len(body)]
        /\ t[1] = "opcode" /\ \A i \in 2 .. Len(t) : t[i] = body[i - 1]
    BY <2>2, <2>5, <2>6, ConcatProperties
  <2>8. Len(t) = r.cycles + BranchExtra(t[Len(t)]) /\ t[Len(t)] \in {"operand", "next", "page"}
    <3>1. t[Len(t)] = body[Len(body)]
      BY <2>7
    <3>2. BranchExtra(body[Len(body)]) \in Nat
      BY <2>5 DEF BranchExtra
    <3> QED
      BY <2>1, <2>5, <2>7, <3>1, <3>2
  <2>9. Len(t) \in Nat /\ Len(t) > 0 /\ r.cycles \in Nat
    BY <2>1, <2>5, <2>7
  <2>10. \A i \in 1 .. Len(t) : t[i] = "page" => i = Len(t)
    <3>1. ASSUME NEW i \in 1 .. Len(t), t[i] = "page" PROVE i = Len(t)
      <4>1. i # 1
        BY <2>7, <3>1
      <4>2. i - 1 \in 1 .. Len(body) /\ body[i - 1] = "page"
        BY <2>5, <2>7, <3>1, <4>1
      <4>3. i - 1 = Len(body)
        BY <2>5, <4>2
      <4> QED
        BY <2>5, <2>7, <3>1, <4>3
    <3> QED
      BY <3>1
  <2> QED
    BY <1>3, <2>1, <2>7, <2>8, <2>9, <2>10
<1> QED
  BY <1>1, <1>2, <1>3 DEF OPCODES, DataRows

(* The rows a step may be in. *)
LEMMA RowIs ==
  ASSUME NEW r \in OPCODES \cup Lifecycle
  PROVE  /\ r.cycles \in Nat /\ DataCount(r) \in 1 .. 3
         /\ r.mode \in Indexed => r.family # "branch"
         /\ r.mode \in IndexedReads => r.mode \in Indexed /\ r.mode \notin IndexedWrites
         /\ r.mode \in IndexedWrites => r.mode \in Indexed /\ r.mode \notin IndexedReads
         /\ r.mode \in Indexed => r.mode \in IndexedReads \/ r.mode \in IndexedWrites
<1>1. DataCount(r) \in 1 .. 3
  BY DEF DataCount
<1>2. r.mode \in Indexed => r.family # "branch"
  <2>1. CASE r \in DataRows
    BY <2>1, DataRowsAre
  <2>2. CASE r \in OwnRows \cup Lifecycle
    BY <2>2, OtherRowsAre DEF Indexed, IndexedReads, IndexedWrites
  <2> QED
    BY <2>1, <2>2 DEF OPCODES, DataRows
<1>3. r.cycles \in Nat
  BY DEF OPCODES, ReadRows, WriteRows, ModifyRows, UnstableRows, OwnRows, Lifecycle, Row
<1> QED
  BY <1>1, <1>2, <1>3 DEF Indexed, IndexedReads, IndexedWrites

LEMMA TodoIs ==
  ASSUME Types, ~ BetweenSteps
  PROVE  /\ Len(todo) \in Nat /\ Len(todo) > 0 /\ Access = todo[1]
         /\ Tail(todo) \in Seq(Places) /\ Len(Tail(todo)) = Len(todo) - 1
         /\ \A i \in 1 .. Len(todo) - 1 : Tail(todo)[i] = todo[i + 1]
         /\ Len(todo) > 1 => Tail(todo) # <<>>
BY DEF Types, BetweenSteps, Access

(* The shape of what is left, as the step begins and goes on. *)
LEMMA BeginShapes ==
  ASSUME Types, NEW r \in OPCODES \cup Lifecycle, NEW body \in Bodies(r.family), Begin(r, body)
  PROVE  Types' /\ IndexedShape' /\ ~ BetweenSteps'
           /\ (row'.mode \in Indexed => Pending')
<1>1. todo' = Opening(r) \o body /\ row' = r /\ made' = 1 /\ touched' = 0 /\ extra' = extra
  BY DEF Begin
<1>2. /\ todo' \in Seq(Places) /\ Len(todo') > 0 /\ Len(todo') \in Nat
      /\ r.mode \in Indexed =>
           /\ Len(todo') > DataCount(r)
           /\ \A i \in 1 .. Len(todo') : todo'[i] = "data" <=> i > Len(todo') - DataCount(r)
           /\ \A i \in 1 .. Len(todo') : todo'[i] # "fixup"
  BY <1>1, StepsAre
<1>3. Types'
  BY <1>1, <1>2 DEF Types
<1>4. IndexedShape' /\ ~ BetweenSteps'
  BY <1>1, <1>2 DEF IndexedShape, BetweenSteps
<1>5. row'.mode \in Indexed => Pending'
  BY <1>1, <1>2 DEF Pending
<1> QED
  BY <1>3, <1>4, <1>5

LEMMA ContinueShapes ==
  ASSUME Types, IndexedShape, Continue
  PROVE  /\ Types' /\ IndexedShape' /\ ~ BetweenSteps'
         /\ row' = row /\ made' = made + 1 /\ Len(todo') = Len(todo) - 1
         /\ todo' = Tail(todo)
         /\ row.mode \in Indexed =>
              /\ todo'[1] # "fixup"
              /\ Pending' <=> Pending
              /\ (Access = "fixup" \/ todo[2] = "data") <=> ~ Pending
<1>1. /\ todo' = Tail(todo) /\ Len(todo) > 1 /\ ~ BetweenSteps /\ ~ Indexes
      /\ row' = row /\ made' = made + 1
  BY DEF Continue
<1>2. /\ Len(todo) \in Nat /\ Access = todo[1]
      /\ todo' \in Seq(Places) /\ Len(todo') = Len(todo) - 1 /\ todo' # <<>>
      /\ \A i \in 1 .. Len(todo) - 1 : todo'[i] = todo[i + 1]
  BY <1>1, TodoIs
<1>3. DataCount(row) \in 1 .. 3
  BY RowIs DEF Types
<1>4. touched' \in Nat /\ extra' \in Nat
  BY DEF Continue, AtOperand, ExtraAfter, Types
<1>5. Types'
  BY <1>1, <1>2, <1>4 DEF Types
<1>6. ASSUME row.mode \in Indexed
      PROVE  /\ \A i \in 1 .. Len(todo') : todo'[i] = "data" <=> i > Len(todo') - DataCount(row)
             /\ \A i \in 1 .. Len(todo') : todo'[i] # "fixup"
             /\ Pending' <=> Pending
             /\ (Access = "fixup" \/ todo[2] = "data") <=> ~ Pending
  <2>1. /\ \A i \in 1 .. Len(todo) : todo[i] = "data" <=> i > Len(todo) - DataCount(row)
        /\ \A i \in 1 .. Len(todo) : todo[i] = "fixup" => i = 1 /\ Len(todo) = DataCount(row) + 1
    BY <1>6 DEF IndexedShape
  <2>2. \A i \in 1 .. Len(todo') : i + 1 \in 1 .. Len(todo) /\ todo'[i] = todo[i + 1]
    BY <1>1, <1>2
  <2>3. \A i \in 1 .. Len(todo') : todo'[i] = "data" <=> i > Len(todo') - DataCount(row)
    BY <1>2, <1>3, <2>1, <2>2
  <2>4. \A i \in 1 .. Len(todo') : todo'[i] # "fixup"
    BY <1>2, <2>1, <2>2
  <2>5. 1 \in 1 .. Len(todo) /\ 2 \in 1 .. Len(todo)
    BY <1>1, <1>2
  <2>6. ~ (Access # "fixup" /\ Access # "data" /\ todo[2] = "data")
    BY <1>1, <1>6 DEF Indexes
  <2>7. (Access = "fixup" \/ todo[2] = "data") <=> ~ Pending
    BY <1>2, <1>3, <1>6, <2>1, <2>5, <2>6 DEF Pending
  <2>8. Pending' <=> Pending
    <3>1. Pending' <=> Len(todo') > DataCount(row)
      <4>1. todo'[1] # "fixup" /\ row'.mode \in Indexed
        <5>1. 1 \in 1 .. Len(todo')
          BY <1>1, <1>2
        <5> QED
          BY <1>1, <1>6, <2>4, <5>1
      <4> QED
        BY <1>1, <4>1 DEF Pending
    <3>2. CASE Pending
      <4>1. todo[2] # "data"
        BY <2>7, <3>2
      <4>2. 2 <= Len(todo) - DataCount(row)
        BY <1>2, <1>3, <2>1, <2>5, <4>1
      <4> QED
        BY <1>2, <1>3, <3>1, <3>2, <4>2
    <3>3. CASE ~ Pending
      <4>1. Len(todo) <= DataCount(row) + 1
        BY <1>2, <1>3, <1>6, <2>1, <2>5, <3>3 DEF Pending
      <4> QED
        BY <1>2, <1>3, <3>1, <3>3, <4>1
    <3> QED
      BY <3>2, <3>3
  <2> QED
    BY <2>3, <2>4, <2>7, <2>8
<1>7. 1 \in 1 .. Len(todo')
  BY <1>1, <1>2
<1>8. IndexedShape'
  BY <1>1, <1>6 DEF IndexedShape
<1> QED
  BY <1>1, <1>2, <1>5, <1>6, <1>7, <1>8 DEF BetweenSteps

LEMMA IndexShapes ==
  ASSUME Types, IndexedShape, ~ BetweenSteps, NEW b \in Addresses, NEW i \in Bytes, Index(b, i)
  PROVE  /\ Types' /\ IndexedShape' /\ ~ BetweenSteps'
         /\ row.mode \in Indexed /\ Pending /\ ~ Pending' /\ todo[1] # "fixup"
         /\ row' = row /\ made' = made + 1 /\ extra' = extra
         /\ base' = b /\ Len(todo) = DataCount(row) + 1
         /\ IF FixesUp(base', ea')
            THEN todo'[1] = "fixup" /\ Len(todo') = Len(todo)
            ELSE todo'[1] # "fixup" /\ Len(todo') = Len(todo) - 1
<1>1. /\ row.mode \in Indexed /\ Len(todo) > 1 /\ todo[2] = "data"
      /\ Access # "fixup" /\ Access # "data"
      /\ row' = row /\ made' = made + 1 /\ extra' = extra /\ base' = b
      /\ todo' = IF FixesUp(base', ea') THEN <<"fixup">> \o Tail(todo) ELSE Tail(todo)
  BY DEF Index, Indexes
<1>2. /\ Len(todo) \in Nat /\ Access = todo[1]
      /\ Tail(todo) \in Seq(Places) /\ Len(Tail(todo)) = Len(todo) - 1
      /\ \A j \in 1 .. Len(todo) - 1 : Tail(todo)[j] = todo[j + 1]
  BY TodoIs
<1>3. DataCount(row) \in 1 .. 3
  BY RowIs DEF Types
<1>4. \A j \in 1 .. Len(todo) : todo[j] = "data" <=> j > Len(todo) - DataCount(row)
  BY <1>1 DEF IndexedShape
<1>5. Len(todo) = DataCount(row) + 1
  <2>1. 1 \in 1 .. Len(todo) /\ 2 \in 1 .. Len(todo)
    BY <1>1, <1>2
  <2>2. 2 > Len(todo) - DataCount(row) /\ ~ (1 > Len(todo) - DataCount(row))
    BY <1>1, <1>2, <1>4, <2>1
  <2> QED
    BY <1>2, <1>3, <2>2
<1>6. Pending
  BY <1>1, <1>2, <1>3, <1>5 DEF Pending
<1>7. \A j \in 1 .. Len(Tail(todo)) : Tail(todo)[j] = "data"
  BY <1>2, <1>3, <1>4, <1>5
<1>8. CASE FixesUp(base', ea')
  <2>1. <<"fixup">> \in Seq(Places) /\ Len(<<"fixup">>) = 1
    BY TuplesAre DEF Places
  <2>2. /\ todo' \in Seq(Places) /\ Len(todo') = Len(todo) /\ todo'[1] = "fixup"
        /\ \A j \in 2 .. Len(todo) : todo'[j] = Tail(todo)[j - 1]
    BY <1>1, <1>2, <1>8, <2>1, ConcatProperties
  <2>3. \A j \in 2 .. Len(todo) : todo'[j] = "data"
    BY <1>2, <1>7, <2>2
  <2>4. \A j \in 1 .. Len(todo') : /\ todo'[j] = "data" <=> j > Len(todo') - DataCount(row)
                                   /\ todo'[j] = "fixup" => j = 1
    <3>1. TAKE j \in 1 .. Len(todo')
    <3>2. CASE j = 1
      BY <1>3, <1>5, <2>2, <3>2
    <3>3. CASE j # 1
      <4>1. j \in 2 .. Len(todo)
        BY <1>2, <2>2, <3>3
      <4>2. todo'[j] = "data"
        BY <2>3, <4>1
      <4>3. j > Len(todo') - DataCount(row)
        BY <1>2, <1>3, <1>5, <2>2, <4>1
      <4> QED
        BY <4>2, <4>3
    <3> QED
      BY <3>2, <3>3
  <2>5. IndexedShape'
    <3>1. DataCount(row') = DataCount(row) /\ Len(todo') = DataCount(row) + 1
      BY <1>1, <1>5, <2>2
    <3>2. \A j \in 1 .. Len(todo') :
            /\ todo'[j] = "data" <=> j > Len(todo') - DataCount(row')
            /\ todo'[j] = "fixup" => j = 1 /\ Len(todo') = DataCount(row') + 1
      BY <1>2, <1>3, <2>2, <2>4, <3>1
    <3> QED
      BY <3>2 DEF IndexedShape
  <2>6. ~ Pending' /\ ~ BetweenSteps'
    BY <1>1, <2>2 DEF Pending, BetweenSteps
  <2>7. Types'
    BY <1>1, <2>2 DEF Types, Index
  <2> QED
    BY <1>1, <1>2, <1>5, <1>6, <1>8, <2>2, <2>5, <2>6, <2>7
<1>9. CASE ~ FixesUp(base', ea')
  <2>1. todo' = Tail(todo) /\ todo' \in Seq(Places) /\ Len(todo') = DataCount(row) /\ todo' # <<>>
    BY <1>1, <1>2, <1>3, <1>5, <1>9
  <2>2. \A j \in 1 .. Len(todo') : todo'[j] = "data" /\ j > Len(todo') - DataCount(row)
    BY <1>3, <1>7, <2>1
  <2>3. 1 \in 1 .. Len(todo')
    BY <1>3, <2>1
  <2>4. IndexedShape'
    BY <1>1, <2>2 DEF IndexedShape
  <2>5. ~ Pending' /\ ~ BetweenSteps'
    BY <1>1, <1>3, <2>1 DEF Pending, BetweenSteps
  <2>6. Types'
    BY <1>1, <2>1 DEF Types, Index
  <2> QED
    BY <1>1, <1>2, <1>5, <1>6, <1>9, <2>1, <2>2, <2>3, <2>4, <2>5, <2>6
<1> QED
  BY <1>8, <1>9

(* The last access, of any row. *)
LEMMA ReturnShapes ==
  ASSUME Types, IndexedShape, Return
  PROVE  /\ Types' /\ IndexedShape' /\ BetweenSteps' /\ ~ BetweenSteps /\ ~ Pending
         /\ Len(todo) = 1 /\ Access = todo[1] /\ row' = row /\ made' = made
         /\ row.mode \in Indexed => todo[1] = "data"
<1>1. Len(todo) = 1 /\ todo' = <<>> /\ row' = row /\ made' = made /\ touched' = touched
  BY DEF Return
<1>2. DataCount(row) \in 1 .. 3
  BY RowIs DEF Types
<1>3. row.mode \in Indexed => todo[1] = "data"
  BY <1>1, <1>2 DEF IndexedShape
<1>4. extra' \in Nat
  BY DEF Return, ExtraAfter, Types
<1>5. Types' /\ IndexedShape' /\ BetweenSteps' /\ ~ BetweenSteps
  BY <1>1, <1>4 DEF Types, IndexedShape, BetweenSteps
<1>6. ~ Pending
  BY <1>1, <1>2 DEF Pending
<1> QED
  BY <1>1, <1>3, <1>5, <1>6 DEF Access

(* A step that is cut short, or a state restored, ends in no access.       *)
LEMMA EmptyShapes ==
  ASSUME Types, Raise \/ RestoreState
  PROVE  Types' /\ IndexedShape' /\ BetweenSteps' /\ row' = row /\ made' = made
<1>1. todo' = <<>> /\ row' = row /\ made' = made /\ touched' = touched /\ extra' \in Nat
  BY DEF Raise, RestoreState, Types, BetweenSteps
<1>2. BetweenSteps' /\ \A i \in 1 .. Len(todo') : FALSE
  BY <1>1 DEF BetweenSteps
<1>3. IndexedShape'
  BY <1>2 DEF IndexedShape
<1>4. Types'
  BY <1>1 DEF Types
<1> QED
  BY <1>1, <1>2, <1>3, <1>4
-----------------------------------------------------------------------------
(* Cycles. *)
LEMMA InitCounts == ASSUME Init PROVE CountInv
<1>1. row \in Lifecycle
  BY DEF Init, Lifecycle
<1>2. Types /\ IndexedShape
  BY <1>1 DEF Init, Types, IndexedShape, Row, Indexed, IndexedReads, IndexedWrites
<1> QED
  BY <1>2 DEF Init, CountInv, Owed, ExtraIsSpent, CyclesAreAccesses, BetweenSteps

LEMMA BeginCounts ==
  ASSUME HostRaises => HostRestores, CountInv,
         NEW r \in OPCODES \cup Lifecycle, NEW body \in Bodies(r.family), Begin(r, body)
  PROVE  CountInv'
<1>1. /\ Types' /\ IndexedShape' /\ ~ BetweenSteps'
      /\ (row'.mode \in Indexed => Pending')
  BY BeginShapes DEF CountInv
<1>2. ~ spoiled /\ extra = 0 /\ extra' = 0 /\ spoiled' = spoiled
  BY DEF Begin, CountInv, ExtraIsSpent
<1>3. todo' = Opening(r) \o body /\ row' = r /\ made' = 1
  BY DEF Begin
<1>4. /\ Len(todo') \in Nat /\ r.cycles \in Nat
      /\ r.family = "branch" =>
           /\ todo'[Len(todo')] \in {"operand", "next", "page"}
           /\ \A i \in 1 .. Len(todo') : todo'[i] = "page" => i = Len(todo')
           /\ Len(todo') = r.cycles + BranchExtra(todo'[Len(todo')])
      /\ r.mode \in Indexed => r.family # "branch"
      /\ r.family # "branch" =>
           Len(todo') = r.cycles - (IF r.mode \in IndexedWrites THEN 1 ELSE 0)
  BY <1>3, StepsAre
<1>5. Owed'
  <2>1. ASSUME row'.family = "branch" PROVE BranchOwed'
    <3>1. BranchExtra(todo'[Len(todo')]) \in Nat
      BY <1>3, <1>4, <2>1 DEF BranchExtra
    <3>2. made' + Len(todo') = row'.cycles + 1 + BranchExtra(todo'[Len(todo')])
      <4>1. /\ made' = 1 /\ row'.cycles \in Nat
            /\ Len(todo') = row'.cycles + BranchExtra(todo'[Len(todo')])
        BY <1>3, <1>4, <2>1
      <4> HIDE DEF BranchExtra
      <4> QED
        BY <3>1, <4>1
    <3> QED
      BY <1>2, <1>3, <1>4, <2>1, <3>2 DEF BranchOwed
  <2>2. ASSUME row'.mode \in IndexedReads PROVE ReadOwed'
    <3>1. Len(todo') = r.cycles /\ todo'[1] # "fixup"
      BY <1>1, <1>3, <1>4, <2>2, RowIs DEF Pending
    <3>2. made' + Len(todo') = row'.cycles + 1 + extra'
      BY <1>2, <1>3, <1>4, <3>1
    <3> QED
      BY <1>2, <3>1, <3>2 DEF ReadOwed
  <2>3. ASSUME row'.mode \in IndexedWrites PROVE WriteOwed'
    <3>1. Len(todo') = r.cycles - 1 /\ Pending'
      BY <1>1, <1>3, <1>4, <2>3, RowIs
    <3> QED
      BY <1>2, <1>3, <1>4, <3>1 DEF WriteOwed
  <2>4. ASSUME row'.family # "branch", row'.mode \notin Indexed PROVE OtherOwed'
    <3>1. Len(todo') = r.cycles
      BY <1>3, <1>4, <2>4, RowIs
    <3> QED
      BY <1>2, <1>3, <1>4, <3>1 DEF OtherOwed
  <2> QED
    BY <2>1, <2>2, <2>3, <2>4 DEF Owed
<1>6. ExtraIsSpent' /\ CyclesAreAccesses'
  BY <1>1, <1>2 DEF ExtraIsSpent, CyclesAreAccesses
<1> QED
  BY <1>1, <1>5, <1>6 DEF CountInv

LEMMA IndexCounts ==
  ASSUME CountInv, ~ BetweenSteps, NEW b \in Addresses, NEW i \in Bytes, Index(b, i)
  PROVE  CountInv'
<1>1. /\ Types' /\ IndexedShape' /\ ~ BetweenSteps'
      /\ row.mode \in Indexed /\ Pending /\ ~ Pending' /\ todo[1] # "fixup"
      /\ row' = row /\ made' = made + 1 /\ extra' = extra
      /\ IF FixesUp(base', ea')
         THEN todo'[1] = "fixup" /\ Len(todo') = Len(todo)
         ELSE todo'[1] # "fixup" /\ Len(todo') = Len(todo) - 1
  BY IndexShapes DEF CountInv
<1>2. spoiled' = spoiled
  BY DEF Index
<1>3. Len(todo) \in Nat /\ Len(todo') \in Nat /\ made \in Nat /\ row.cycles \in Nat
  BY <1>1, RowIs DEF CountInv, Types
<1>4. row.family # "branch" /\ row.mode \in Indexed
  BY <1>1, RowIs DEF CountInv, Types
<1>5. ASSUME row.mode \in IndexedReads PROVE ReadOwed' /\ extra = 0
  <2>1. made + Len(todo) = row.cycles + 1 + extra /\ extra = 0
    BY <1>1, <1>5 DEF CountInv, Owed, ReadOwed
  <2> QED
    BY <1>1, <1>3, <2>1 DEF ReadOwed
<1>6. ASSUME row.mode \in IndexedWrites PROVE WriteOwed' /\ extra = 0
  <2>1. made + Len(todo) = row.cycles /\ extra = 0
    BY <1>1, <1>3, <1>6 DEF CountInv, Owed, WriteOwed
  <2>2. FixesUp(base', ea')
    BY <1>1, <1>6 DEF FixesUp
  <2> QED
    BY <1>1, <1>3, <2>1, <2>2 DEF WriteOwed
<1>7. Owed'
  BY <1>1, <1>4, <1>5, <1>6 DEF Owed
<1>8. ExtraIsSpent' /\ CyclesAreAccesses'
  BY <1>1, <1>2 DEF CountInv, ExtraIsSpent, CyclesAreAccesses
<1> QED
  BY <1>1, <1>7, <1>8 DEF CountInv

LEMMA ContinueCounts ==
  ASSUME CountInv, Continue
  PROVE  CountInv'
<1>1. /\ Types' /\ IndexedShape' /\ ~ BetweenSteps'
      /\ row' = row /\ made' = made + 1 /\ Len(todo') = Len(todo) - 1
      /\ todo' = Tail(todo)
      /\ row.mode \in Indexed =>
           /\ todo'[1] # "fixup"
           /\ Pending' <=> Pending
           /\ (Access = "fixup" \/ todo[2] = "data") <=> ~ Pending
  BY ContinueShapes DEF CountInv
<1>2. ~ BetweenSteps /\ Len(todo) > 1 /\ spoiled' = spoiled /\ extra' = ExtraAfter(Access, Tail(todo))
  BY DEF Continue
<1>3. /\ Len(todo) \in Nat /\ made \in Nat /\ row.cycles \in Nat /\ extra \in Nat
      /\ Access = todo[1] /\ todo' # <<>>
      /\ \A i \in 1 .. Len(todo) - 1 : todo'[i] = todo[i + 1]
  BY <1>1, <1>2, TodoIs, RowIs DEF CountInv, Types
<1>4. ASSUME row.family = "branch" PROVE BranchOwed'
  <2>1. /\ extra = 0 /\ todo[Len(todo)] \in {"operand", "next", "page"}
        /\ \A i \in 1 .. Len(todo) : todo[i] = "page" => i = Len(todo)
        /\ made + Len(todo) = row.cycles + 1 + BranchExtra(todo[Len(todo)])
    BY <1>2, <1>4 DEF CountInv, Owed, BranchOwed
  <2>2. row.mode \notin IndexedReads
    BY <1>4, RowIs DEF CountInv, Types
  <2>3. Access # "page"
    BY <1>2, <1>3, <2>1
  <2>4. extra' = 0
    BY <1>1, <1>2, <1>3, <2>1, <2>2, <2>3 DEF ExtraAfter
  <2>5. todo'[Len(todo')] = todo[Len(todo)]
    BY <1>1, <1>2, <1>3
  <2>6. \A i \in 1 .. Len(todo') : todo'[i] = "page" => i = Len(todo')
    <3>1. ASSUME NEW i \in 1 .. Len(todo'), todo'[i] = "page" PROVE i = Len(todo')
      <4>1. i + 1 \in 1 .. Len(todo) /\ todo[i + 1] = "page"
        BY <1>1, <1>3, <3>1
      <4>2. i + 1 = Len(todo)
        BY <2>1, <4>1
      <4> QED
        BY <1>1, <1>3, <4>2
    <3> QED
      BY <3>1
  <2>7. made' + Len(todo') = made + Len(todo)
    BY <1>1, <1>3
  <2> QED
    BY <1>1, <2>1, <2>4, <2>5, <2>6, <2>7 DEF BranchOwed
<1>5. ASSUME row.mode \in IndexedReads PROVE ReadOwed'
  <2>1. row.mode \in Indexed /\ row.family # "branch"
    BY <1>5, RowIs DEF CountInv, Types
  <2>2. ReadOwed
    BY <1>2, <1>5 DEF CountInv, Owed
  <2>3. todo'[1] # "fixup" /\ (Pending' <=> Pending) /\ (Access = "fixup" => ~ Pending)
    BY <1>1, <2>1
  <2>4. CASE Access = "fixup"
    <3>1. extra' = 1 /\ made + Len(todo) = row.cycles + 2
      BY <1>2, <1>3, <1>5, <2>2, <2>4 DEF ExtraAfter, ReadOwed
    <3> QED
      BY <1>1, <1>3, <2>3, <2>4, <3>1 DEF ReadOwed
  <2>5. CASE Access # "fixup"
    <3>1. extra' = extra /\ made + Len(todo) = row.cycles + 1 + extra /\ (Pending => extra = 0)
      BY <1>2, <1>3, <2>1, <2>2, <2>5 DEF ExtraAfter, ReadOwed
    <3> QED
      BY <1>1, <1>3, <2>3, <3>1 DEF ReadOwed
  <2> QED
    BY <2>4, <2>5
<1>6. ASSUME row.mode \in IndexedWrites PROVE WriteOwed'
  <2>1. row.mode \in Indexed /\ row.family # "branch" /\ row.mode \notin IndexedReads
    BY <1>6, RowIs DEF CountInv, Types
  <2>2. extra = 0 /\ made + Len(todo) = row.cycles + (IF Pending THEN 0 ELSE 1)
    BY <1>2, <1>6 DEF CountInv, Owed, WriteOwed
  <2>3. extra' = 0
    BY <1>2, <2>1, <2>2 DEF ExtraAfter
  <2> QED
    BY <1>1, <1>3, <2>1, <2>2, <2>3 DEF WriteOwed
<1>7. ASSUME row.family # "branch", row.mode \notin Indexed PROVE OtherOwed'
  <2>1. extra = 0 /\ made + Len(todo) = row.cycles + 1 /\ row.mode \notin IndexedReads
    BY <1>2, <1>7, RowIs DEF CountInv, Owed, OtherOwed, Types
  <2>2. extra' = 0
    BY <1>2, <1>7, <2>1 DEF ExtraAfter
  <2> QED
    BY <1>1, <1>3, <2>1, <2>2 DEF OtherOwed
<1>8. Owed'
  BY <1>1, <1>4, <1>5, <1>6, <1>7 DEF Owed
<1>9. ExtraIsSpent' /\ CyclesAreAccesses'
  BY <1>1, <1>2 DEF CountInv, ExtraIsSpent, CyclesAreAccesses
<1> QED
  BY <1>1, <1>8, <1>9 DEF CountInv

LEMMA ReturnCounts ==
  ASSUME CountInv, Return
  PROVE  CountInv'
<1>1. /\ Types' /\ IndexedShape' /\ BetweenSteps' /\ ~ BetweenSteps /\ ~ Pending
      /\ Len(todo) = 1 /\ Access = todo[1] /\ row' = row /\ made' = made
      /\ row.mode \in Indexed => todo[1] = "data"
  BY ReturnShapes DEF CountInv
<1> DEFINE e == ExtraAfter(Access, <<>>)
<1>2. /\ spoiled' = spoiled
      /\ row \in Lifecycle => returned' = row.cycles /\ extra' = e
      /\ row \notin Lifecycle => returned' = row.cycles + e /\ extra' = 0
  BY DEF Return
<1>3. made \in Nat /\ row.cycles \in Nat /\ extra \in Nat
  BY RowIs DEF CountInv, Types
<1>4. made = row.cycles + e
  <2>1. CASE row.family = "branch"
    <3>1. /\ extra = 0 /\ todo[1] \in {"operand", "next", "page"}
          /\ made + 1 = row.cycles + 1 + BranchExtra(todo[1])
      BY <1>1, <2>1 DEF CountInv, Owed, BranchOwed
    <3>2. BranchExtra(todo[1]) \in Nat /\ e = BranchExtra(todo[1])
      BY <1>1, <2>1, <3>1 DEF ExtraAfter, BranchExtra
    <3> QED
      BY <1>3, <3>1, <3>2
  <2>2. CASE row.mode \in Indexed
    <3>1. row.family # "branch" /\ (row.mode \in IndexedReads \/ row.mode \in IndexedWrites)
      BY <2>2, RowIs DEF CountInv, Types
    <3>2. e = extra
      BY <1>1, <2>2, <3>1 DEF ExtraAfter
    <3>3. made + 1 = row.cycles + 1 + extra
      BY <1>1, <1>3, <2>2, <3>1 DEF CountInv, Owed, ReadOwed, WriteOwed
    <3> QED
      BY <1>3, <3>2, <3>3
  <2>3. CASE row.family # "branch" /\ row.mode \notin Indexed
    <3>1. extra = 0 /\ made + 1 = row.cycles + 1 /\ row.mode \notin IndexedReads
      BY <1>1, <2>3, RowIs DEF CountInv, Owed, OtherOwed, Types
    <3>2. e = 0
      BY <2>3, <3>1 DEF ExtraAfter
    <3> QED
      BY <1>3, <3>1, <3>2
  <2> QED
    BY <2>1, <2>2, <2>3
<1>5. row \in Lifecycle => e = 0
  <2>1. ASSUME row \in Lifecycle PROVE e = 0
    <3>1. row.family # "branch" /\ row.mode \notin Indexed /\ row.mode \notin IndexedReads
      BY <2>1 DEF Lifecycle, Row, Indexed, IndexedReads, IndexedWrites
    <3>2. extra = 0
      BY <1>1, <3>1 DEF CountInv, Owed, OtherOwed
    <3> QED
      BY <3>1, <3>2 DEF ExtraAfter
  <2> QED
    BY <2>1
<1>6. returned' = made /\ extra' = 0
  BY <1>2, <1>3, <1>4, <1>5
<1>7. Owed' /\ ExtraIsSpent' /\ CyclesAreAccesses'
  BY <1>1, <1>2, <1>6 DEF Owed, ExtraIsSpent, CyclesAreAccesses, CountInv
<1> QED
  BY <1>1, <1>7 DEF CountInv

LEMMA EmptyCounts ==
  ASSUME CountInv, Raise \/ RestoreState
  PROVE  CountInv'
<1>1. Types' /\ IndexedShape' /\ BetweenSteps' /\ row' = row /\ made' = made
  BY EmptyShapes DEF CountInv
<1>2. CASE Raise
  BY <1>1, <1>2 DEF Raise, CountInv, Owed, ExtraIsSpent, CyclesAreAccesses
<1>3. CASE RestoreState
  BY <1>1, <1>3 DEF RestoreState, CountInv, Owed, ExtraIsSpent, CyclesAreAccesses
<1> QED
  BY <1>2, <1>3

LEMMA CountsHold == ASSUME HostRaises => HostRestores PROVE Spec => []CountInv
<1>1. ASSUME CountInv, [Next]_vars PROVE CountInv'
  <2>1. CASE UNCHANGED vars
    BY <1>1, <2>1 DEF vars, CountInv, Types, IndexedShape, Owed, BranchOwed, ReadOwed, WriteOwed,
       OtherOwed, Pending, ExtraIsSpent, CyclesAreAccesses, BetweenSteps
  <2>2. ASSUME NEW b \in Addresses, NEW i \in Bytes, Index(b, i) PROVE CountInv'
    <3>1. ~ BetweenSteps
      BY <2>2, <1>1 DEF Index, Indexes, BetweenSteps
    <3> QED
      BY <1>1, <2>2, <3>1, IndexCounts
  <2> QED
    BY <1>1, <2>1, <2>2, BeginCounts, ContinueCounts, ReturnCounts, EmptyCounts DEF Next
<1>2. Init => CountInv
  BY InitCounts
<1>3. CountInv /\ [Next]_vars => CountInv'
  BY <1>1
<1> QED
  BY <1>2, <1>3, PTL DEF Spec

(* For every size of byte, and after any steps: where a host that raises   *)
(* restores a state before it goes on, step() returns the number of        *)
(* accesses it made.                                                       *)
THEOREM CyclesCounted ==
  ASSUME HostRaises => HostRestores PROVE Spec => []CyclesAreAccesses
<1>1. CountInv => CyclesAreAccesses
  BY DEF CountInv
<1> QED
  BY <1>1, CountsHold, PTL
-----------------------------------------------------------------------------
(* Accesses at the operand. *)
LEMMA FixupElsewhere ==
  ASSUME NEW b \in Nat, NEW address \in Nat
  PROVE  Uncorrected(b, address) = address <=> ~ Crosses(b, address)
<1>1. /\ PageOf(address) \in Nat /\ PageOf(b) \in Nat /\ LowOf(address) \in Nat
      /\ address = PageOf(address) * Base + LowOf(address)
  BY BaseAssumption DEF PageOf, LowOf
<1>2. \A p, q \in Nat : p * Base = q * Base => p = q
  BY BaseAssumption
<1>3. ASSUME Uncorrected(b, address) = address PROVE PageOf(b) = PageOf(address)
  <2> DEFINE x == PageOf(b) * Base
             y == PageOf(address) * Base
  <2>1. x \in Nat /\ y \in Nat
    BY <1>1, BaseAssumption
  <2>2. x + LowOf(address) = y + LowOf(address)
    BY <1>1, <1>3 DEF Uncorrected
  <2>3. x = y
    <3> HIDE DEF x, y
    <3> QED
      BY <1>1, <2>1, <2>2
  <2> QED
    BY <1>1, <1>2, <2>3
<1>4. ASSUME PageOf(b) = PageOf(address) PROVE Uncorrected(b, address) = address
  BY <1>1, <1>4 DEF Uncorrected
<1> QED
  BY <1>3, <1>4 DEF Crosses

LEMMA AddressesAreNat ==
  ASSUME NEW b \in Addresses, NEW i \in Bytes
  PROVE  b \in Nat /\ (b + i) % (Base * Base) \in Nat
<1>1. Base * Base \in Nat /\ Base * Base > 0
  BY BaseAssumption
<1>2. b \in Nat /\ i \in Nat
  BY <1>1, BaseAssumption DEF Addresses, Bytes
<1> QED
  BY <1>1, <1>2

LEMMA BeginTouches ==
  ASSUME TouchInv, NEW r \in OPCODES \cup Lifecycle, NEW body \in Bodies(r.family), Begin(r, body)
  PROVE  TouchInv'
<1>1. /\ Types' /\ IndexedShape' /\ ~ BetweenSteps'
      /\ (row'.mode \in Indexed => Pending')
  BY BeginShapes DEF TouchInv
<1> QED
  BY <1>1 DEF TouchInv, Touches, OperandTouchedOnce

LEMMA IndexTouches ==
  ASSUME TouchInv, ~ BetweenSteps, NEW b \in Addresses, NEW i \in Bytes, Index(b, i)
  PROVE  TouchInv'
<1>1. /\ Types' /\ IndexedShape' /\ ~ BetweenSteps'
      /\ row' = row /\ base' = b /\ Len(todo) = DataCount(row) + 1
      /\ IF FixesUp(base', ea') THEN Len(todo') = Len(todo) ELSE Len(todo') = Len(todo) - 1
      /\ row.mode \in Indexed
  BY IndexShapes DEF TouchInv
<1>2. /\ DataCount(row) \in 1 .. 3
      /\ row.mode \in IndexedWrites \/ row.mode \in IndexedReads
  BY <1>1, RowIs DEF TouchInv, Types
<1>3. /\ ea' = (b + i) % (Base * Base)
      /\ touched' = IF FixesUp(base', ea') /\ Uncorrected(base', ea') # ea' THEN 0 ELSE 1
  BY <1>1 DEF Index
<1>4. Uncorrected(base', ea') = ea' <=> ~ Crosses(base', ea')
  BY <1>1, <1>3, AddressesAreNat, FixupElsewhere
<1>5. Touches'
  <2>1. CASE Crosses(base', ea')
    <3>1. /\ touched' = 0 /\ Len(todo') = DataCount(row) + 1
          /\ PageOf(base') # PageOf(ea')
      BY <1>1, <1>3, <1>4, <2>1 DEF FixesUp, Crosses
    <3>2. row.family = "unstable" => DataCount(row) = 1
      BY DEF DataCount
    <3>3. DataCount(row') = DataCount(row) /\ Expected' = DataCount(row)
      BY <1>1, <1>2, <3>1 DEF Expected
    <3>4. touched' + Len(todo') = DataCount(row) + 1
      BY <1>2, <3>1
    <3> QED
      BY <1>1, <3>2, <3>3, <3>4 DEF Touches
  <2>2. CASE ~ Crosses(base', ea') /\ row.mode \in IndexedWrites
    <3>1. /\ touched' = 1 /\ Len(todo') = DataCount(row) + 1
          /\ PageOf(base') = PageOf(ea')
      BY <1>1, <1>3, <1>4, <2>2 DEF FixesUp, Crosses
    <3> QED
      BY <1>1, <1>2, <2>2, <3>1 DEF Touches, Expected
  <2>3. CASE ~ Crosses(base', ea') /\ row.mode \notin IndexedWrites
    <3>1. /\ touched' = 1 /\ Len(todo') = DataCount(row)
          /\ PageOf(base') = PageOf(ea')
      BY <1>1, <1>2, <1>3, <1>4, <2>3 DEF FixesUp, Crosses
    <3> QED
      BY <1>1, <1>2, <2>3, <3>1 DEF Touches, Expected
  <2> QED
    BY <2>1, <2>2, <2>3
<1>6. OperandTouchedOnce'
  BY <1>1 DEF OperandTouchedOnce
<1> QED
  BY <1>1, <1>5, <1>6 DEF TouchInv

LEMMA ContinueTouches ==
  ASSUME TouchInv, Continue
  PROVE  TouchInv'
<1>1. /\ Types' /\ IndexedShape' /\ ~ BetweenSteps'
      /\ row' = row /\ Len(todo') = Len(todo) - 1
      /\ row.mode \in Indexed =>
           /\ Pending' <=> Pending
           /\ (Access = "fixup" \/ todo[2] = "data") <=> ~ Pending
  BY ContinueShapes DEF TouchInv
<1>2. ~ BetweenSteps /\ Len(todo) \in Nat /\ touched \in Nat /\ base' = base /\ ea' = ea
  BY TodoIs DEF Continue, TouchInv, Types
<1>3. ASSUME row.mode \in Indexed, ~ Pending
      PROVE  IF row.family = "unstable" /\ PageOf(base) # PageOf(ea)
             THEN touched' + Len(todo') <= 2
             ELSE touched' + Len(todo') = Expected + 1
  <2>1. todo[2] = "data"
    <3>1. CASE Access = "fixup"
      <4>1. Len(todo) = DataCount(row) + 1 /\ DataCount(row) \in 1 .. 3
        BY <1>2, <1>3, <3>1, RowIs, TodoIs DEF TouchInv, IndexedShape, Types
      <4>2. 2 \in 1 .. Len(todo) /\ 2 > Len(todo) - DataCount(row)
        BY <4>1
      <4> QED
        BY <1>3, <4>2 DEF TouchInv, IndexedShape
    <3>2. CASE Access # "fixup"
      BY <1>1, <1>3, <3>2
    <3> QED
      BY <3>1, <3>2
  <2>2. \E hit \in AtOperand : touched' = touched + hit
    BY <1>3, <2>1 DEF Continue
  <2>3. IF row.family = "unstable" /\ PageOf(base) # PageOf(ea)
        THEN touched + Len(todo) <= 2
        ELSE touched + Len(todo) = Expected + 1
    BY <1>2, <1>3 DEF TouchInv, Touches
  <2>4. CASE row.family = "unstable" /\ PageOf(base) # PageOf(ea)
    <3>1. touched' = touched \/ touched' = touched + 1
      BY <1>2, <2>2 DEF AtOperand
    <3> QED
      BY <1>1, <1>2, <2>3, <2>4, <3>1
  <2>5. CASE ~ (row.family = "unstable" /\ PageOf(base) # PageOf(ea))
    <3>1. touched' = touched + 1
      BY <2>2, <2>5 DEF AtOperand, Crosses
    <3>2. touched' + Len(todo') = touched + Len(todo)
      BY <1>1, <1>2, <3>1
    <3> QED
      BY <2>3, <2>5, <3>2
  <2> QED
    BY <2>4, <2>5
<1>4. Expected' = Expected
  BY <1>1, <1>2 DEF Expected
<1>5. Touches'
  BY <1>1, <1>2, <1>3, <1>4 DEF Touches
<1>6. OperandTouchedOnce'
  BY <1>1 DEF OperandTouchedOnce
<1> QED
  BY <1>1, <1>5, <1>6 DEF TouchInv

LEMMA ReturnTouches ==
  ASSUME TouchInv, Return
  PROVE  TouchInv'
<1>1. /\ Types' /\ IndexedShape' /\ BetweenSteps' /\ ~ BetweenSteps /\ ~ Pending
      /\ Len(todo) = 1 /\ row' = row
  BY ReturnShapes DEF TouchInv
<1>2. base' = base /\ ea' = ea /\ touched' = touched /\ touched \in Nat
  BY DEF Return, TouchInv, Types
<1>3. ASSUME row.mode \in Indexed
      PROVE  IF row.family = "unstable" /\ PageOf(base) # PageOf(ea)
             THEN touched <= 1 ELSE touched = Expected
  <2>1. IF row.family = "unstable" /\ PageOf(base) # PageOf(ea)
        THEN touched + 1 <= 2 ELSE touched + 1 = Expected + 1
    BY <1>1, <1>3 DEF TouchInv, Touches
  <2>2. Expected \in Nat
    BY DEF Expected, DataCount
  <2> QED
    BY <1>2, <2>1, <2>2
<1>4. OperandTouchedOnce'
  BY <1>1, <1>2, <1>3 DEF OperandTouchedOnce, Expected, DataCount, PageOf
<1>5. Touches'
  BY <1>1 DEF Touches
<1> QED
  BY <1>1, <1>4, <1>5 DEF TouchInv

LEMMA EmptyTouches ==
  ASSUME TouchInv, Raise \/ RestoreState
  PROVE  TouchInv'
<1>1. Types' /\ IndexedShape' /\ BetweenSteps'
  BY EmptyShapes DEF TouchInv
<1>2. CASE Raise
  BY <1>1, <1>2 DEF Raise, TouchInv, Touches, OperandTouchedOnce
<1>3. CASE RestoreState
  BY <1>1, <1>3 DEF RestoreState, TouchInv, Touches, OperandTouchedOnce
<1> QED
  BY <1>2, <1>3

LEMMA TouchesHold == Spec => []TouchInv
<1>1. ASSUME TouchInv, [Next]_vars PROVE TouchInv'
  <2>1. CASE UNCHANGED vars
    BY <1>1, <2>1 DEF vars, TouchInv, Types, IndexedShape, Touches, Expected, Pending,
       OperandTouchedOnce, BetweenSteps
  <2>2. ASSUME NEW b \in Addresses, NEW i \in Bytes, Index(b, i) PROVE TouchInv'
    <3>1. ~ BetweenSteps
      BY <2>2 DEF Index, Indexes, BetweenSteps
    <3> QED
      BY <1>1, <2>2, <3>1, IndexTouches
  <2> QED
    BY <1>1, <2>1, <2>2, BeginTouches, ContinueTouches, ReturnTouches, EmptyTouches DEF Next
<1>2. Init => TouchInv
  BY InitCounts DEF CountInv, TouchInv, Init, Touches, OperandTouchedOnce, BetweenSteps
<1>3. TouchInv /\ [Next]_vars => TouchInv'
  BY <1>1
<1> QED
  BY <1>2, <1>3, PTL DEF Spec

(* For every size of byte, whatever the base and the index, and whether or *)
(* not callables raise: an indexed operand is touched as often as          *)
(* documented.                                                             *)
THEOREM OperandsTouchedOnce == Spec => []OperandTouchedOnce
<1>1. TouchInv => OperandTouchedOnce
  BY DEF TouchInv
<1> QED
  BY <1>1, TouchesHold, PTL
-----------------------------------------------------------------------------
(* The bytes of the instruction among a step's accesses. *)
(* How many accesses of a sequence are for one of the purposes S.          *)
CountIn(S, t) == Cardinality({i \in 1 .. Len(t) : t[i] \in S})

LEMMA CountIsNat ==
  ASSUME NEW S, NEW T, NEW t \in Seq(T)
  PROVE  IsFiniteSet({i \in 1 .. Len(t) : t[i] \in S}) /\ CountIn(S, t) \in Nat
<1>1. IsFiniteSet(1 .. Len(t))
  BY FS_Interval
<1>2. {i \in 1 .. Len(t) : t[i] \in S} \in SUBSET (1 .. Len(t))
  OBVIOUS
<1>3. IsFiniteSet({i \in 1 .. Len(t) : t[i] \in S})
  BY <1>1, <1>2, FS_Subset
<1> QED
  BY <1>3, FS_CardinalityType DEF CountIn

LEMMA CountOfConcat ==
  ASSUME NEW S, NEW T, NEW s \in Seq(T), NEW t \in Seq(T)
  PROVE  CountIn(S, s \o t) = CountIn(S, s) + CountIn(S, t)
<1> DEFINE first  == {i \in 1 .. Len(s) : s[i] \in S}
           second == {i \in 1 .. Len(t) : t[i] \in S}
           moved  == {i \in 1 .. Len(s \o t) : (s \o t)[i] \in S} \ first
           shift  == [i \in second |-> Len(s) + i]
<1>1. /\ Len(s) \in Nat /\ Len(t) \in Nat /\ Len(s \o t) = Len(s) + Len(t)
      /\ \A i \in 1 .. Len(s) : (s \o t)[i] = s[i]
      /\ \A i \in 1 .. Len(t) : (s \o t)[Len(s) + i] = t[i]
  BY ConcatProperties
<1>2. moved = {i \in Len(s) + 1 .. Len(s) + Len(t) : (s \o t)[i] \in S}
  BY <1>1
<1>3. shift \in Bijection(second, moved)
  <2>1. shift \in [second -> moved]
    BY <1>1, <1>2
  <2>2. \A i, j \in second : shift[i] = shift[j] => i = j
    BY <1>1
  <2>3. \A k \in moved : \E i \in second : shift[i] = k
    <3>1. TAKE k \in moved
    <3>2. k - Len(s) \in second /\ shift[k - Len(s)] = k
      <4>1. k - Len(s) \in 1 .. Len(t)
        BY <1>1, <1>2
      <4>2. (s \o t)[Len(s) + (k - Len(s))] = t[k - Len(s)]
        BY <1>1, <4>1
      <4>3. Len(s) + (k - Len(s)) = k
        BY <1>1, <1>2
      <4> QED
        BY <1>2, <4>1, <4>2, <4>3
    <3> QED
      BY <3>2
  <2> QED
    BY <2>1, <2>2, <2>3 DEF Bijection, Injection, Surjection, IsInjective
<1>4. IsFiniteSet(first) /\ IsFiniteSet(second)
  BY CountIsNat
<1>5. IsFiniteSet(moved) /\ Cardinality(moved) = Cardinality(second)
  BY <1>3, <1>4, FS_Bijection DEF ExistsBijection
<1>6. first \cup moved = {i \in 1 .. Len(s \o t) : (s \o t)[i] \in S}
  BY <1>1
<1>7. first \cap moved = {}
  OBVIOUS
<1>8. Cardinality(first \cup moved) = Cardinality(first) + Cardinality(moved) - Cardinality(first \cap moved)
  BY <1>4, <1>5, FS_Union
<1>9. Cardinality(first) \in Nat /\ Cardinality(second) \in Nat /\ Cardinality({}) = 0
  BY <1>4, FS_CardinalityType, FS_EmptySet
<1> HIDE DEF first, second, moved, shift
<1>10. Cardinality(first \cap moved) = 0
  BY <1>7, <1>9
<1>11. Cardinality(first \cup moved) = Cardinality(first) + Cardinality(second)
  BY <1>5, <1>8, <1>9, <1>10
<1> QED
  BY <1>6, <1>11 DEF CountIn, first, second

LEMMA CountOfNone ==
  ASSUME NEW S, NEW t, \A i \in 1 .. Len(t) : t[i] \notin S
  PROVE  CountIn(S, t) = 0
<1>1. {i \in 1 .. Len(t) : t[i] \in S} = {}
  OBVIOUS
<1> QED
  BY <1>1, FS_EmptySet DEF CountIn

LEMMA CountOfOne ==
  ASSUME NEW S, NEW a
  PROVE  CountIn(S, <<a>>) = IF a \in S THEN 1 ELSE 0
<1>1. Len(<<a>>) = 1 /\ <<a>>[1] = a
  OBVIOUS
<1>2. CASE a \in S
  <2>1. {i \in 1 .. Len(<<a>>) : <<a>>[i] \in S} = {1}
    BY <1>1, <1>2
  <2> QED
    BY <1>2, <2>1, FS_Singleton DEF CountIn
<1>3. CASE a \notin S
  BY <1>1, <1>3, CountOfNone
<1> QED
  BY <1>2, <1>3

LEMMA CountOfRest ==
  ASSUME NEW S, NEW T, NEW t \in Seq(T), t # <<>>
  PROVE  CountIn(S, t) = (IF t[1] \in S THEN 1 ELSE 0) + CountIn(S, Tail(t))
<1>1. t = <<Head(t)>> \o Tail(t) /\ Head(t) = t[1] /\ <<Head(t)>> \in Seq(T) /\ Tail(t) \in Seq(T)
  OBVIOUS
<1>2. CountIn(S, t) = CountIn(S, <<Head(t)>>) + CountIn(S, Tail(t))
  BY <1>1, CountOfConcat
<1> QED
  BY <1>1, <1>2, CountOfOne

LEMMA SmallSetsAre ==
  /\ Cardinality({1}) = 1
  /\ \A k \in Nat : k > 1 => Cardinality({1, k}) = 2
<1>1. Cardinality({1}) = 1 /\ IsFiniteSet({1})
  BY FS_Singleton
<1>2. ASSUME NEW k \in Nat, k > 1 PROVE Cardinality({1, k}) = 2
  <2>1. {1, k} = {1} \cup {k} /\ k \notin {1}
    BY <1>2
  <2>2. Cardinality({1} \cup {k}) = Cardinality({1}) + 1
    BY <1>1, <2>1, FS_AddElement
  <2> QED
    BY <1>1, <2>1, <2>2
<1> QED
  BY <1>1, <1>2

(* What Consumes counts of a row's accesses, and what the listing shows.   *)
OwnBytes(r) == {"opcode", "operand"} \cup (IF r.mode = "imm" THEN {"data"} ELSE {})

Listed(r) ==
  IF r \in OPCODES THEN LENGTHS(Form(r)) + (IF r.family = "brk" THEN 1 ELSE 0) ELSE 0

(* What the step has consumed and still has to consume. *)
BytesOwed == ~ BetweenSteps => consumed + CountIn(OwnBytes(row), todo) = Listed(row)

ListInv ==
  Types /\ IndexedShape /\ consumed \in 0 .. 3 /\ BytesOwed /\ ListingIsConsumed

OperandBytes(mode) ==
  CASE mode \in {"imm", "none"}                         -> 0
    [] mode \in {"abs", "abx", "aby", "abx_w", "aby_w"} -> 2
    [] mode \in {"zp", "zpx", "zpy", "izx", "izy", "izy_w"} -> 1

LEMMA ModeBytesAre ==
  ASSUME NEW mode \in Modes,
         NEW S, "operand" \in S, "unindexed" \notin S, "pointer" \notin S
  PROVE  CountIn(S, ModeAccesses(mode)) = OperandBytes(mode)
<1>1. CASE mode \in {"imm", "none"}
  <2>1. ModeAccesses(mode) = <<>> /\ OperandBytes(mode) = 0
    BY <1>1 DEF ModeAccesses, OperandBytes
  <2> QED
    BY <2>1, CountOfNone
<1>2. CASE mode \in {"abs", "abx", "aby", "abx_w", "aby_w"}
  <2>1. ModeAccesses(mode) = <<"operand", "operand">> /\ OperandBytes(mode) = 2
    BY <1>2 DEF ModeAccesses, OperandBytes
  <2>2. {i \in 1 .. Len(ModeAccesses(mode)) : ModeAccesses(mode)[i] \in S} = {1, 2}
    BY <2>1
  <2> QED
    BY <2>1, <2>2, SmallSetsAre DEF CountIn
<1>3. CASE mode \in {"zp", "zpx", "zpy", "izx", "izy", "izy_w"}
  <2>1. /\ OperandBytes(mode) = 1
        /\ ModeAccesses(mode) \in {<<"operand">>, <<"operand", "unindexed">>,
             <<"operand", "unindexed", "pointer", "pointer">>, <<"operand", "pointer", "pointer">>}
    BY <1>3 DEF ModeAccesses, OperandBytes
  <2>2. {i \in 1 .. Len(ModeAccesses(mode)) : ModeAccesses(mode)[i] \in S} = {1}
    BY <2>1
  <2> QED
    BY <2>1, <2>2, SmallSetsAre DEF CountIn
<1> QED
  BY <1>1, <1>2, <1>3 DEF Modes

(* The bytes of a handler with no mode, after its opcode. *)
OwnOperands(family) ==
  CASE family \in {"implied", "push", "pull", "rts", "rti", "jam"} -> 0
    [] family \in {"branch", "brk"}                                -> 1
    [] family \in {"jmp", "jmp_ind", "jsr"}                        -> 2

LEMMA OwnBytesAre ==
  ASSUME NEW r \in OwnRows, NEW body \in Bodies(r.family),
         NEW S, S = {"opcode", "operand"}
  PROVE  CountIn(S, body) = OwnOperands(r.family)
<1>1. CASE r.family \in {"implied", "push", "pull", "rts", "rti"}
  <2>1. /\ OwnOperands(r.family) = 0
        /\ body \in {<<"next">>, <<"next", "stack">>, <<"next", "stack", "stack">>,
                     <<"next", "stack", "stack", "stack", "pulled">>,
                     <<"next", "stack", "stack", "stack", "stack">>}
    BY <1>1 DEF Bodies, OwnOperands
  <2>2. \A i \in 1 .. Len(body) : body[i] \notin S
    BY <2>1
  <2> QED
    BY <2>1, <2>2, CountOfNone
<1>2. CASE r.family = "jam"
  <2> DEFINE jams == [k \in 1..JAM_READS |-> "jam"]
  <2>1. <<"next">> \in Seq(Places) /\ jams \in Seq(Places)
    BY DEF JAM_READS, Places
  <2>2. CountIn(S, <<"next">>) = 0
    BY CountOfOne
  <2>3. CountIn(S, jams) = 0
    <3>1. \A k \in 1 .. Len(jams) : jams[k] \notin S
      BY DEF JAM_READS
    <3> QED
      BY <3>1, CountOfNone
  <2>4. body = <<"next">> \o jams /\ OwnOperands(r.family) = 0
    BY <1>2 DEF Bodies, OwnOperands
  <2> HIDE DEF jams
  <2>5. CountIn(S, <<"next">> \o jams) = CountIn(S, <<"next">>) + CountIn(S, jams)
    BY <2>1, CountOfConcat
  <2> QED
    BY <2>2, <2>3, <2>4, <2>5
<1>3. CASE r.family \in {"branch", "brk"}
  <2>1. /\ OwnOperands(r.family) = 1
        /\ body \in {<<"operand">>, <<"operand", "next">>, <<"operand", "next", "page">>,
                     <<"operand", "stack", "stack", "stack", "vector", "vector">>}
    BY <1>3 DEF Bodies, OwnOperands
  <2>2. body[1] \in S /\ 1 \in 1 .. Len(body)
    BY <2>1
  <2>3. \A i \in 1 .. Len(body) : body[i] \in S => i = 1
    BY <2>1
  <2>4. {i \in 1 .. Len(body) : body[i] \in S} = {1}
    BY <2>2, <2>3
  <2> QED
    BY <2>1, <2>4, SmallSetsAre DEF CountIn
<1>4. CASE r.family \in {"jmp", "jmp_ind"}
  <2>1. /\ OwnOperands(r.family) = 2
        /\ body \in {<<"operand", "operand">>, <<"operand", "operand", "pointer", "pointer">>}
    BY <1>4 DEF Bodies, OwnOperands
  <2>2. {i \in 1 .. Len(body) : body[i] \in S} = {1, 2}
    BY <2>1
  <2> QED
    BY <2>1, <2>2, SmallSetsAre DEF CountIn
<1>5. CASE r.family = "jsr"
  <2>1. /\ OwnOperands(r.family) = 2
        /\ body = <<"operand", "stack", "stack", "stack", "operand">>
    BY <1>5 DEF Bodies, OwnOperands
  <2>2. {i \in 1 .. Len(body) : body[i] \in S} = {1, 5}
    BY <2>1
  <2> QED
    BY <2>1, <2>2, SmallSetsAre DEF CountIn
<1>6. r.family \in {"implied", "branch", "push", "pull", "jmp", "jmp_ind", "jsr", "rts", "rti",
                    "brk", "jam"}
  BY DEF OwnRows, Row
<1> QED
  BY <1>1, <1>2, <1>3, <1>4, <1>5, <1>6

(* What a step will consume is what the disassembler shows. *)
LEMMA StepsConsume ==
  ASSUME NEW r \in OPCODES \cup Lifecycle, NEW body \in Bodies(r.family)
  PROVE  CountIn(OwnBytes(r), Opening(r) \o body) = Listed(r)
<1> DEFINE S == OwnBytes(r)
<1>1. S \in SUBSET Places /\ "opcode" \in S /\ "operand" \in S
      /\ "unindexed" \notin S /\ "pointer" \notin S /\ ("data" \in S <=> r.mode = "imm")
  BY DEF OwnBytes, Places
<1>2. <<"opcode">> \in Seq(Places) /\ CountIn(S, <<"opcode">>) = 1
  BY <1>1, TuplesAre, CountOfOne
<1>3. ASSUME r \in OPCODES, NEW m, m = CountIn(S, ModeAccesses(r.mode)), m \in Nat,
             ModeAccesses(r.mode) \in Seq(Places), body \in Seq(Places)
      PROVE  CountIn(S, Opening(r) \o body) = 1 + m + CountIn(S, body)
  <2>1. r.family \notin {"enter", "reset", "idle"}
    BY <1>3 DEF OPCODES, ReadRows, WriteRows, ModifyRows, UnstableRows, OwnRows, Row
  <2>2. Opening(r) = <<"opcode">> \o ModeAccesses(r.mode)
    BY <2>1 DEF Opening
  <2>3. Opening(r) \in Seq(Places) /\ CountIn(S, Opening(r)) = 1 + m
    <3>1. Opening(r) \in Seq(Places)
      BY <1>2, <1>3, <2>2, ConcatProperties
    <3>2. CountIn(S, <<"opcode">> \o ModeAccesses(r.mode)) = CountIn(S, <<"opcode">>) + m
      BY <1>2, <1>3, CountOfConcat
    <3> HIDE DEF S
    <3> QED
      BY <1>2, <2>2, <3>1, <3>2
  <2>4. CountIn(S, Opening(r) \o body) = CountIn(S, Opening(r)) + CountIn(S, body)
    BY <1>3, <2>3, CountOfConcat
  <2> HIDE DEF S
  <2> QED
    BY <2>3, <2>4
<1>4. CASE r \in DataRows
  <2>1. r \in OPCODES /\ r.mode \in Modes \ {"none"} /\ r.family # "brk"
    BY <1>4, DataRowsAre DEF OPCODES, DataRows
  <2>2. ModeAccesses(r.mode) \in Seq(Places)
    BY <2>1, ModeAccessesAre DEF Leading, Places
  <2>3. CountIn(S, ModeAccesses(r.mode)) = OperandBytes(r.mode) /\ OperandBytes(r.mode) \in Nat
    <3>1. OperandBytes(r.mode) \in Nat
      BY <2>1 DEF OperandBytes, Modes
    <3> HIDE DEF S
    <3> QED
      BY <1>1, <2>1, <3>1, ModeBytesAre
  <2>4. body \in Seq(Places) /\ Len(body) = DataCount(r) /\ \A i \in 1 .. Len(body) : body[i] = "data"
    BY <1>4, DataBodiesAre DEF Places
  <2>5. CountIn(S, body) = IF r.mode = "imm" THEN 1 ELSE 0
    <3>1. CASE r.mode = "imm"
      <4>1. DataCount(r) = 1
        BY <1>4, <3>1 DEF DataRows, ReadRows, WriteRows, ModifyRows, UnstableRows, Row, DataCount
      <4>2. {i \in 1 .. Len(body) : body[i] \in S} = {1}
        BY <1>1, <2>4, <3>1, <4>1
      <4> QED
        BY <3>1, <4>2, SmallSetsAre DEF CountIn
    <3>2. CASE r.mode # "imm"
      <4>1. \A i \in 1 .. Len(body) : body[i] \notin S
        BY <1>1, <2>4, <3>2
      <4> QED
        BY <3>2, <4>1, CountOfNone
    <3> QED
      BY <3>1, <3>2
  <2>6. Listed(r) = 1 + OperandBytes(r.mode) + (IF r.mode = "imm" THEN 1 ELSE 0)
    <3>1. Form(r) = MODE_NAMES[r.mode]
      BY <1>4, <2>1, DataRowsAre DEF Form
    <3>2. LENGTHS(MODE_NAMES[r.mode])
            = 1 + OperandBytes(r.mode) + (IF r.mode = "imm" THEN 1 ELSE 0)
      BY <2>1 DEF Modes, MODE_NAMES, LENGTHS, OperandBytes
    <3>3. Listed(r) = LENGTHS(MODE_NAMES[r.mode])
      <4>1. Listed(r) = LENGTHS(MODE_NAMES[r.mode]) + 0
        BY <2>1, <3>1 DEF Listed
      <4>2. LENGTHS(MODE_NAMES[r.mode]) \in Nat
        BY DEF LENGTHS
      <4> QED
        BY <4>1, <4>2
    <3> QED
      BY <3>2, <3>3
  <2>7. CountIn(S, Opening(r) \o body) = 1 + OperandBytes(r.mode) + CountIn(S, body)
    BY <1>3, <2>1, <2>2, <2>3, <2>4
  <2> HIDE DEF S
  <2> QED
    BY <2>5, <2>6, <2>7 DEF S
<1>5. CASE r \in OwnRows
  <2>1. r \in OPCODES /\ r.mode = "none"
    BY <1>5, OtherRowsAre DEF OPCODES
  <2>2. ModeAccesses(r.mode) = <<>> /\ ModeAccesses(r.mode) \in Seq(Places)
    BY <2>1, TuplesAre DEF ModeAccesses
  <2>3. CountIn(S, ModeAccesses(r.mode)) = 0
    BY <2>2, CountOfNone
  <2>4. S = {"opcode", "operand"}
    BY <2>1 DEF OwnBytes
  <2>5. body \in Seq(Places)
    <3>1. CASE r.family = "branch"
      <4>1. body \in {<<"operand">>, <<"operand", "next">>, <<"operand", "next", "page">>}
        BY <3>1 DEF Bodies
      <4>2. \A a, b, c \in Places : <<a>> \in Seq(Places) /\ <<a, b>> \in Seq(Places)
                                     /\ <<a, b, c>> \in Seq(Places)
        OBVIOUS
      <4>3. "operand" \in Places /\ "next" \in Places /\ "page" \in Places
        BY DEF Places
      <4> QED
        BY <4>1, <4>2, <4>3
    <3>2. CASE r.family # "branch"
      BY <1>5, <3>2, OtherBodiesAre
    <3> QED
      BY <3>1, <3>2
  <2>6. CountIn(S, body) = OwnOperands(r.family)
    BY <1>5, <2>4, OwnBytesAre
  <2>7. Listed(r) = 1 + OwnOperands(r.family)
    <3>1. LENGTHS(Form(r)) + (IF r.family = "brk" THEN 1 ELSE 0) = 1 + OwnOperands(r.family)
      BY <1>5 DEF OwnRows, Row, Form, LENGTHS, OwnOperands
    <3> QED
      BY <2>1, <3>1 DEF Listed
  <2>8. CountIn(S, Opening(r) \o body) = 1 + 0 + CountIn(S, body)
    BY <1>3, <2>1, <2>2, <2>3, <2>5
  <2>9. OwnOperands(r.family) \in Nat
    BY <1>5 DEF OwnRows, Row, OwnOperands
  <2> HIDE DEF S
  <2> QED
    BY <2>6, <2>7, <2>8, <2>9 DEF S
<1>6. CASE r \in Lifecycle
  <2>1. r.family \in {"enter", "reset", "idle"} /\ r.mode = "none" /\ r \notin OPCODES
    BY <1>6 DEF Lifecycle, Row, OPCODES, ReadRows, WriteRows, ModifyRows, UnstableRows, OwnRows
  <2>2. Listed(r) = 0 /\ S = {"opcode", "operand"}
    BY <2>1 DEF Listed, OwnBytes
  <2>3. Opening(r) \in Seq(Places) /\ CountIn(S, Opening(r)) = 0
    <3>1. Opening(r) \in {<<"discarded", "discarded">>, <<"idle">>}
      BY <2>1 DEF Opening
    <3>2. Opening(r) \in Seq(Places)
      <4>1. CASE Opening(r) = <<"idle">>
        BY <4>1 DEF Places
      <4>2. CASE Opening(r) = <<"discarded", "discarded">>
        BY <4>2 DEF Places
      <4> QED
        BY <3>1, <4>1, <4>2
    <3>3. \A i \in 1 .. Len(Opening(r)) : Opening(r)[i] \notin S
      BY <2>2, <3>1
    <3> QED
      BY <3>2, <3>3, CountOfNone
  <2>4. body \in Seq(Places) /\ CountIn(S, body) = 0
    <3>1. body \in {<<"stack", "stack", "stack", "vector", "vector">>, <<>>}
      BY <2>1 DEF Bodies
    <3>2. body \in Seq(Places)
      <4>1. CASE body = <<>>
        BY <4>1
      <4>2. CASE body = <<"stack", "stack", "stack", "vector", "vector">>
        BY <4>2 DEF Places
      <4> QED
        BY <3>1, <4>1, <4>2
    <3>3. \A i \in 1 .. Len(body) : body[i] \notin S
      BY <2>2, <3>1
    <3> QED
      BY <3>2, <3>3, CountOfNone
  <2>5. CountIn(S, Opening(r) \o body) = CountIn(S, Opening(r)) + CountIn(S, body)
    BY <2>3, <2>4, CountOfConcat
  <2> HIDE DEF S
  <2> QED
    BY <2>2, <2>3, <2>4, <2>5 DEF S
<1> QED
  BY <1>4, <1>5, <1>6 DEF OPCODES, DataRows

LEMMA ListedIsSmall ==
  ASSUME NEW r \in OPCODES \cup Lifecycle
  PROVE  Listed(r) \in 0 .. 3
<1>1. CASE r \in Lifecycle
  BY <1>1 DEF Listed, OPCODES, ReadRows, WriteRows, ModifyRows, UnstableRows, OwnRows,
     Lifecycle, Row
<1>2. CASE r \in OPCODES /\ r.family # "brk"
  <2>1. LENGTHS(Form(r)) \in 1 .. 3
    BY DEF LENGTHS
  <2> QED
    BY <1>2, <2>1 DEF Listed
<1>3. CASE r \in OPCODES /\ r.family = "brk"
  <2>1. r.mode = "none"
    BY <1>3, DataRowsAre, OtherRowsAre DEF OPCODES, DataRows
  <2>2. LENGTHS(Form(r)) = 1
    BY <1>3, <2>1 DEF Form, LENGTHS
  <2> QED
    BY <1>3, <2>2 DEF Listed
<1> QED
  BY <1>1, <1>2, <1>3

LEMMA AccessConsumes ==
  ASSUME Types, ~ BetweenSteps
  PROVE  /\ CountIn(OwnBytes(row), todo) = Consumes + CountIn(OwnBytes(row), Tail(todo))
         /\ Consumes \in 0 .. 1 /\ CountIn(OwnBytes(row), Tail(todo)) \in Nat
<1>1. todo \in Seq(Places) /\ todo # <<>> /\ Access = todo[1] /\ Tail(todo) \in Seq(Places)
  BY TodoIs DEF Types, BetweenSteps
<1>2. Consumes = (IF todo[1] \in OwnBytes(row) THEN 1 ELSE 0) /\ Consumes \in 0 .. 1
  BY <1>1 DEF Consumes, OwnBytes
<1>3. CountIn(OwnBytes(row), todo)
        = (IF todo[1] \in OwnBytes(row) THEN 1 ELSE 0) + CountIn(OwnBytes(row), Tail(todo))
  BY <1>1, CountOfRest
<1>4. CountIn(OwnBytes(row), Tail(todo)) \in Nat
  BY <1>1, CountIsNat
<1> QED
  BY <1>2, <1>3, <1>4

LEMMA BeginLists ==
  ASSUME ListInv, NEW r \in OPCODES \cup Lifecycle, NEW body \in Bodies(r.family), Begin(r, body)
  PROVE  ListInv'
<1>1. Types' /\ IndexedShape' /\ ~ BetweenSteps'
  BY BeginShapes DEF ListInv
<1>2. row' = r /\ todo' = Opening(r) \o body /\ consumed' = 0
  BY DEF Begin
<1>3. CountIn(OwnBytes(r), Opening(r) \o body) = Listed(r) /\ Listed(r) \in Nat
  BY StepsConsume, ListedIsSmall
<1>4. BytesOwed'
  BY <1>2, <1>3 DEF BytesOwed
<1> QED
  BY <1>1, <1>2, <1>4 DEF ListInv, ListingIsConsumed

LEMMA IndexLists ==
  ASSUME ListInv, ~ BetweenSteps, NEW b \in Addresses, NEW i \in Bytes, Index(b, i)
  PROVE  ListInv'
<1>1. Types' /\ IndexedShape' /\ ~ BetweenSteps' /\ row' = row
  BY IndexShapes DEF ListInv
<1>2. /\ consumed' = consumed + Consumes
      /\ todo' = IF FixesUp(base', ea') THEN <<"fixup">> \o Tail(todo) ELSE Tail(todo)
  BY DEF Index
<1>3. /\ CountIn(OwnBytes(row), todo) = Consumes + CountIn(OwnBytes(row), Tail(todo))
      /\ Consumes \in 0 .. 1 /\ CountIn(OwnBytes(row), Tail(todo)) \in Nat
  BY AccessConsumes DEF ListInv
<1>4. CountIn(OwnBytes(row), todo') = CountIn(OwnBytes(row), Tail(todo))
  <2>1. <<"fixup">> \in Seq(Places) /\ Tail(todo) \in Seq(Places)
    BY TuplesAre, TodoIs DEF ListInv, Places
  <2>2. CountIn(OwnBytes(row), <<"fixup">>) = 0
    BY CountOfOne DEF OwnBytes
  <2>3. CountIn(OwnBytes(row), <<"fixup">> \o Tail(todo))
          = CountIn(OwnBytes(row), <<"fixup">>) + CountIn(OwnBytes(row), Tail(todo))
    BY <2>1, CountOfConcat
  <2> QED
    BY <1>2, <1>3, <2>2, <2>3
<1>5. /\ consumed \in 0 .. 3 /\ consumed + CountIn(OwnBytes(row), todo) = Listed(row)
      /\ Listed(row) \in 0 .. 3
  BY ListedIsSmall DEF ListInv, BytesOwed, Types
<1>6. consumed' \in 0 .. 3 /\ consumed' + CountIn(OwnBytes(row), todo') = Listed(row)
  BY <1>2, <1>3, <1>4, <1>5
<1> QED
  BY <1>1, <1>6 DEF ListInv, BytesOwed, ListingIsConsumed

LEMMA ContinueLists ==
  ASSUME ListInv, Continue
  PROVE  ListInv'
<1>1. Types' /\ IndexedShape' /\ ~ BetweenSteps' /\ row' = row /\ todo' = Tail(todo)
  BY ContinueShapes DEF ListInv
<1>2. consumed' = consumed + Consumes /\ ~ BetweenSteps
  BY DEF Continue
<1>3. /\ CountIn(OwnBytes(row), todo) = Consumes + CountIn(OwnBytes(row), Tail(todo))
      /\ Consumes \in 0 .. 1 /\ CountIn(OwnBytes(row), Tail(todo)) \in Nat
  BY <1>2, AccessConsumes DEF ListInv
<1>4. /\ consumed \in 0 .. 3 /\ consumed + CountIn(OwnBytes(row), todo) = Listed(row)
      /\ Listed(row) \in 0 .. 3
  BY <1>2, ListedIsSmall DEF ListInv, BytesOwed, Types
<1>5. consumed' \in 0 .. 3 /\ consumed' + CountIn(OwnBytes(row), todo') = Listed(row)
  BY <1>1, <1>2, <1>3, <1>4
<1> QED
  BY <1>1, <1>5 DEF ListInv, BytesOwed, ListingIsConsumed

LEMMA ReturnLists ==
  ASSUME ListInv, Return
  PROVE  ListInv'
<1>1. /\ Types' /\ IndexedShape' /\ BetweenSteps' /\ ~ BetweenSteps
      /\ Len(todo) = 1 /\ row' = row
  BY ReturnShapes DEF ListInv
<1>2. consumed' = consumed + Consumes
  BY DEF Return
<1>3. /\ CountIn(OwnBytes(row), todo) = Consumes + CountIn(OwnBytes(row), Tail(todo))
      /\ Consumes \in 0 .. 1
  BY <1>1, AccessConsumes DEF ListInv
<1>4. CountIn(OwnBytes(row), Tail(todo)) = 0
  <2>1. Len(Tail(todo)) = 0
    BY <1>1, TodoIs DEF ListInv
  <2>2. \A i \in 1 .. Len(Tail(todo)) : Tail(todo)[i] \notin OwnBytes(row)
    BY <2>1
  <2> QED
    BY <2>2, CountOfNone
<1>5. /\ consumed \in 0 .. 3 /\ consumed + CountIn(OwnBytes(row), todo) = Listed(row)
      /\ Listed(row) \in 0 .. 3
  BY <1>1, ListedIsSmall DEF ListInv, BytesOwed, Types
<1>6. consumed' = Listed(row) /\ consumed' \in 0 .. 3
  BY <1>2, <1>3, <1>4, <1>5
<1>7. ListingIsConsumed'
  BY <1>1, <1>6 DEF ListingIsConsumed, Listed
<1> QED
  BY <1>1, <1>6, <1>7 DEF ListInv, BytesOwed

LEMMA EmptyLists ==
  ASSUME ListInv, Raise \/ RestoreState
  PROVE  ListInv'
<1>1. Types' /\ IndexedShape' /\ BetweenSteps' /\ row' = row
  BY EmptyShapes DEF ListInv
<1>2. CASE Raise
  BY <1>1, <1>2 DEF Raise, ListInv, BytesOwed, ListingIsConsumed
<1>3. CASE RestoreState
  BY <1>1, <1>3 DEF RestoreState, ListInv, BytesOwed, ListingIsConsumed
<1> QED
  BY <1>2, <1>3

LEMMA ListingsHold == Spec => []ListInv
<1>1. ASSUME ListInv, [Next]_vars PROVE ListInv'
  <2>1. CASE UNCHANGED vars
    BY <1>1, <2>1 DEF vars, ListInv, Types, IndexedShape, BytesOwed, ListingIsConsumed,
       BetweenSteps
  <2>2. ASSUME NEW b \in Addresses, NEW i \in Bytes, Index(b, i) PROVE ListInv'
    <3>1. ~ BetweenSteps
      BY <2>2 DEF Index, Indexes, BetweenSteps
    <3> QED
      BY <1>1, <2>2, <3>1, IndexLists
  <2> QED
    BY <1>1, <2>1, <2>2, BeginLists, ContinueLists, ReturnLists, EmptyLists DEF Next
<1>2. ASSUME Init PROVE ListInv
  <2>1. Types /\ IndexedShape
    BY <1>2, InitCounts DEF CountInv
  <2>2. BetweenSteps /\ returned = 0 /\ consumed = 0
    BY <1>2 DEF Init, BetweenSteps
  <2> QED
    BY <2>1, <2>2 DEF ListInv, BytesOwed, ListingIsConsumed
<1>3. (Init => ListInv) /\ (ListInv /\ [Next]_vars => ListInv')
  BY <1>1, <1>2
<1> QED
  BY <1>3, PTL DEF Spec

(* For every row of the opcode map, whatever the base and the index, and   *)
(* whether or not callables raise: what the disassembler shows as an       *)
(* instruction is what step() has fetched as one.                          *)
THEOREM ListingsAreConsumed == Spec => []ListingIsConsumed
<1>1. ListInv => ListingIsConsumed
  BY DEF ListInv
<1> QED
  BY <1>1, ListingsHold, PTL
-----------------------------------------------------------------------------
(* No step is longer than 11 accesses, the base address not yet known one  *)
(* short of its fix-up; and no more than 2 cycles are added to a row's.    *)
LengthOwed ==
  ~ BetweenSteps => made >= 1 /\ made + Len(todo) + (IF Pending THEN 1 ELSE 0) <= 12

Bounds ==
  /\ made \in 0 .. 11 /\ LengthOwed
  /\ extra \in 0 .. 2 /\ touched \in 0 .. 4 /\ returned \in 0 .. 13
  /\ base \in Addresses /\ ea \in Addresses
  /\ halted \in BOOLEAN /\ spoiled \in BOOLEAN

LEMMA RowsAreShort ==
  ASSUME NEW r \in OPCODES \cup Lifecycle
  PROVE  r.cycles \in 1 .. 11 /\ (r.mode \in Indexed => r.cycles <= 8)
<1>1. r.cycles \in 1 .. 11
  BY DEF OPCODES, ReadRows, WriteRows, ModifyRows, UnstableRows, OwnRows, Lifecycle, Row
<1>2. ASSUME r.mode \in Indexed PROVE r.cycles <= 8
  <2>1. r \in DataRows
    BY <1>2, OtherRowsAre DEF Indexed, IndexedReads, IndexedWrites, OPCODES, DataRows
  <2> QED
    BY <2>1 DEF DataRows, ReadRows, WriteRows, ModifyRows, UnstableRows, Row
<1> QED
  BY <1>1, <1>2

LEMMA AddressesWrap ==
  /\ 0 \in Addresses
  /\ \A b \in Addresses, i \in Bytes : (b + i) % (Base * Base) \in Addresses
<1>1. Base * Base \in Nat /\ Base * Base > 0 /\ \A b \in Addresses, i \in Bytes : b + i \in Nat
  BY BaseAssumption DEF Addresses, Bytes
<1>2. ASSUME NEW n \in Nat, n > 0, NEW m \in Nat PROVE m % n \in 0 .. n - 1
  BY <1>2
<1> QED
  BY <1>1, <1>2 DEF Addresses

LEMMA BeginBounds ==
  ASSUME Bounds, NEW r \in OPCODES \cup Lifecycle, NEW body \in Bodies(r.family), Begin(r, body)
  PROVE  Bounds'
<1>1. /\ todo' = Opening(r) \o body /\ row' = r /\ made' = 1
      /\ base' = 0 /\ ea' = 0 /\ touched' = 0 /\ extra' = extra /\ returned' = returned
      /\ spoiled' = spoiled
  BY DEF Begin
<1>2. halted' \in BOOLEAN
  BY DEF Begin
<1>3. /\ Len(todo') \in Nat
      /\ r.family = "branch" =>
           /\ todo'[Len(todo')] \in {"operand", "next", "page"}
           /\ Len(todo') = r.cycles + BranchExtra(todo'[Len(todo')])
      /\ r.family # "branch" =>
           Len(todo') = r.cycles - (IF r.mode \in IndexedWrites THEN 1 ELSE 0)
  BY <1>1, StepsAre
<1>4. Len(todo') \in Nat /\ Len(todo') <= 11 /\ (r.mode \in Indexed => Len(todo') <= 8)
  <2>1. CASE r.family = "branch"
    <3>1. r.cycles = 2 /\ r.mode \notin Indexed
      <4>1. r \notin DataRows
        BY <2>1, DataRowsAre
      <4> QED
        BY <2>1, <4>1, OtherRowsAre DEF OPCODES, DataRows, Indexed, IndexedReads, IndexedWrites
    <3>2. BranchExtra(todo'[Len(todo')]) \in 0 .. 2
      BY <1>3, <2>1 DEF BranchExtra
    <3> QED
      BY <1>3, <2>1, <3>1, <3>2
  <2>2. CASE r.family # "branch"
    BY <1>3, <2>2, RowsAreShort
  <2> QED
    BY <2>1, <2>2
<1>5. LengthOwed'
  BY <1>1, <1>4 DEF LengthOwed, Pending
<1> QED
  BY <1>1, <1>2, <1>5, AddressesWrap DEF Bounds

LEMMA IndexBounds ==
  ASSUME TouchInv, Bounds, ~ BetweenSteps, NEW b \in Addresses, NEW i \in Bytes, Index(b, i)
  PROVE  Bounds'
<1>1. /\ ~ BetweenSteps' /\ Pending /\ ~ Pending' /\ made' = made + 1 /\ extra' = extra
      /\ base' = b /\ todo' \in Seq(Places)
      /\ Len(todo') = Len(todo) \/ Len(todo') = Len(todo) - 1
  BY IndexShapes DEF TouchInv, Types
<1>2. Len(todo) \in Nat /\ Len(todo') \in Nat /\ Len(todo') > 0 /\ made \in Nat
  BY <1>1 DEF TouchInv, Types, BetweenSteps
<1>3. made >= 1 /\ made + Len(todo) + 1 <= 12
  BY <1>1 DEF Bounds, LengthOwed
<1>4. made' \in 0 .. 11 /\ LengthOwed'
  BY <1>1, <1>2, <1>3 DEF LengthOwed
<1>5. /\ ea' \in Addresses /\ touched' \in 0 .. 4 /\ returned' = returned
      /\ halted' = halted /\ spoiled' = spoiled
  BY AddressesWrap DEF Index
<1> QED
  BY <1>1, <1>4, <1>5 DEF Bounds

LEMMA ContinueBounds ==
  ASSUME TouchInv, TouchInv', Bounds, Continue
  PROVE  Bounds'
<1>1. /\ ~ BetweenSteps' /\ row' = row /\ made' = made + 1 /\ Len(todo') = Len(todo) - 1
      /\ row.mode \in Indexed =>
           /\ Pending' <=> Pending
           /\ (Access = "fixup" \/ todo[2] = "data") <=> ~ Pending
  BY ContinueShapes DEF TouchInv
<1>2. /\ Len(todo) \in Nat /\ Len(todo) > 1 /\ made \in Nat /\ ~ BetweenSteps
      /\ base' = base /\ ea' = ea /\ returned' = returned /\ halted' = halted
      /\ spoiled' = spoiled
  BY DEF Continue, TouchInv, Types
<1>3. Pending' => Pending
  BY <1>1 DEF Pending
<1>4. made' \in 0 .. 11 /\ LengthOwed'
  BY <1>1, <1>2, <1>3 DEF Bounds, LengthOwed
<1>5. extra' \in 0 .. 2
  BY DEF Continue, ExtraAfter, Bounds
<1>6. touched' \in 0 .. 4
  <2>1. CASE row.mode \in Indexed /\ todo[2] = "data"
    <3>1. ~ Pending' /\ row'.mode \in Indexed
      BY <1>1, <2>1
    <3>2. touched' + Len(todo') <= 5 /\ touched' \in Nat
      BY <1>1, <3>1 DEF TouchInv, Touches, Types, Expected, DataCount
    <3> QED
      BY <1>1, <1>2, <3>2
  <2>2. CASE ~ (row.mode \in Indexed /\ todo[2] = "data")
    BY <2>2 DEF Continue, Bounds
  <2> QED
    BY <2>1, <2>2
<1> QED
  BY <1>2, <1>4, <1>5, <1>6 DEF Bounds

LEMMA ReturnBounds ==
  ASSUME TouchInv, Bounds, Return
  PROVE  Bounds'
<1>1. BetweenSteps' /\ made' = made
  BY ReturnShapes DEF TouchInv
<1>2. row.cycles \in 1 .. 11
  BY RowsAreShort DEF TouchInv, Types
<1> DEFINE e == ExtraAfter(Access, <<>>)
<1>3. e \in 0 .. 2
  BY DEF ExtraAfter, Bounds
<1>4. \/ returned' = row.cycles /\ extra' = e
      \/ returned' = row.cycles + e /\ extra' = 0
  BY DEF Return
<1>5. returned' \in 0 .. 13 /\ extra' \in 0 .. 2
  <2> HIDE DEF e
  <2> QED
    BY <1>2, <1>3, <1>4
<1>6. halted' \in BOOLEAN /\ spoiled' = spoiled
  BY DEF Return
<1>7. base' = base /\ ea' = ea /\ touched' = touched
  BY DEF Return
<1> QED
  BY <1>1, <1>5, <1>6, <1>7 DEF Bounds, LengthOwed

LEMMA EmptyBounds ==
  ASSUME TouchInv, Bounds, Raise \/ RestoreState
  PROVE  Bounds'
<1>1. BetweenSteps'
  BY EmptyShapes DEF TouchInv
<1>2. CASE Raise
  BY <1>1, <1>2 DEF Raise, Bounds, LengthOwed
<1>3. CASE RestoreState
  <2>1. halted' \in BOOLEAN /\ spoiled' \in BOOLEAN
    BY <1>3 DEF RestoreState
  <2>2. /\ made' = made /\ extra' = 0 /\ touched' = touched /\ returned' = returned
        /\ base' = base /\ ea' = ea
    BY <1>3 DEF RestoreState
  <2> QED
    BY <1>1, <2>1, <2>2 DEF Bounds, LengthOwed
<1> QED
  BY <1>2, <1>3

LEMMA BoundsHold == Spec => []Bounds
<1>1. ASSUME TouchInv, TouchInv', Bounds, [Next]_vars PROVE Bounds'
  <2>1. CASE UNCHANGED vars
    BY <1>1, <2>1 DEF vars, Bounds, LengthOwed, Pending, BetweenSteps
  <2>2. ASSUME NEW b \in Addresses, NEW i \in Bytes, Index(b, i) PROVE Bounds'
    <3>1. ~ BetweenSteps
      BY <2>2 DEF Index, Indexes, BetweenSteps
    <3> QED
      BY <1>1, <2>2, <3>1, IndexBounds
  <2> QED
    BY <1>1, <2>1, <2>2, BeginBounds, ContinueBounds, ReturnBounds, EmptyBounds DEF Next
<1>2. ASSUME Init PROVE Bounds
  <2>1. BetweenSteps /\ base \in Addresses /\ ea \in Addresses
    BY <1>2, AddressesWrap DEF Init, BetweenSteps
  <2>2. halted \in BOOLEAN /\ spoiled \in BOOLEAN
    BY <1>2 DEF Init
  <2>3. made = 0 /\ extra = 0 /\ touched = 0 /\ returned = 0
    BY <1>2 DEF Init
  <2> QED
    BY <2>1, <2>2, <2>3 DEF Bounds, LengthOwed
<1>3. (Init => Bounds) /\ (TouchInv /\ TouchInv' /\ Bounds /\ [Next]_vars => Bounds')
  BY <1>1, <1>2
<1> QED
  BY <1>3, TouchesHold, PTL DEF Spec

(* For every size of byte, and whatever a host that raises does next: a    *)
(* step makes at most 11 accesses, _extra is at most 2, and step() returns *)
(* at most 13.                                                             *)
THEOREM TypeCorrect == Spec => []TypeOK
<1>1. ASSUME ListInv, Bounds PROVE TypeOK
  <2>1. Len(todo) \in Nat /\ Len(todo) <= 11
    <3>1. todo \in Seq(Places) /\ made \in Nat
      BY <1>1 DEF ListInv, Types
    <3>2. CASE BetweenSteps
      BY <3>2 DEF BetweenSteps
    <3>3. CASE ~ BetweenSteps
      <4>1. made >= 1 /\ made + Len(todo) + (IF Pending THEN 1 ELSE 0) <= 12
        BY <1>1, <3>3 DEF Bounds, LengthOwed
      <4> QED
        BY <3>1, <4>1
    <3> QED
      BY <3>2, <3>3
  <2> QED
    BY <1>1, <2>1 DEF ListInv, Types, Bounds, TypeOK
<1>2. ListInv /\ Bounds => TypeOK
  BY <1>1
<1> QED
  BY <1>2, ListingsHold, BoundsHold, PTL
=============================================================================
