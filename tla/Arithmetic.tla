---------------------------- MODULE Arithmetic -----------------------------
(***************************************************************************)
(* The adder of _alu.py, binary and NMOS decimal, and the rotates of       *)
(* _shifts.py, on 8-bit values.  A state holds one operation's operands    *)
(* and, once it has run, what it left in A (or in memory) and P.           *)
(***************************************************************************)
EXTENDS Integers

CONSTANTS
  Operands,      \* the bytes the operations are given, both sides
  DecimalMode    \* _decimal_mode # 0: FALSE on an RP2A03

ASSUME OperandsAssumption    == Operands \subseteq 0..255
ASSUME DecimalModeAssumption == DecimalMode \in BOOLEAN

VARIABLES
  op,      \* the operation that ran, or "none"
  a, m,    \* its operands: the register and the byte read
  carry,   \* C before it, 0 or 1
  d,       \* D before it
  out      \* [value, n, v, z, c]: the result and the flags

vars == <<op, a, m, carry, d, out>>

Bit7(value) == (value \div 128) % 2

(* The flags NZ gives a byte, with no V and no carry. *)
Plain(value) == [value |-> value, n |-> Bit7(value), v |-> FALSE, z |-> value = 0, c |-> 0]

-----------------------------------------------------------------------------
(* Overflow, as "~(a ^ value) & (a ^ total) & 0x80" finds it. *)
Overflows(x, y, total) == Bit7(x) = Bit7(y) /\ Bit7(x) # Bit7(total)

LowNibble(value) == value % 16
HighNibble(value) == value - (value % 16)

(* Faulty: a digit of ten is left alone. *)
HalfAdjustedLate(x, y, c) ==
  LET low == LowNibble(x) + LowNibble(y) + c
  IN  HighNibble(x) + HighNibble(y) + (IF low > 10 THEN ((low + 6) % 16) + 16 ELSE low)

(* The decimal sum after the low digit's adjustment, and after the high's. *)
HalfAdjusted(x, y, c) ==
  LET low == LowNibble(x) + LowNibble(y) + c
  IN  HighNibble(x) + HighNibble(y) + (IF low >= 10 THEN ((low + 6) % 16) + 16 ELSE low)

Adjusted(half) == IF half >= 160 THEN half + 96 ELSE half

(* Faulty: V is the carry out. *)
AddCarryAsOverflow(x, y, c, decimal) ==
  LET binary == x + y + c
      half   == IF decimal THEN HalfAdjusted(x, y, c) ELSE binary
      total  == IF decimal THEN Adjusted(half) ELSE binary
  IN  [value |-> total % 256, n |-> Bit7(half), v |-> total >= 256,
       z |-> binary % 256 = 0, c |-> IF total >= 256 THEN 1 ELSE 0]

(* Faulty: Z is that of the byte left in A. *)
AddZeroOfResult(x, y, c, decimal) ==
  LET binary == x + y + c
      half   == IF decimal THEN HalfAdjusted(x, y, c) ELSE binary
      total  == IF decimal THEN Adjusted(half) ELSE binary
  IN  [value |-> total % 256, n |-> Bit7(half), v |-> Overflows(x, y, half),
       z |-> total % 256 = 0, c |-> IF total >= 256 THEN 1 ELSE 0]

(* add: N and V come from between the two adjustments, Z from before both. *)
Add(x, y, c, decimal) ==
  LET binary == x + y + c
      half   == IF decimal THEN HalfAdjusted(x, y, c) ELSE binary
      total  == IF decimal THEN Adjusted(half) ELSE binary
  IN  [value |-> total % 256, n |-> Bit7(half), v |-> Overflows(x, y, half),
       z |-> binary % 256 = 0, c |-> IF total >= 256 THEN 1 ELSE 0]

-----------------------------------------------------------------------------
(* Faulty: the borrow of the low digit does not reach the high one. *)
DecimalDifferenceUnborrowed(x, y, borrow) ==
  LET low  == LowNibble(x) - LowNibble(y) - borrow
      high == (x \div 16) - (y \div 16)
      lowAdjusted == IF low < 0 THEN low - 6 ELSE low
  IN  ((IF high < 0 THEN high - 6 ELSE high) * 16 + (lowAdjusted % 16)) % 256

(* subtract's A in decimal mode. *)
DecimalDifference(x, y, borrow) ==
  LET low  == LowNibble(x) - LowNibble(y) - borrow
      high == (x \div 16) - (y \div 16) - (IF low < 0 THEN 1 ELSE 0)
      lowAdjusted == IF low < 0 THEN low - 6 ELSE low
  IN  ((IF high < 0 THEN high - 6 ELSE high) * 16 + (lowAdjusted % 16)) % 256

(* Faulty: the operands of the overflow test as for a sum. *)
SubtractAddsOverflow(x, y, c, decimal) ==
  LET difference == x - y - (1 - c)
      binary     == difference % 256
  IN  [value |-> IF decimal THEN DecimalDifference(x, y, 1 - c) ELSE binary,
       n |-> Bit7(binary), v |-> Overflows(x, y, binary),
       z |-> binary = 0, c |-> IF difference >= 0 THEN 1 ELSE 0]

Subtract(x, y, c, decimal) ==
  LET difference == x - y - (1 - c)
      binary     == difference % 256
  IN  [value |-> IF decimal THEN DecimalDifference(x, y, 1 - c) ELSE binary,
       n |-> Bit7(binary),
       v |-> Bit7(x) # Bit7(binary) /\ Bit7(x) # Bit7(y),
       z |-> binary = 0, c |-> IF difference >= 0 THEN 1 ELSE 0]

Rol(value, c) == [Plain((2 * value + c) % 256) EXCEPT !.c = Bit7(value)]

(* Faulty: the old carry is shifted into bit 6. *)
RorShort(value, c) == [Plain((value \div 2) + 64 * c) EXCEPT !.c = value % 2]

Ror(value, c) == [Plain((value \div 2) + 128 * c) EXCEPT !.c = value % 2]

-----------------------------------------------------------------------------
Init ==
  /\ op = "none" /\ out = Plain(0)
  /\ a \in Operands /\ m \in Operands /\ carry \in {0, 1} /\ d \in BOOLEAN

Operate(name, result) ==
  /\ op = "none"
  /\ op' = name /\ out' = result
  /\ UNCHANGED <<a, m, carry, d>>

Adc == Operate("adc", Add(a, m, carry, d /\ DecimalMode))
Sbc == Operate("sbc", Subtract(a, m, carry, d /\ DecimalMode))

(* RRA adds the rotated byte with the carry the rotate left. *)
Rra == LET rotated == Ror(m, carry)
       IN  Operate("rra", Add(a, rotated.value, rotated.c, d /\ DecimalMode))

(* ISC subtracts the incremented byte, with the carry that came in.        *)
Isc == Operate("isc", Subtract(a, (m + 1) % 256, carry, d /\ DecimalMode))

Next == Adc \/ Sbc \/ Rra \/ Isc
Spec == Init /\ [][Next]_vars

-----------------------------------------------------------------------------
Signed(value) == IF value > 127 THEN value - 256 ELSE value
IsBCD(value)  == value % 16 < 10 /\ value \div 16 < 10
Decimal(value) == 10 * (value \div 16) + (value % 16)
IsDecimal == d /\ DecimalMode

(* A binary ADC leaves the unsigned sum in A and C, and V says whether the *)
(* sum of the two signed values does not fit a signed byte.                *)
BinarySumIsExact ==
  (op = "adc" /\ ~ IsDecimal) =>
    /\ out.value + 256 * out.c = a + m + carry
    /\ out.v = (Signed(a) + Signed(m) + carry \notin -128..127)

(* A decimal ADC of two BCD bytes leaves their BCD sum in A and C.  Z says *)
(* of any two bytes whether the byte of their binary sum is zero, not      *)
(* whether A is: 99 and 1 leave A zero and Z clear (NMS p. 73).            *)
DecimalSumIsExact ==
  (op = "adc" /\ IsDecimal) =>
    /\ IsBCD(a) /\ IsBCD(m) =>
         /\ IsBCD(out.value)
         /\ Decimal(out.value) + 100 * out.c = Decimal(a) + Decimal(m) + carry
    /\ out.z = (a + m + carry \in {0, 256})

(* SBC and ISC add the complement of their byte, for ISC of the one after  *)
(* it: in binary A and all four flags are those of ADC, and in decimal     *)
(* mode the flags still are (NMS p. 26).                                   *)
SbcAddsComplement ==
  op \in {"sbc", "isc"} =>
    LET byte == IF op = "sbc" THEN m ELSE IF m = 255 THEN 0 ELSE m + 1
        sum  == Add(a, 255 - byte, carry, FALSE)
    IN  IF IsDecimal THEN out = [sum EXCEPT !.value = out.value] ELSE out = sum

(* A decimal SBC of two BCD bytes leaves their BCD difference, and C says  *)
(* whether it had to borrow a hundred.                                     *)
DecimalDifferenceIsExact ==
  (op = "sbc" /\ IsDecimal /\ IsBCD(a) /\ IsBCD(m)) =>
    /\ IsBCD(out.value)
    /\ Decimal(out.value) - 100 * (1 - out.c) = Decimal(a) - Decimal(m) - (1 - carry)

(* RRA's rotate loses no bit: what it added to A, with the carry it added, *)
(* rotates back to the byte that was read.                                 *)
RotateLosesNothing ==
  (op = "rra" /\ ~ IsDecimal) =>
    LET added == (out.value - a - (m % 2)) % 256
    IN  Rol(added, m % 2).value = m /\ Rol(added, m % 2).c = carry
=============================================================================
