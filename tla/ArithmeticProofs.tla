-------------------------- MODULE ArithmeticProofs --------------------------
(***************************************************************************)
(* That the adder, the subtractor and the rotates are exact, whichever     *)
(* bytes they are given and whether or not the part has a decimal mode.    *)
(*                                                                         *)
(* A state holds what one operation computed (Computed), so that every     *)
(* property is a fact about the operators.  Those facts are linear once    *)
(* div and mod are read as digits (NibblesAre) and as one more or one less *)
(* turn of a byte (ByteOf).                                                *)
(***************************************************************************)
EXTENDS Arithmetic, TLAPS

Byte == 0..255

LEMMA NibblesAre ==
  ASSUME NEW x \in Byte
  PROVE  /\ LowNibble(x) = x % 16 /\ HighNibble(x) = 16 * (x \div 16)
         /\ x % 16 \in 0..15 /\ x \div 16 \in 0..15
         /\ x = 16 * (x \div 16) + (x % 16)
BY SMTT(30) DEF Byte, LowNibble, HighNibble

LEMMA ByteOf ==
  ASSUME NEW x \in -512..767
  PROVE  /\ x % 256 \in Byte
         /\ x % 256 = IF x < -256 THEN x + 512 ELSE IF x < 0 THEN x + 256
                      ELSE IF x < 256 THEN x ELSE IF x < 512 THEN x - 256 ELSE x - 512
BY SMTT(30) DEF Byte

LEMMA Bit7Is ==
  ASSUME NEW x \in 0..511
  PROVE  Bit7(x) = IF x \in 128..255 \/ x > 383 THEN 1 ELSE 0
BY SMTT(30) DEF Bit7

(* One decimal digit and its carry. *)
LEMMA DigitOf ==
  ASSUME NEW low \in 0..31
  PROVE  (low + 6) % 16 = IF low < 10 THEN low + 6 ELSE IF low < 26 THEN low - 10 ELSE low - 26
BY SMTT(30)

-----------------------------------------------------------------------------
(* The two settings of each operation, which the lemmas are about. *)
AddBinary(x, y, c)       == Add(x, y, c, FALSE)
AddDecimal(x, y, c)      == Add(x, y, c, TRUE)
SubtractBinary(x, y, c)  == Subtract(x, y, c, FALSE)
SubtractDecimal(x, y, c) == Subtract(x, y, c, TRUE)

LEMMA BinaryAdd ==
  ASSUME NEW x \in Byte, NEW y \in Byte, NEW c \in {0, 1},
         NEW r, r = AddBinary(x, y, c)
  PROVE  /\ r.value \in Byte /\ r.c \in {0, 1}
         /\ r.value + 256 * r.c = x + y + c
         /\ r.v = (Signed(x) + Signed(y) + c \notin -128..127)
<1> DEFINE total == x + y + c
<1>1. total \in 0..511 /\ total \in -512..767
  BY DEF Byte
<1>2. /\ r.value = total % 256 /\ r.v = Overflows(x, y, total)
      /\ r.c = IF total >= 256 THEN 1 ELSE 0
  BY DEF Add, AddBinary
<1>3. total % 256 = IF total < 256 THEN total ELSE total - 256
  BY <1>1, ByteOf
<1>4. /\ Bit7(x) = IF x > 127 THEN 1 ELSE 0
      /\ Bit7(y) = IF y > 127 THEN 1 ELSE 0
      /\ Bit7(total) = IF total \in 128..255 \/ total > 383 THEN 1 ELSE 0
  BY <1>1, Bit7Is DEF Byte
<1>5. Overflows(x, y, total) = (Signed(x) + Signed(y) + c \notin -128..127)
  BY <1>1, <1>4 DEF Overflows, Signed, Byte
<1>6. r.value \in Byte /\ r.c \in {0, 1} /\ r.value + 256 * r.c = x + y + c
  BY <1>1, <1>2, <1>3 DEF Byte
<1> QED
  BY <1>2, <1>5, <1>6, Zenon

(* What was added can be had back. *)
LEMMA BinaryAddUndone ==
  ASSUME NEW x \in Byte, NEW y \in Byte, NEW c \in {0, 1},
         NEW r, r = AddBinary(x, y, c)
  PROVE  (r.value - x - c) % 256 = y
<1>1. PICK value \in Byte, over \in {0, 1} : r.value = value /\ value + 256 * over = x + y + c
  <2>1. r.value \in Byte /\ r.c \in {0, 1} /\ r.value + 256 * r.c = x + y + c
    BY BinaryAdd
  <2> QED
    BY <2>1, Zenon
<1>2. value - x - c = y - 256 * over /\ y - 256 * over \in -512..767
  BY <1>1 DEF Byte
<1>3. (value - x - c) % 256 = y
  BY <1>2, ByteOf DEF Byte
<1> QED
  BY <1>1, <1>3

LEMMA DecimalAdd ==
  ASSUME NEW x \in Byte, NEW y \in Byte, NEW c \in {0, 1}, IsBCD(x), IsBCD(y),
         NEW r, r = AddDecimal(x, y, c)
  PROVE  /\ IsBCD(r.value)
         /\ Decimal(r.value) + 100 * r.c = Decimal(x) + Decimal(y) + c
<1> DEFINE xh == x \div 16  xl == x % 16  yh == y \div 16  yl == y % 16
           low == xl + yl + c
           half == HalfAdjusted(x, y, c)
           total == Adjusted(half)
<1>1. xh \in 0..9 /\ xl \in 0..9 /\ yh \in 0..9 /\ yl \in 0..9
  BY NibblesAre DEF IsBCD
<1>2. low \in 0..19
  BY <1>1
<1>3. half = 16 * xh + 16 * yh + (IF low >= 10 THEN ((low + 6) % 16) + 16 ELSE low)
  BY NibblesAre DEF HalfAdjusted
<1>4. r.value = total % 256 /\ r.c = IF total >= 256 THEN 1 ELSE 0
  BY DEF Add, AddDecimal
<1>5. low >= 10 => (low + 6) % 16 = low - 10
  BY <1>2, DigitOf
<1> HIDE DEF low, half, total, xh, xl, yh, yl
<1> DEFINE carried == IF low >= 10 THEN 1 ELSE 0
           digit == low - 10 * carried
           tens == xh + yh + carried
<1>6. digit \in 0..9 /\ tens \in 0..19 /\ carried \in {0, 1}
  BY <1>1, <1>2
<1>7. half = 16 * tens + digit
  BY <1>1, <1>2, <1>3, <1>5
<1> HIDE DEF tens, digit, carried
<1> DEFINE hundreds == IF tens >= 10 THEN 1 ELSE 0
           ten == tens - 10 * hundreds
<1>8. total = 16 * ten + digit + 256 * hundreds
  BY <1>6, <1>7 DEF Adjusted, total
<1>9. ten \in 0..9 /\ hundreds \in {0, 1} /\ (16 * ten + digit) \in 0..153
  BY <1>6
<1> HIDE DEF ten, hundreds
<1>10. r.value = 16 * ten + digit /\ r.c = hundreds
  BY <1>4, <1>6, <1>8, <1>9
<1>11. (16 * ten + digit) % 16 = digit /\ (16 * ten + digit) \div 16 = ten
  BY <1>6, <1>9
<1>12. IsBCD(r.value) /\ Decimal(r.value) = 10 * ten + digit
  BY <1>6, <1>9, <1>10, <1>11 DEF IsBCD, Decimal
<1>13. 10 * ten + digit + 100 * hundreds = (10 * xh + xl) + (10 * yh + yl) + c
  BY <1>1, <1>2, <1>6, <1>9 DEF ten, tens, digit, low
<1>14. Decimal(x) = 10 * xh + xl /\ Decimal(y) = 10 * yh + yl
  BY DEF Decimal, xh, xl, yh, yl
<1> QED
  BY <1>10, <1>12, <1>13, <1>14

LEMMA DecimalSubtract ==
  ASSUME NEW x \in Byte, NEW y \in Byte, NEW c \in {0, 1}, IsBCD(x), IsBCD(y),
         NEW r, r = SubtractDecimal(x, y, c)
  PROVE  /\ IsBCD(r.value)
         /\ Decimal(r.value) - 100 * (1 - r.c) = Decimal(x) - Decimal(y) - (1 - c)
<1> DEFINE xh == x \div 16  xl == x % 16  yh == y \div 16  yl == y % 16
           low == xl - yl - (1 - c)
           borrowed == IF low < 0 THEN 1 ELSE 0
           high == xh - yh - borrowed
           lowAdjusted == IF low < 0 THEN low - 6 ELSE low
           highAdjusted == IF high < 0 THEN high - 6 ELSE high
<1>1. xh \in 0..9 /\ xl \in 0..9 /\ yh \in 0..9 /\ yl \in 0..9
  BY NibblesAre DEF IsBCD
<1>2. /\ r.value = (highAdjusted * 16 + (lowAdjusted % 16)) % 256
      /\ r.c = IF x - y - (1 - c) >= 0 THEN 1 ELSE 0
  BY DEF SubtractDecimal, Subtract, DecimalDifference, LowNibble
<1>3. x = 16 * xh + xl /\ y = 16 * yh + yl
  BY NibblesAre
<1>4. Decimal(x) = 10 * xh + xl /\ Decimal(y) = 10 * yh + yl
  BY DEF Decimal
<1> HIDE DEF xh, xl, yh, yl
<1> DEFINE digit == low + 10 * borrowed
           under == IF high < 0 THEN 1 ELSE 0
           ten == high + 10 * under
<1>5. low \in -10..9 /\ borrowed \in {0, 1} /\ digit \in 0..9
  BY <1>1
<1>6. lowAdjusted % 16 = digit
  <2>1. lowAdjusted = digit - 16 * borrowed
    BY <1>5
  <2> HIDE DEF lowAdjusted, digit, borrowed
  <2> QED
    BY <1>5, <2>1, SMTT(30)
<1>7. high \in -10..9 /\ under \in {0, 1} /\ ten \in 0..9 /\ highAdjusted = ten - 16 * under
  BY <1>1, <1>5
<1>8. x - y - (1 - c) = 16 * high + low + 16 * borrowed
  BY <1>1, <1>3
<1>9. low + 16 * borrowed \in 0..15
  BY <1>5
<1>10. r.c = 1 - under
  BY <1>2, <1>5, <1>7, <1>8, <1>9
<1> HIDE DEF low, digit, borrowed, high, under, ten, lowAdjusted, highAdjusted
<1>11. r.value = (ten * 16 + digit - 256 * under) % 256
  BY <1>2, <1>5, <1>6, <1>7
<1>12. r.value = ten * 16 + digit
  BY <1>5, <1>7, <1>11, ByteOf
<1>13. (ten * 16 + digit) % 16 = digit /\ (ten * 16 + digit) \div 16 = ten
  BY <1>5, <1>7
<1>14. IsBCD(r.value) /\ Decimal(r.value) = 10 * ten + digit
  BY <1>5, <1>7, <1>12, <1>13 DEF IsBCD, Decimal
<1>15. 10 * ten + digit - 100 * under = (10 * xh + xl) - (10 * yh + yl) - (1 - c)
  BY <1>1, <1>5, <1>7 DEF ten, digit, low, high
<1>16. Decimal(r.value) - 100 * (1 - r.c) = Decimal(x) - Decimal(y) - (1 - c)
  BY <1>4, <1>5, <1>7, <1>10, <1>14, <1>15
<1> QED
  BY <1>14, <1>16

(* A difference is the sum with the complement, flags and all; decimal     *)
(* mode changes what is left in A and nothing else.                        *)
LEMMA Complement ==
  ASSUME NEW x \in Byte, NEW y \in Byte, NEW c \in {0, 1},
         NEW sum, sum = AddBinary(x, 255 - y, c),
         NEW r, r = SubtractDecimal(x, y, c)
  PROVE  /\ SubtractBinary(x, y, c) = sum
         /\ r = [sum EXCEPT !.value = r.value]
<1> DEFINE total == x + (255 - y) + c
           difference == x - y - (1 - c)
           binary == difference % 256
<1>1. difference = total - 256 /\ total \in 0..511 /\ difference \in -256..255
  BY DEF Byte
<1>2. total % 256 = binary /\ binary \in Byte
  BY <1>1, ByteOf
<1>3. binary = IF total < 256 THEN total ELSE total - 256
  BY <1>1, ByteOf
<1>4. Bit7(total) = Bit7(binary)
  BY <1>1, <1>3, Bit7Is DEF Byte
<1>5. Bit7(255 - y) = 1 - Bit7(y) /\ Bit7(x) \in {0, 1} /\ Bit7(y) \in {0, 1}
  BY Bit7Is DEF Byte
<1>6. Bit7(binary) \in {0, 1}
  BY <1>2, Bit7Is DEF Byte
<1>7. Overflows(x, 255 - y, total) = (Bit7(x) # Bit7(binary) /\ Bit7(x) # Bit7(y))
  BY <1>4, <1>5, <1>6 DEF Overflows
<1>8. (IF total >= 256 THEN 1 ELSE 0) = (IF difference >= 0 THEN 1 ELSE 0)
  BY <1>1
<1> DEFINE flagged(value) ==
             [value |-> value, n |-> Bit7(binary),
              v |-> Bit7(x) # Bit7(binary) /\ Bit7(x) # Bit7(y),
              z |-> binary = 0, c |-> IF difference >= 0 THEN 1 ELSE 0]
<1>9. sum = [value |-> total % 256, n |-> Bit7(total), v |-> Overflows(x, 255 - y, total),
             z |-> total % 256 = 0, c |-> IF total >= 256 THEN 1 ELSE 0]
  BY DEF Add, AddBinary
<1>10. SubtractBinary(x, y, c) = flagged(binary)
  BY DEF Subtract, SubtractBinary
<1>11. r = flagged(DecimalDifference(x, y, 1 - c))
  BY DEF Subtract, SubtractDecimal
<1> HIDE DEF total, difference, binary
<1>12. sum = flagged(binary)
  BY <1>2, <1>4, <1>7, <1>8, <1>9
<1>13. \A u, w : flagged(u) = [flagged(w) EXCEPT !.value = flagged(u).value]
  OBVIOUS
<1> HIDE DEF flagged
<1> QED
  BY <1>10, <1>11, <1>12, <1>13

(* What a rotate to the right shifts out, a rotate to the left shifts in.  *)
LEMMA RotatesInvert ==
  ASSUME NEW x \in Byte, NEW c \in {0, 1},
         NEW right, right = Ror(x, c)
  PROVE  /\ right.value \in Byte /\ right.c \in {0, 1} /\ right.c = x % 2
         /\ Rol(right.value, right.c).value = x /\ Rol(right.value, right.c).c = c
<1> DEFINE half == x \div 2
           bit == x % 2
           value == half + 128 * c
<1>1. half \in 0..127 /\ bit \in {0, 1} /\ x = 2 * half + bit
  BY SMTT(30) DEF Byte
<1>2. right.value = value /\ right.c = bit
  BY DEF Ror, Plain
<1>3. value \in Byte /\ Bit7(value) = c
  BY <1>1, Bit7Is DEF Byte
<1>4. (2 * value + bit) % 256 = x
  BY <1>1, ByteOf DEF Byte
<1>5. Rol(value, bit).value = (2 * value + bit) % 256 /\ Rol(value, bit).c = Bit7(value)
  BY DEF Rol, Plain
<1> HIDE DEF value, bit, half
<1> QED
  BY <1>1, <1>2, <1>3, <1>4, <1>5 DEF bit

-----------------------------------------------------------------------------
(* A state holds what its operation computed from the operands it keeps.   *)
Incremented(value) == (value + 1) % 256

Computed ==
  /\ op = "adc" => out = Add(a, m, carry, IsDecimal)
  /\ op = "sbc" => out = Subtract(a, m, carry, IsDecimal)
  /\ op = "rra" => out = Add(a, Ror(m, carry).value, Ror(m, carry).c, IsDecimal)
  /\ op = "isc" => out = Subtract(a, Incremented(m), carry, IsDecimal)

IInv == a \in Byte /\ m \in Byte /\ carry \in {0, 1} /\ d \in BOOLEAN /\ Computed

LEMMA IInvHolds == Spec => []IInv
<1>1. Init => IInv
  BY OperandsAssumption DEF Init, IInv, Computed, Byte
<1>2. IInv /\ [Next]_vars => IInv'
  <2> SUFFICES ASSUME IInv, [Next]_vars PROVE IInv'
    OBVIOUS
  <2> USE DEF IInv, Operate, IsDecimal
  <2>1. CASE Adc
    BY <2>1 DEF Adc, Computed
  <2>2. CASE Sbc
    BY <2>2 DEF Sbc, Computed
  <2>3. CASE Rra
    BY <2>3 DEF Rra, Computed
  <2>4. CASE Isc
    BY <2>4 DEF Isc, Computed, Incremented
  <2>5. CASE UNCHANGED vars
    BY <2>5 DEF vars, Computed
  <2> QED
    BY <2>1, <2>2, <2>3, <2>4, <2>5 DEF Next
<1> QED
  BY <1>1, <1>2, PTL DEF Spec

(* A binary ADC leaves the unsigned sum in A and C, and V says whether the *)
(* signed sum fits a byte (_alu.py, add), for all bytes.                   *)
THEOREM BinarySums == Spec => []BinarySumIsExact
<1>1. IInv => BinarySumIsExact
  <2> SUFFICES ASSUME IInv, op = "adc", ~ IsDecimal
               PROVE  /\ out.value + 256 * out.c = a + m + carry
                      /\ out.v = (Signed(a) + Signed(m) + carry \notin -128..127)
    BY DEF BinarySumIsExact
  <2>1. IsDecimal = FALSE
    BY DecimalModeAssumption DEF IInv, IsDecimal
  <2>2. out = AddBinary(a, m, carry)
    BY <2>1 DEF IInv, Computed, AddBinary
  <2> QED
    BY <2>2, BinaryAdd DEF IInv
<1> QED
  BY <1>1, IInvHolds, PTL

(* A decimal ADC of two BCD bytes leaves their BCD sum in A and C, and Z   *)
(* is that of the binary sum, of any two bytes (add).                      *)
THEOREM DecimalSums == Spec => []DecimalSumIsExact
<1>1. IInv => DecimalSumIsExact
  <2> SUFFICES ASSUME IInv, op = "adc", IsDecimal
               PROVE  /\ IsBCD(a) /\ IsBCD(m) =>
                           /\ IsBCD(out.value)
                           /\ Decimal(out.value) + 100 * out.c
                                 = Decimal(a) + Decimal(m) + carry
                      /\ out.z = (a + m + carry \in {0, 256})
    BY DEF DecimalSumIsExact
  <2>1. IsDecimal = TRUE
    BY DecimalModeAssumption DEF IInv, IsDecimal
  <2>2. out = AddDecimal(a, m, carry)
    BY <2>1 DEF IInv, Computed, AddDecimal
  <2>3. out.z = ((a + m + carry) % 256 = 0)
    BY <2>2 DEF Add, AddDecimal
  <2>4. (a + m + carry) % 256 = 0 <=> a + m + carry \in {0, 256}
    <3>1. a + m + carry \in 0..511
      BY DEF IInv, Byte
    <3> QED
      BY <3>1
  <2> QED
    BY <2>2, <2>3, <2>4, DecimalAdd DEF IInv
<1> QED
  BY <1>1, IInvHolds, PTL

(* A decimal SBC of two BCD bytes leaves their BCD difference, and C says  *)
(* whether it borrowed a hundred (subtract).                               *)
THEOREM DecimalDifferences == Spec => []DecimalDifferenceIsExact
<1>1. IInv => DecimalDifferenceIsExact
  <2> SUFFICES ASSUME IInv, op = "sbc", IsDecimal, IsBCD(a), IsBCD(m)
               PROVE  /\ IsBCD(out.value)
                      /\ Decimal(out.value) - 100 * (1 - out.c)
                            = Decimal(a) - Decimal(m) - (1 - carry)
    BY DEF DecimalDifferenceIsExact
  <2>1. IsDecimal = TRUE
    BY DecimalModeAssumption DEF IInv, IsDecimal
  <2>2. out = SubtractDecimal(a, m, carry)
    BY <2>1 DEF IInv, Computed, SubtractDecimal
  <2> QED
    BY <2>2, DecimalSubtract DEF IInv
<1> QED
  BY <1>1, IInvHolds, PTL

(* SBC and ISC add the complement of their byte: value and flags in        *)
(* binary, the flags in decimal mode too (subtract, _op_isc).              *)
THEOREM DifferencesAddComplements == Spec => []SbcAddsComplement
<1>1. IInv => SbcAddsComplement
  <2> DEFINE byte == IF op = "sbc" THEN m ELSE IF m = 255 THEN 0 ELSE m + 1
             sum  == AddBinary(a, 255 - byte, carry)
  <2> SUFFICES ASSUME IInv, op \in {"sbc", "isc"}
               PROVE  IF IsDecimal THEN out = [sum EXCEPT !.value = out.value] ELSE out = sum
    BY DEF SbcAddsComplement, AddBinary
  <2>1. byte \in Byte /\ (op = "isc" => byte = Incremented(m))
    BY ByteOf DEF IInv, Incremented, Byte
  <2>2. out = Subtract(a, byte, carry, IsDecimal)
    BY <2>1 DEF IInv, Computed
  <2>3. IsDecimal \in BOOLEAN
    BY DecimalModeAssumption DEF IInv, IsDecimal
  <2> HIDE DEF byte
  <2>4. /\ SubtractBinary(a, byte, carry) = sum
        /\ SubtractDecimal(a, byte, carry)
             = [sum EXCEPT !.value = SubtractDecimal(a, byte, carry).value]
    BY <2>1, Complement DEF IInv
  <2> HIDE DEF sum
  <2>5. CASE IsDecimal
    <3>1. out = SubtractDecimal(a, byte, carry)
      BY <2>2, <2>3, <2>5 DEF SubtractDecimal
    <3> QED
      BY <2>4, <2>5, <3>1
  <2>6. CASE ~ IsDecimal
    <3>1. out = SubtractBinary(a, byte, carry)
      BY <2>2, <2>3, <2>6 DEF SubtractBinary
    <3> QED
      BY <2>4, <2>6, <3>1
  <2> QED
    BY <2>5, <2>6
<1> QED
  BY <1>1, IInvHolds, PTL

(* What RRA added to A, and the carry it added, rotate back to the byte    *)
(* and the carry it was given (_ror, _op_rra).                             *)
THEOREM RotatesLoseNothing == Spec => []RotateLosesNothing
<1>1. IInv => RotateLosesNothing
  <2> SUFFICES ASSUME IInv, op = "rra", ~ IsDecimal,
                      NEW right, right = Ror(m, carry),
                      NEW added, added = (out.value - a - (m % 2)) % 256
               PROVE  Rol(added, m % 2).value = m /\ Rol(added, m % 2).c = carry
    BY DEF RotateLosesNothing
  <2>1. /\ right.value \in Byte /\ right.c \in {0, 1} /\ right.c = m % 2
        /\ Rol(right.value, right.c).value = m /\ Rol(right.value, right.c).c = carry
    BY RotatesInvert DEF IInv
  <2>2. IsDecimal = FALSE
    BY DecimalModeAssumption DEF IInv, IsDecimal
  <2>3. out = AddBinary(a, right.value, right.c)
    BY <2>2 DEF IInv, Computed, AddBinary
  <2>4. (out.value - a - right.c) % 256 = right.value
    BY <2>1, <2>3, BinaryAddUndone DEF IInv
  <2> QED
    BY <2>1, <2>4
<1> QED
  BY <1>1, IInvHolds, PTL
=============================================================================
