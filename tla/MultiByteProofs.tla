-------------------------- MODULE MultiByteProofs --------------------------
(***************************************************************************)
(* Proofs that the loops of MultiByte compute what they should, for every  *)
(* number of bytes and every byte.                                         *)
(*                                                                         *)
(* Each arithmetic instruction is first shown exact for one byte: result   *)
(* and carry together are the sum, the difference, the decimal sum, the    *)
(* double or the half.  The invariant of the loops then only has to move   *)
(* the carry from one weight to the next.  For the logic, the parity and   *)
(* the rotations a byte is taken apart into its eight bits, and what an    *)
(* instruction does to each of them is put together again.                 *)
(***************************************************************************)
EXTENDS MultiByte, TLAPS

-----------------------------------------------------------------------------
(* Flags, bits and bytes have their ranges.                                *)

LEMMA FlagType == ASSUME NEW c PROVE Flag(c) \in BitVal
BY DEF Flag, BitVal

LEMMA BitType == ASSUME NEW v, NEW i PROVE Bit(v, i) \in BitVal
BY FlagType DEF Bit

LEMMA FromBitsType ==
    ASSUME NEW b \in [0 .. 7 -> BitVal] PROVE FromBits(b) \in Byte
<1>1. \A i \in 0 .. 7 : b[i] \in BitVal
  OBVIOUS
<1>2. /\ b[0] \in 0 .. 1 /\ b[1] \in 0 .. 1 /\ b[2] \in 0 .. 1
      /\ b[3] \in 0 .. 1 /\ b[4] \in 0 .. 1 /\ b[5] \in 0 .. 1
      /\ b[6] \in 0 .. 1 /\ b[7] \in 0 .. 1
  BY <1>1 DEF BitVal
<1> QED  BY <1>2 DEF FromBits, Byte

LEMMA OrType == ASSUME NEW v, NEW w PROVE Or(v, w) \in Byte
<1>1. [i \in 0 .. 7 |-> Flag(Bit(v, i) = 1 \/ Bit(w, i) = 1)]
        \in [0 .. 7 -> BitVal]
  BY FlagType
<1> QED  BY <1>1, FromBitsType DEF Or

LEMMA ParityType == ASSUME NEW v PROVE get_parity(v) \in BitVal
<1>1. Bit(27030, Xor(v \div 16, v) % 16) \in BitVal
  BY BitType
<1> QED  BY <1>1 DEF get_parity, BitVal

(* UPDATE_FLAGS_ZPS changes three flags and nothing else.                  *)
LEMMA ZPSKeeps ==
    ASSUME NEW q \in Registers
    PROVE  /\ ZPS(q) \in Registers
           /\ ZPS(q).a = q.a
           /\ ZPS(q).carry = q.carry
           /\ ZPS(q).half_carry = q.half_carry
<1>1. /\ get_parity(q.a) \in BitVal
      /\ Flag(q.a = 0) \in BitVal
      /\ Flag(q.a >= 128) \in BitVal
  BY ParityType, FlagType
<1> QED  BY <1>1 DEF ZPS, Registers

-----------------------------------------------------------------------------
(* One instruction at a time.                                              *)

(* The arithmetic alone: the provers reason about numbers only where no    *)
(* record is in sight.                                                     *)
AddNumbers(v, w, c, sum, carry, half) ==
    /\ w \in 0 .. 255 /\ c \in 0 .. 1
    /\ sum \in 0 .. 255 /\ carry \in 0 .. 1 /\ half \in 0 .. 1
    /\ sum = (v + w + c) % 256
    /\ carry = check_carry(v, w, c)
    /\ half = check_half_carry(v, w, c)
    /\ sum + 256 * carry = v + w + c
    /\ (sum % 16) + 16 * half = (v % 16) + (w % 16) + c

LEMMA AddNumbersExist ==
    ASSUME NEW v \in 0 .. 255, NEW w \in 0 .. 255, NEW c \in 0 .. 1
    PROVE  \E sum \in 0 .. 255, carry \in 0 .. 1, half \in 0 .. 1 :
             AddNumbers(v, w, c, sum, carry, half)
<1>1. (v + w + c) % 256 = IF v + w + c > 255 THEN v + w + c - 256
                          ELSE v + w + c
  OBVIOUS
<1>2. PICK sum \in 0 .. 255 : sum = (v + w + c) % 256
  <2>1. (v + w + c) % 256 \in 0 .. 255
    BY <1>1
  <2> QED  BY <2>1
<1>3. PICK carry \in 0 .. 1 : carry = IF v + w + c > 255 THEN 1 ELSE 0
  OBVIOUS
<1>4. PICK half \in 0 .. 1 :
        half = IF (v % 16) + (w % 16) + c > 15 THEN 1 ELSE 0
  OBVIOUS
<1>5. sum + 256 * carry = v + w + c
  BY <1>1, <1>2, <1>3
<1>6. sum % 16 = (v + w + c) % 16
  BY <1>1, <1>2
<1>7. (sum % 16) + 16 * half = (v % 16) + (w % 16) + c
  BY <1>4, <1>6
<1>8. carry = check_carry(v, w, c) /\ half = check_half_carry(v, w, c)
  BY <1>3, <1>4 DEF check_carry, check_half_carry, Flag
<1>9. AddNumbers(v, w, c, sum, carry, half)
  BY <1>2, <1>5, <1>7, <1>8, Zenon DEF AddNumbers
<1> QED  BY <1>9, Zenon

(* What genadd makes of the registers, given those numbers.                *)
LEMMA GenaddFields ==
    ASSUME NEW q, NEW val, NEW c, NEW sum, NEW carry, NEW half,
           q \in Registers, AddNumbers(q.a, val, c, sum, carry, half)
    PROVE  /\ genadd(q, val, c) \in Registers
           /\ genadd(q, val, c).a = sum
           /\ genadd(q, val, c).carry = carry
           /\ genadd(q, val, c).half_carry = half
<1> DEFINE raw == [q EXCEPT !.half_carry = half, !.carry = carry, !.a = sum]
<1>1. genadd(q, val, c) = ZPS(raw)
  BY DEF genadd, AddNumbers
<1>2. sum \in Byte /\ carry \in BitVal /\ half \in BitVal
  BY DEF AddNumbers, Byte, BitVal
<1>3. /\ raw \in Registers /\ raw.a = sum /\ raw.carry = carry
      /\ raw.half_carry = half
  BY <1>2 DEF Registers
<1> HIDE DEF raw
<1> QED  BY <1>1, <1>3, ZPSKeeps

(* Subtraction is that addition with the complement of val and the inverse *)
(* of the borrow.                                                          *)
SubNumbers(v, w, c, diff, borrow) ==
  /\ diff - 256 * borrow = v - w - c
  /\ \E cval \in 0 .. 255, nc \in 0 .. 1, carry \in 0 .. 1, half \in 0 .. 1 :
        /\ cval = 255 - w /\ nc = 1 - c /\ borrow = 1 - carry
        /\ AddNumbers(v, cval, nc, diff, carry, half)

LEMMA SubNumbersExist ==
    ASSUME NEW v \in 0 .. 255, NEW w \in 0 .. 255, NEW c \in 0 .. 1
    PROVE  \E diff \in 0 .. 255, borrow \in 0 .. 1 :
             SubNumbers(v, w, c, diff, borrow)
<1>1. PICK cval \in 0 .. 255, nc \in 0 .. 1 : cval = 255 - w /\ nc = 1 - c
  OBVIOUS
<1>2. PICK diff \in 0 .. 255, carry \in 0 .. 1, half \in 0 .. 1 :
        AddNumbers(v, cval, nc, diff, carry, half)
  BY AddNumbersExist, Zenon
<1>3. PICK borrow \in 0 .. 1 : borrow = 1 - carry
  OBVIOUS
<1>4. diff - 256 * borrow = v - w - c
  <2>1. diff + 256 * carry = v + cval + nc
    BY <1>2 DEF AddNumbers
  <2>2. cval = 255 - w /\ nc = 1 - c /\ borrow = 1 - carry
    BY <1>1, <1>3
  <2> QED  BY <2>1, <2>2
<1>5. SubNumbers(v, w, c, diff, borrow)
  BY <1>1, <1>2, <1>3, <1>4, Zenon DEF SubNumbers
<1> QED  BY <1>5, Zenon

LEMMA GensubFields ==
    ASSUME NEW q, NEW val, NEW c, NEW diff, NEW borrow,
           q \in Registers, borrow \in 0 .. 1,
           SubNumbers(q.a, val, c, diff, borrow)
    PROVE  /\ gensub(q, val, c) \in Registers
           /\ gensub(q, val, c).a = diff
           /\ gensub(q, val, c).carry = borrow
<1>1. PICK cval \in 0 .. 255, nc \in 0 .. 1, carry \in 0 .. 1, half \in 0 .. 1 :
        /\ cval = 255 - val /\ nc = 1 - c /\ borrow = 1 - carry
        /\ AddNumbers(q.a, cval, nc, diff, carry, half)
  BY Zenon DEF SubNumbers
<1> DEFINE s == genadd(q, cval, nc)
<1>2. s \in Registers /\ s.a = diff /\ s.carry = carry
  <2>1. AddNumbers(q.a, cval, nc, diff, carry, half)
    BY <1>1
  <2>2. /\ genadd(q, cval, nc) \in Registers
        /\ genadd(q, cval, nc).a = diff
        /\ genadd(q, cval, nc).carry = carry
    BY <2>1, GenaddFields
  <2> QED  BY <2>2
<1>3. gensub(q, val, c) = [s EXCEPT !.carry = 1 - s.carry]
  BY <1>1 DEF gensub
<1> HIDE DEF s
<1>4. 1 - s.carry = borrow
  BY <1>1, <1>2
<1>5. gensub(q, val, c) = [s EXCEPT !.carry = borrow]
  BY <1>3, <1>4
<1> QED  BY <1>2, <1>5 DEF Registers, BitVal

-----------------------------------------------------------------------------
(* Rotation: the byte and the bit that falls out.                          *)
RalNumbers(v, c, out, top) ==
    /\ out \in 0 .. 255 /\ top \in 0 .. 1
    /\ out = ((2 * v) % 256) + c /\ top = v \div 128
    /\ out + 256 * top = v + v + c

LEMMA RalNumbersExist ==
    ASSUME NEW v \in 0 .. 255, NEW c \in 0 .. 1
    PROVE  \E out \in 0 .. 255, top \in 0 .. 1 : RalNumbers(v, c, out, top)
<1>1. \E out \in 0 .. 255, top \in 0 .. 1 :
        /\ out = ((2 * v) % 256) + c /\ top = v \div 128
        /\ out + 256 * top = v + v + c
  OBVIOUS
<1> QED  BY <1>1, Zenon DEF RalNumbers

LEMMA RalFields ==
    ASSUME NEW q, NEW out, NEW top, q \in Registers,
           RalNumbers(q.a, q.carry, out, top)
    PROVE  ral(q) \in Registers /\ ral(q).a = out /\ ral(q).carry = top
<1> DEFINE n == [q EXCEPT !.a = out, !.carry = top]
<1>1. ral(q) = n
  BY DEF ral, Twice, HighBit, RalNumbers
<1>2. n \in Registers /\ n.a = out /\ n.carry = top
  <2>1. out \in Byte /\ top \in BitVal
    BY DEF RalNumbers, Byte, BitVal
  <2> QED  BY <2>1 DEF Registers
<1> HIDE DEF n
<1> QED  BY <1>1, <1>2

RarNumbers(v, c, out, low) ==
    /\ out \in 0 .. 255 /\ low \in 0 .. 1
    /\ out = (v \div 2) + 128 * c /\ low = v % 2
    /\ out + out + low = v + 256 * c

LEMMA RarNumbersExist ==
    ASSUME NEW v \in 0 .. 255, NEW c \in 0 .. 1
    PROVE  \E out \in 0 .. 255, low \in 0 .. 1 : RarNumbers(v, c, out, low)
<1>1. \E out \in 0 .. 255, low \in 0 .. 1 :
        /\ out = (v \div 2) + 128 * c /\ low = v % 2
        /\ out + out + low = v + 256 * c
  OBVIOUS
<1> QED  BY <1>1, Zenon DEF RarNumbers

LEMMA RarFields ==
    ASSUME NEW q, NEW out, NEW low, q \in Registers,
           RarNumbers(q.a, q.carry, out, low)
    PROVE  rar(q) \in Registers /\ rar(q).a = out /\ rar(q).carry = low
<1> DEFINE n == [q EXCEPT !.a = out, !.carry = low]
<1>1. rar(q) = n
  BY DEF rar, LowBit, RarNumbers
<1>2. n \in Registers /\ n.a = out /\ n.carry = low
  <2>1. out \in Byte /\ low \in BitVal
    BY DEF RarNumbers, Byte, BitVal
  <2> QED  BY <2>1 DEF Registers
<1> HIDE DEF n
<1> QED  BY <1>1, <1>2

-----------------------------------------------------------------------------
(* Decimal adjustment: the digits, the correction and what it makes.       *)
DaaNumbers(sum, carry, half, out, carry2) ==
    LET low  == sum % 16 > 9 \/ half = 1
        high == \/ (sum \div 16 >= 9 /\ sum % 16 > 9)
                \/ sum \div 16 > 9 \/ carry = 1
    IN  /\ carry2 \in 0 .. 1
        /\ carry2 = IF high THEN 1 ELSE carry
        /\ \E add \in 0 .. 255, cc \in 0 .. 1, hh \in 0 .. 1 :
             /\ add = (IF low THEN 6 ELSE 0) + (IF high THEN 96 ELSE 0)
             /\ AddNumbers(sum, add, 0, out, cc, hh)

LEMMA DaaNumbersExist ==
    ASSUME NEW sum \in 0 .. 255, NEW carry \in 0 .. 1, NEW half \in 0 .. 1
    PROVE  \E out \in 0 .. 255, carry2 \in 0 .. 1 :
             DaaNumbers(sum, carry, half, out, carry2)
<1> DEFINE low  == sum % 16 > 9 \/ half = 1
           high == \/ (sum \div 16 >= 9 /\ sum % 16 > 9)
                   \/ sum \div 16 > 9 \/ carry = 1
<1>1. PICK carry2 \in 0 .. 1 : carry2 = IF high THEN 1 ELSE carry
  <2> HIDE DEF low, high
  <2> QED  OBVIOUS
<1>2. PICK add \in 0 .. 255 :
        add = (IF low THEN 6 ELSE 0) + (IF high THEN 96 ELSE 0)
  <2> HIDE DEF low, high
  <2> QED  OBVIOUS
<1>3. PICK out \in 0 .. 255, cc \in 0 .. 1, hh \in 0 .. 1 :
        AddNumbers(sum, add, 0, out, cc, hh)
  <2>1. \A c \in 0 .. 1 : \E out \in 0 .. 255, cc \in 0 .. 1, hh \in 0 .. 1 :
          AddNumbers(sum, add, c, out, cc, hh)
    BY AddNumbersExist, Zenon
  <2>2. 0 \in 0 .. 1
    OBVIOUS
  <2> QED  BY <2>1, <2>2, Zenon
<1>4. DaaNumbers(sum, carry, half, out, carry2)
  BY <1>1, <1>2, <1>3, Zenon DEF DaaNumbers
<1> QED  BY <1>4, Zenon

LEMMA DaaFields ==
    ASSUME NEW q, NEW out, NEW carry2, q \in Registers,
           DaaNumbers(q.a, q.carry, q.half_carry, out, carry2)
    PROVE  daa(q) \in Registers /\ daa(q).a = out /\ daa(q).carry = carry2
<1> DEFINE low  == q.a % 16 > 9 \/ q.half_carry = 1
           high == \/ (q.a \div 16 >= 9 /\ q.a % 16 > 9)
                   \/ q.a \div 16 > 9 \/ q.carry = 1
<1>1. PICK add \in 0 .. 255, cc \in 0 .. 1, hh \in 0 .. 1 :
             /\ add = (IF low THEN 6 ELSE 0) + (IF high THEN 96 ELSE 0)
             /\ AddNumbers(q.a, add, 0, out, cc, hh)
  BY Zenon DEF DaaNumbers
<1>2. carry2 \in 0 .. 1 /\ carry2 = IF high THEN 1 ELSE q.carry
  BY Zenon DEF DaaNumbers
<1>3. DaaAdd(q).low = low /\ DaaAdd(q).high = high
  BY DEF DaaAdd
<1> HIDE DEF low, high
<1> DEFINE s == genadd(q, add, 0)
<1>4. s \in Registers /\ s.a = out
  <2>1. AddNumbers(q.a, add, 0, out, cc, hh)
    BY <1>1
  <2> QED  BY <2>1, GenaddFields
<1>5. daa(q) = [s EXCEPT !.carry = carry2]
  BY <1>1, <1>2, <1>3, Zenon DEF daa
<1> HIDE DEF s
<1> QED  BY <1>2, <1>4, <1>5 DEF Registers, BitVal

(* An addition of two packed decimal bytes, once adjusted, is exact.       *)
DecimalSum(v, w, c, out, carry) ==
    /\ IsDecimal(out)
    /\ DecimalValue(out) + 100 * carry = DecimalValue(v) + DecimalValue(w) + c

LEMMA DecimalExact ==
    ASSUME NEW v \in 0 .. 255, NEW w \in 0 .. 255, NEW c \in 0 .. 1,
           IsDecimal(v), IsDecimal(w),
           NEW sum \in 0 .. 255, NEW carry \in 0 .. 1, NEW half \in 0 .. 1,
           AddNumbers(v, w, c, sum, carry, half),
           NEW out \in 0 .. 255, NEW carry2 \in 0 .. 1,
           DaaNumbers(sum, carry, half, out, carry2)
    PROVE  DecimalSum(v, w, c, out, carry2)
<1>1. PICK vh \in 0 .. 9, vl \in 0 .. 9, wh \in 0 .. 9, wl \in 0 .. 9 :
        /\ v = 16 * vh + vl /\ v \div 16 = vh /\ v % 16 = vl
        /\ w = 16 * wh + wl /\ w \div 16 = wh /\ w % 16 = wl
  <2>1. /\ v \div 16 \in 0 .. 9 /\ v % 16 \in 0 .. 9
        /\ w \div 16 \in 0 .. 9 /\ w % 16 \in 0 .. 9
    BY DEF IsDecimal
  <2>2. v = 16 * (v \div 16) + (v % 16) /\ w = 16 * (w \div 16) + (w % 16)
    OBVIOUS
  <2> QED  BY <2>1, <2>2, Zenon
<1>2. PICK L \in 0 .. 19, H \in 0 .. 18 : L = vl + wl + c /\ H = vh + wh
  OBVIOUS
<1>3. sum + 256 * carry = 16 * H + L /\ (sum % 16) + 16 * half = L
  BY <1>1, <1>2 DEF AddNumbers
<1>4. PICK add \in 0 .. 255, cc \in 0 .. 1, hh \in 0 .. 1 :
        /\ add = (IF sum % 16 > 9 \/ half = 1 THEN 6 ELSE 0)
                 + (IF \/ (sum \div 16 >= 9 /\ sum % 16 > 9)
                       \/ sum \div 16 > 9 \/ carry = 1 THEN 96 ELSE 0)
        /\ AddNumbers(sum, add, 0, out, cc, hh)
  BY Zenon DEF DaaNumbers
<1>5. carry2 = IF \/ (sum \div 16 >= 9 /\ sum % 16 > 9)
                  \/ sum \div 16 > 9 \/ carry = 1 THEN 1 ELSE carry
  BY Zenon DEF DaaNumbers
<1>6. out + 256 * cc = sum + add
  BY <1>4 DEF AddNumbers
<1>7. PICK over \in 0 .. 1 : over = IF L > 9 THEN 1 ELSE 0
  OBVIOUS
<1>8. (sum % 16 > 9 \/ half = 1) <=> over = 1
  BY <1>3, <1>7
<1>9. sum \div 16 = H + half - 16 * carry
  BY <1>3
<1>10. (\/ (sum \div 16 >= 9 /\ sum % 16 > 9)
        \/ sum \div 16 > 9 \/ carry = 1) <=> H + over > 9
  BY <1>3, <1>7, <1>9
<1>11. PICK top \in 0 .. 1 : top = IF H + over > 9 THEN 1 ELSE 0
  OBVIOUS
<1>12. add = 6 * over + 96 * top /\ carry2 = top
  BY <1>4, <1>5, <1>7, <1>8, <1>10, <1>11, <1>3
<1>13. PICK lo \in 0 .. 9, hi \in 0 .. 9 :
         lo = L - 10 * over /\ hi = H + over - 10 * top
  BY <1>7, <1>11
<1>14. out = 16 * hi + lo
  BY <1>3, <1>6, <1>12, <1>13
<1>15. out \div 16 = hi /\ out % 16 = lo
  BY <1>14
<1> QED  BY <1>1, <1>2, <1>12, <1>13, <1>15 DEF IsDecimal, DecimalValue,
                                               DecimalSum

-----------------------------------------------------------------------------
(* The carry moves from one weight to the next.                            *)
AllNat(N, M, S, k, v, w, c, out, carry) ==
    /\ N \in Nat /\ M \in Nat /\ S \in Nat /\ k \in Nat
    /\ v \in Nat /\ w \in Nat /\ c \in Nat
    /\ out \in Nat /\ carry \in Nat

CarryMoves(N, M, S, k, v, w, c, out, carry) ==
    N + M = S + k * c =>
      /\ out + 256 * carry = v + w + c =>
           (N + k * v) + (M + k * w) = (S + k * out) + (256 * k) * carry
      /\ out + 100 * carry = v + w + c =>
           (N + k * v) + (M + k * w) = (S + k * out) + (100 * k) * carry

BorrowMoves(N, M, S, k, v, w, c, out, borrow) ==
    N - M = S - k * c /\ out - 256 * borrow = v - w - c =>
        (N + k * v) - (M + k * w) = (S + k * out) - (256 * k) * borrow

LEMMA CarryMovesUp ==
    ASSUME NEW N, NEW M, NEW S, NEW k, NEW v, NEW w, NEW c, NEW out, NEW carry,
           AllNat(N, M, S, k, v, w, c, out, carry)
    PROVE  /\ CarryMoves(N, M, S, k, v, w, c, out, carry)
           /\ BorrowMoves(N, M, S, k, v, w, c, out, carry)
<1>1. /\ k * (v + w + c) = k * v + k * w + k * c
      /\ k * (v - w - c) = k * v - k * w - k * c
  BY DEF AllNat
<1>2. /\ k * (out + 256 * carry) = k * out + (256 * k) * carry
      /\ k * (out + 100 * carry) = k * out + (100 * k) * carry
      /\ k * (out - 256 * carry) = k * out - (256 * k) * carry
  BY DEF AllNat
<1>3. CarryMoves(N, M, S, k, v, w, c, out, carry)
  BY <1>1, <1>2 DEF AllNat, CarryMoves
<1>4. BorrowMoves(N, M, S, k, v, w, c, out, carry)
  BY <1>1, <1>2 DEF AllNat, BorrowMoves
<1> QED  BY <1>3, <1>4

LEMMA StaysBelow ==
    ASSUME NEW N \in Nat, NEW k \in Nat, NEW v \in 0 .. 255, N < k
    PROVE  N + k * v < 256 * k
<1>1. k * v <= k * 255
  OBVIOUS
<1> QED  BY <1>1

-----------------------------------------------------------------------------
(* The inductive invariant: the exact results, and for additions that the  *)
(* numbers stay below their weight, which DAD's 16 bits need.              *)
Below == task = "add" => X < scale /\ Y < scale /\ stored < scale

Exact == /\ ExactSum /\ ExactDifference /\ ExactDecimal
         /\ ExactDouble /\ ExactHalf

IInv == TypeOK /\ Exact /\ Below

LEMMA LoadType ==
    ASSUME TypeOK, NEW v \in 0 .. 255
    PROVE  /\ Load(v) \in Registers /\ Load(v).a = v
           /\ Load(v).carry = r.carry /\ r.carry \in 0 .. 1
BY DEF TypeOK, Load, Registers, Byte, BitVal

LEMMA OraType ==
    ASSUME NEW q \in Registers, NEW v
    PROVE  ora(q, v) \in Registers /\ ora(q, v).carry = 0
<1>1. PICK out \in Byte, none \in BitVal : out = Or(q.a, v) /\ none = 0
  BY OrType DEF BitVal
<1> DEFINE raw == [q EXCEPT !.half_carry = none, !.carry = none, !.a = out]
<1>2. ora(q, v) = ZPS(raw)
  BY <1>1 DEF ora
<1>3. raw \in Registers /\ raw.carry = none
  BY DEF Registers
<1> HIDE DEF raw
<1> QED  BY <1>1, <1>2, <1>3, ZPSKeeps

LEMMA InitIInv == Init => IInv
<1> SUFFICES ASSUME Init PROVE IInv
  OBVIOUS
<1>1. PICK before \in [a : Bytes, carry : BitVal, half_carry : BitVal,
                       zero : {0}, sign : {0}, parity : {0}] :
        r = ora(before, before.a)
  BY DEF Init
<1>2. before \in Registers
  BY MultiByteAssumption DEF Registers, BitVal
<1>3. r \in Registers /\ r.carry = 0
  BY <1>1, <1>2, OraType
<1>4. TypeOK
  BY <1>3 DEF Init, TypeOK, Byte
<1>5. X = 0 /\ Y = 0 /\ stored = 0 /\ scale = 1
  BY DEF Init
<1>6. Exact
  BY <1>3, <1>5 DEF Exact, ExactSum, ExactDifference, ExactDecimal,
                    ExactDouble, ExactHalf
<1> QED  BY <1>4, <1>5, <1>6 DEF IInv, Below

(* A step that joins v and w to the numbers of the task and stores out.    *)
LEMMA Next1Type ==
    ASSUME TypeOK, NEW v \in 0 .. 255, NEW w \in 0 .. 255, Next1(v, w, 256),
           r' \in Registers
    PROVE  TypeOK'
<1>1. PICK out \in 0 .. 255 : out = r'.a
  BY DEF Registers, Byte
<1>2. X' = X + scale * v /\ Y' = Y + scale * w /\ stored' = stored + scale * out
  BY <1>1 DEF Next1
<1>3. X \in Nat /\ Y \in Nat /\ stored \in Nat /\ scale \in Nat \ {0}
  BY DEF TypeOK
<1>4. X' \in Nat /\ Y' \in Nat /\ stored' \in Nat
  BY <1>2, <1>3
<1>5. scale' \in Nat \ {0}
  BY <1>3 DEF Next1
<1> QED  BY <1>4, <1>5 DEF Next1, TypeOK, Byte

LEMMA AddByteStep ==
    ASSUME IInv, NEW v \in 0 .. 255, NEW w \in 0 .. 255, AddByte(v, w)
    PROVE  IInv'
<1>1. /\ Load(v) \in Registers /\ Load(v).a = v /\ r.carry \in 0 .. 1
  BY LoadType DEF IInv
<1>2. PICK c \in 0 .. 1 : c = r.carry
  BY <1>1
<1>3. PICK sum \in 0 .. 255, carry \in 0 .. 1, half \in 0 .. 1 :
        AddNumbers(v, w, c, sum, carry, half)
  BY AddNumbersExist, Zenon
<1>4. r' \in Registers /\ r'.a = sum /\ r'.carry = carry
  <2>1. AddNumbers(Load(v).a, w, c, sum, carry, half)
    BY <1>1, <1>3
  <2>2. r' = genadd(Load(v), w, c)
    BY <1>2 DEF AddByte
  <2> QED  BY <1>1, <2>1, <2>2, GenaddFields
<1>5. TypeOK'
  BY <1>4, Next1Type DEF IInv, AddByte
<1>6. /\ X \in Nat /\ Y \in Nat /\ stored \in Nat /\ scale \in Nat
      /\ X < scale /\ Y < scale /\ stored < scale
      /\ X + Y = stored + scale * c
  BY <1>2 DEF IInv, TypeOK, Below, Exact, ExactSum, AddByte
<1>7. /\ X' = X + scale * v /\ Y' = Y + scale * w
      /\ stored' = stored + scale * sum /\ scale' = 256 * scale
      /\ task = "add" /\ task' = "add"
  BY <1>4 DEF AddByte, Next1
<1>8. sum + 256 * carry = v + w + c
  BY <1>3 DEF AddNumbers
<1>9. (X + scale * v) + (Y + scale * w)
         = (stored + scale * sum) + (256 * scale) * carry
  <2>1. AllNat(X, Y, stored, scale, v, w, c, sum, carry)
    BY <1>6 DEF AllNat
  <2>2. CarryMoves(X, Y, stored, scale, v, w, c, sum, carry)
    BY <2>1, CarryMovesUp
  <2> QED  BY <1>6, <1>8, <2>2 DEF CarryMoves
<1>10. Exact'
  <2>1. X' + Y' = stored' + scale' * r'.carry
    BY <1>4, <1>7, <1>9, Zenon
  <2> QED  BY <1>7, <2>1 DEF Exact, ExactSum, ExactDifference, ExactDecimal,
                             ExactDouble, ExactHalf
<1>11. Below'
  <2>1. /\ X + scale * v < 256 * scale /\ Y + scale * w < 256 * scale
        /\ stored + scale * sum < 256 * scale
    BY <1>6, StaysBelow
  <2> QED  BY <1>7, <2>1, Zenon DEF Below
<1> QED  BY <1>5, <1>10, <1>11 DEF IInv

LEMMA SubByteStep ==
    ASSUME IInv, NEW v \in 0 .. 255, NEW w \in 0 .. 255, SubByte(v, w)
    PROVE  IInv'
<1>1. /\ Load(v) \in Registers /\ Load(v).a = v /\ r.carry \in 0 .. 1
  BY LoadType DEF IInv
<1>2. PICK c \in 0 .. 1 : c = r.carry
  BY <1>1
<1>3. PICK diff \in 0 .. 255, borrow \in 0 .. 1 :
        SubNumbers(v, w, c, diff, borrow)
  BY SubNumbersExist, Zenon
<1>4. r' \in Registers /\ r'.a = diff /\ r'.carry = borrow
  <2>1. SubNumbers(Load(v).a, w, c, diff, borrow)
    BY <1>1, <1>3
  <2>2. r' = gensub(Load(v), w, c)
    BY <1>2 DEF SubByte
  <2> QED  BY <1>1, <2>1, <2>2, GensubFields
<1>5. TypeOK'
  BY <1>4, Next1Type DEF IInv, SubByte
<1>6. /\ X \in Nat /\ Y \in Nat /\ stored \in Nat /\ scale \in Nat
      /\ X - Y = stored - scale * c
  BY <1>2 DEF IInv, TypeOK, Exact, ExactDifference, SubByte
<1>7. /\ X' = X + scale * v /\ Y' = Y + scale * w
      /\ stored' = stored + scale * diff /\ scale' = 256 * scale
      /\ task = "sub" /\ task' = "sub"
  BY <1>4 DEF SubByte, Next1
<1>8. diff - 256 * borrow = v - w - c
  BY <1>3 DEF SubNumbers
<1>9. (X + scale * v) - (Y + scale * w)
         = (stored + scale * diff) - (256 * scale) * borrow
  <2>1. AllNat(X, Y, stored, scale, v, w, c, diff, borrow)
    BY <1>6 DEF AllNat
  <2>2. BorrowMoves(X, Y, stored, scale, v, w, c, diff, borrow)
    BY <2>1, CarryMovesUp
  <2> QED  BY <1>6, <1>8, <2>2 DEF BorrowMoves
<1>10. Exact'
  <2>1. X' - Y' = stored' - scale' * r'.carry
    BY <1>4, <1>7, <1>9, Zenon
  <2> QED  BY <1>7, <2>1 DEF Exact, ExactSum, ExactDifference, ExactDecimal,
                             ExactDouble, ExactHalf
<1> QED  BY <1>5, <1>7, <1>10 DEF IInv, Below

LEMMA RalByteStep ==
    ASSUME IInv, NEW v \in 0 .. 255, RalByte(v)
    PROVE  IInv'
<1>1. /\ Load(v) \in Registers /\ Load(v).a = v /\ r.carry \in 0 .. 1
      /\ Load(v).carry = r.carry
  BY LoadType DEF IInv
<1>2. PICK c \in 0 .. 1 : c = r.carry
  BY <1>1
<1>3. PICK out \in 0 .. 255, top \in 0 .. 1 : RalNumbers(v, c, out, top)
  BY RalNumbersExist, Zenon
<1>4. r' \in Registers /\ r'.a = out /\ r'.carry = top
  <2>1. RalNumbers(Load(v).a, Load(v).carry, out, top)
    BY <1>1, <1>2, <1>3
  <2>2. r' = ral(Load(v))
    BY DEF RalByte
  <2> QED  BY <1>1, <2>1, <2>2, RalFields
<1>5. TypeOK'
  <2>1. PICK w \in 0 .. 255 : w = 0
    OBVIOUS
  <2>2. Next1(v, w, 256)
    BY <2>1 DEF RalByte
  <2> QED  BY <1>4, <2>2, Next1Type DEF IInv
<1>6. /\ X \in Nat /\ stored \in Nat /\ scale \in Nat
      /\ X + X = stored + scale * c
  BY <1>2 DEF IInv, TypeOK, Exact, ExactDouble, RalByte
<1>7. /\ X' = X + scale * v
      /\ stored' = stored + scale * out /\ scale' = 256 * scale
      /\ task = "left" /\ task' = "left"
  BY <1>4 DEF RalByte, Next1
<1>8. out + 256 * top = v + v + c
  BY <1>3 DEF RalNumbers
<1>9. (X + scale * v) + (X + scale * v)
         = (stored + scale * out) + (256 * scale) * top
  <2>1. AllNat(X, X, stored, scale, v, v, c, out, top)
    BY <1>6 DEF AllNat
  <2>2. CarryMoves(X, X, stored, scale, v, v, c, out, top)
    BY <2>1, CarryMovesUp
  <2> QED  BY <1>6, <1>8, <2>2 DEF CarryMoves
<1>10. Exact'
  <2>1. X' + X' = stored' + scale' * r'.carry
    BY <1>4, <1>7, <1>9, Zenon
  <2>2. X' \in Nat
    BY <1>5 DEF TypeOK
  <2>3. 2 * X' = stored' + scale' * r'.carry
    BY <2>1, <2>2
  <2> QED  BY <1>7, <2>3 DEF Exact, ExactSum, ExactDifference, ExactDecimal,
                             ExactDouble, ExactHalf
<1> QED  BY <1>5, <1>7, <1>10 DEF IInv, Below

LEMMA RarByteStep ==
    ASSUME IInv, NEW v \in 0 .. 255, RarByte(v)
    PROVE  IInv'
<1>1. /\ Load(v) \in Registers /\ Load(v).a = v /\ r.carry \in 0 .. 1
      /\ Load(v).carry = r.carry
  BY LoadType DEF IInv
<1>2. PICK c \in 0 .. 1 : c = r.carry
  BY <1>1
<1>3. PICK out \in 0 .. 255, low \in 0 .. 1 : RarNumbers(v, c, out, low)
  BY RarNumbersExist, Zenon
<1>4. r' \in Registers /\ r'.a = out /\ r'.carry = low
  <2>1. RarNumbers(Load(v).a, Load(v).carry, out, low)
    BY <1>1, <1>2, <1>3
  <2>2. r' = rar(Load(v))
    BY DEF RarByte
  <2> QED  BY <1>1, <2>1, <2>2, RarFields
<1>5. /\ X \in Nat /\ stored \in Nat /\ scale \in Nat \ {0} /\ Y \in Nat
      /\ X = 2 * stored + c
  BY <1>2 DEF IInv, TypeOK, Exact, ExactHalf, RarByte
<1>6. /\ X' = 256 * X + v /\ Y' = Y
      /\ stored' = 256 * stored + out /\ scale' = 256 * scale
      /\ task = "right" /\ task' = "right" /\ x' = v /\ y' = 0
  BY <1>4 DEF RarByte
<1>7. out + out + low = v + 256 * c
  BY <1>3 DEF RarNumbers
<1>8. TypeOK'
  <2>1. X' \in Nat /\ Y' \in Nat /\ stored' \in Nat /\ scale' \in Nat \ {0}
    BY <1>5, <1>6
  <2> QED  BY <1>4, <1>6, <2>1 DEF TypeOK, Byte, Tasks
<1>9. 256 * X + v = 2 * (256 * stored + out) + low
  BY <1>5, <1>7
<1>10. Exact'
  <2>1. X' = 2 * stored' + r'.carry
    BY <1>4, <1>6, <1>9, Zenon
  <2> QED  BY <1>6, <2>1 DEF Exact, ExactSum, ExactDifference, ExactDecimal,
                             ExactDouble, ExactHalf
<1> QED  BY <1>6, <1>8, <1>10 DEF IInv, Below

LEMMA AddDecimalStep ==
    ASSUME IInv, NEW v \in 0 .. 255, NEW w \in 0 .. 255, AddDecimal(v, w)
    PROVE  IInv'
<1>1. /\ Load(v) \in Registers /\ Load(v).a = v /\ r.carry \in 0 .. 1
  BY LoadType DEF IInv
<1>2. PICK c \in 0 .. 1 : c = r.carry
  BY <1>1
<1>3. PICK sum \in 0 .. 255, carry \in 0 .. 1, half \in 0 .. 1 :
        AddNumbers(v, w, c, sum, carry, half)
  BY AddNumbersExist, Zenon
<1>4. PICK out \in 0 .. 255, carry2 \in 0 .. 1 :
        DaaNumbers(sum, carry, half, out, carry2)
  BY DaaNumbersExist, Zenon
<1> DEFINE s == genadd(Load(v), w, c)
<1>5. /\ s \in Registers /\ s.a = sum /\ s.carry = carry
      /\ s.half_carry = half
  <2>1. AddNumbers(Load(v).a, w, c, sum, carry, half)
    BY <1>1, <1>3
  <2> QED  BY <1>1, <2>1, GenaddFields
<1>6. r' \in Registers /\ r'.a = out /\ r'.carry = carry2
  <2>1. r' = daa(s)
    BY <1>2 DEF AddDecimal
  <2> HIDE DEF s
  <2>2. DaaNumbers(s.a, s.carry, s.half_carry, out, carry2)
    BY <1>4, <1>5
  <2> QED  BY <1>5, <2>1, <2>2, DaaFields
<1>7. IsDecimal(v) /\ IsDecimal(w)
  BY DEF AddDecimal
<1>8. DecimalSum(v, w, c, out, carry2)
  <2> HIDE DEF s
  <2> QED  BY <1>3, <1>4, <1>7, DecimalExact, Zenon
<1>9. PICK dv \in Nat, dw \in Nat, dout \in Nat :
        /\ dv = DecimalValue(v) /\ dw = DecimalValue(w)
        /\ dout = DecimalValue(out)
  BY DEF DecimalValue
<1>10. /\ X' = X + scale * dv /\ Y' = Y + scale * dw
       /\ stored' = stored + scale * dout /\ scale' = 100 * scale
       /\ task = "decimal" /\ task' = "decimal" /\ x' = v /\ y' = w
  BY <1>6, <1>9 DEF AddDecimal
<1>11. /\ X \in Nat /\ Y \in Nat /\ stored \in Nat /\ scale \in Nat \ {0}
       /\ X + Y = stored + scale * c
  BY <1>2, <1>10 DEF IInv, TypeOK, Exact, ExactDecimal
<1>12. TypeOK'
  <2>1. X' \in Nat /\ Y' \in Nat /\ stored' \in Nat /\ scale' \in Nat \ {0}
    BY <1>10, <1>11
  <2> QED  BY <1>6, <1>10, <2>1 DEF TypeOK, Byte, Tasks
<1>13. (X + scale * dv) + (Y + scale * dw)
         = (stored + scale * dout) + (100 * scale) * carry2
  <2>1. AllNat(X, Y, stored, scale, dv, dw, c, dout, carry2)
    BY <1>11 DEF AllNat
  <2>2. CarryMoves(X, Y, stored, scale, dv, dw, c, dout, carry2)
    BY <2>1, CarryMovesUp
  <2>3. dout + 100 * carry2 = dv + dw + c
    BY <1>8, <1>9 DEF DecimalSum
  <2> QED  BY <1>11, <2>2, <2>3 DEF CarryMoves
<1>14. Exact'
  <2>1. X' + Y' = stored' + scale' * r'.carry
    BY <1>6, <1>10, <1>13, Zenon
  <2>2. IsDecimal(r'.a)
    BY <1>6, <1>8 DEF DecimalSum
  <2> QED  BY <1>10, <2>1, <2>2 DEF Exact, ExactSum, ExactDifference,
                             ExactDecimal, ExactDouble, ExactHalf
<1> QED  BY <1>10, <1>12, <1>14 DEF IInv, Below

-----------------------------------------------------------------------------
LEMMA NextIInv == IInv /\ [Next]_vars => IInv'
<1> SUFFICES ASSUME IInv, [Next]_vars PROVE IInv'
  OBVIOUS
<1>1. Bytes \subseteq 0 .. 255
  BY MultiByteAssumption DEF Byte
<1>2. CASE \E v, w \in Bytes : AddByte(v, w)
  BY <1>1, <1>2, AddByteStep
<1>3. CASE \E v, w \in Bytes : SubByte(v, w)
  BY <1>1, <1>3, SubByteStep
<1>4. CASE \E v, w \in Bytes : AddDecimal(v, w)
  BY <1>1, <1>4, AddDecimalStep
<1>5. CASE \E v \in Bytes : RalByte(v)
  BY <1>1, <1>5, RalByteStep
<1>6. CASE \E v \in Bytes : RarByte(v)
  BY <1>1, <1>6, RarByteStep
<1>7. CASE UNCHANGED vars
  BY <1>7 DEF vars, IInv, TypeOK, Below, Exact, ExactSum, ExactDifference,
              ExactDecimal, ExactDouble, ExactHalf
<1> QED  BY <1>2, <1>3, <1>4, <1>5, <1>6, <1>7 DEF Next

THEOREM Invariance == Spec => []IInv
BY InitIInv, NextIInv, PTL DEF Spec

(* The accumulator stays a byte and each flag a bit, so the next byte of   *)
(* the loop always starts from a carry of 0 or 1.                          *)
THEOREM TypeCorrect == Spec => []TypeOK
<1>1. IInv => TypeOK
  BY DEF IInv
<1> QED  BY <1>1, Invariance, PTL

(* A chain of ADC, of SBB, of RAL or of RAR over numbers of any length     *)
(* computes the exact sum, difference, double or half.                     *)
THEOREM BinaryExact == Spec => []ExactBinary
<1>1. IInv => ExactBinary
  BY DEF IInv, Exact, ExactBinary
<1> QED  BY <1>1, Invariance, PTL

(* A chain of ADC and DAA over packed decimal numbers of any length        *)
(* computes the exact decimal sum, in packed decimal again.                *)
THEOREM DecimalChainExact == Spec => []ExactDecimal
<1>1. IInv => ExactDecimal
  BY DEF IInv, Exact
<1> QED  BY <1>1, Invariance, PTL

LEMMA DadNumbers ==
    ASSUME NEW N \in Nat, NEW S \in Nat, NEW c \in 0 .. 1,
           S < 65536, N = S + 65536 * c
    PROVE  N % 65536 = S /\ (IF N > 65535 THEN 1 ELSE 0) = c
OBVIOUS

(* DAD and a chain of two 8-bit additions agree on the sum and the carry.  *)
THEOREM DadAgrees == Spec => []DadIsTwoAdds
<1>1. IInv => DadIsTwoAdds
  <2> SUFFICES ASSUME IInv, task = "add", scale = 65536
               PROVE  dad_result(X, Y) = stored /\ dad_carry(X, Y) = r.carry
    BY DEF DadIsTwoAdds
  <2>1. X + Y = stored + scale * r.carry
    BY DEF IInv, Exact, ExactSum
  <2>2. PICK c \in 0 .. 1 : c = r.carry
    BY LoadType DEF IInv, TypeOK, Registers, BitVal
  <2>3. PICK N \in Nat, S \in Nat : N = X + Y /\ S = stored /\ S < 65536
    <3>1. /\ X \in Nat /\ Y \in Nat /\ stored \in Nat /\ stored < 65536
      BY DEF IInv, TypeOK, Below
    <3> QED  BY <3>1
  <2>4. N = S + 65536 * c
    BY <2>1, <2>2, <2>3
  <2>5. N % 65536 = S /\ (IF N > 65535 THEN 1 ELSE 0) = c
    BY <2>3, <2>4, DadNumbers
  <2> QED  BY <2>2, <2>3, <2>5 DEF dad_result, dad_carry, Flag
<1> QED  BY <1>1, Invariance, PTL

-----------------------------------------------------------------------------
(* Bytes as bits: every byte is made of eight bits, and they are its Bits. *)
Octets == [0 .. 7 -> 0 .. 1]

Eight(a, b, c, d, e, f, g, h) ==
    a + 2 * b + 4 * c + 8 * d + 16 * e + 32 * f + 64 * g + 128 * h

IsEight(v, a, b, c, d, e, f, g, h) ==
    /\ a \in 0 .. 1 /\ b \in 0 .. 1 /\ c \in 0 .. 1 /\ d \in 0 .. 1
    /\ e \in 0 .. 1 /\ f \in 0 .. 1 /\ g \in 0 .. 1 /\ h \in 0 .. 1
    /\ v = Eight(a, b, c, d, e, f, g, h)

LEMMA Powers ==
    /\ 2^0 = 1 /\ 2^1 = 2 /\ 2^2 = 4 /\ 2^3 = 8
    /\ 2^4 = 16 /\ 2^5 = 32 /\ 2^6 = 64 /\ 2^7 = 128
<1>1. 2^0 = 1 /\ 2^1 = 2
  OBVIOUS
<1>2. 2^2 = 4 /\ 2^3 = 8
  OBVIOUS
<1>3. 2^4 = 16 /\ 2^5 = 32
  OBVIOUS
<1>4. 2^6 = 64 /\ 2^7 = 128
  OBVIOUS
<1> QED BY <1>1, <1>2, <1>3, <1>4

LEMMA EightExist ==
    ASSUME NEW v \in 0 .. 255
    PROVE  \E a, b, c, d, e, f, g, h \in 0 .. 1 : v = Eight(a, b, c, d, e, f, g, h)
<1>1. PICK h \in 0 .. 1, v7 \in 0 .. 127 : v = 128 * h + v7
  OBVIOUS
<1>2. PICK g \in 0 .. 1, v6 \in 0 .. 63 : v7 = 64 * g + v6
  OBVIOUS
<1>3. PICK f \in 0 .. 1, v5 \in 0 .. 31 : v6 = 32 * f + v5
  OBVIOUS
<1>4. PICK e \in 0 .. 1, v4 \in 0 .. 15 : v5 = 16 * e + v4
  OBVIOUS
<1>5. PICK d \in 0 .. 1, v3 \in 0 .. 7 : v4 = 8 * d + v3
  OBVIOUS
<1>6. PICK c \in 0 .. 1, v2 \in 0 .. 3 : v3 = 4 * c + v2
  <2>1. v3 < 4 => v3 \in 0 .. 3 /\ v3 = 4 * 0 + v3
    OBVIOUS
  <2>2. v3 >= 4 => v3 - 4 \in 0 .. 3 /\ v3 = 4 * 1 + (v3 - 4)
    OBVIOUS
  <2> QED  BY <2>1, <2>2
<1>7. PICK b \in 0 .. 1, a \in 0 .. 1 : v2 = 2 * b + a
  OBVIOUS
<1>8. v = Eight(a, b, c, d, e, f, g, h)
  BY <1>1, <1>2, <1>3, <1>4, <1>5, <1>6, <1>7 DEF Eight
<1> QED BY <1>8

LEMMA OctetOf ==
    ASSUME NEW v \in 0 .. 255 PROVE \E b \in Octets : v = FromBits(b)
<1>1. PICK b0, b1, b2, b3, b4, b5, b6, b7 \in 0 .. 1 :
        v = Eight(b0, b1, b2, b3, b4, b5, b6, b7)
  BY EightExist
<1> DEFINE b == [i \in 0 .. 7 |->
                   CASE i = 0 -> b0 [] i = 1 -> b1 [] i = 2 -> b2 [] i = 3 -> b3
                     [] i = 4 -> b4 [] i = 5 -> b5 [] i = 6 -> b6 [] i = 7 -> b7]
<1>2. b \in Octets
  BY DEF Octets
<1>3. /\ b[0] = b0 /\ b[1] = b1 /\ b[2] = b2 /\ b[3] = b3
      /\ b[4] = b4 /\ b[5] = b5 /\ b[6] = b6 /\ b[7] = b7
  OBVIOUS
<1>4. v = FromBits(b)
  <2> HIDE DEF b
  <2> QED  BY <1>1, <1>3 DEF FromBits, Eight
<1> QED  BY <1>2, <1>4

LEMMA OctetType ==
    ASSUME NEW b \in Octets
    PROVE  /\ b[0] \in 0 .. 1 /\ b[1] \in 0 .. 1 /\ b[2] \in 0 .. 1
           /\ b[3] \in 0 .. 1 /\ b[4] \in 0 .. 1 /\ b[5] \in 0 .. 1
           /\ b[6] \in 0 .. 1 /\ b[7] \in 0 .. 1
BY DEF Octets

LEMMA EightDivide ==
    ASSUME NEW v, NEW a, NEW b, NEW c, NEW d, NEW e, NEW f, NEW g, NEW h,
           IsEight(v, a, b, c, d, e, f, g, h)
    PROVE  /\ v \in 0 .. 255
           /\ (v \div 1) % 2 = a /\ (v \div 2) % 2 = b
           /\ (v \div 4) % 2 = c /\ (v \div 8) % 2 = d
           /\ (v \div 16) % 2 = e /\ (v \div 32) % 2 = f
           /\ (v \div 64) % 2 = g /\ (v \div 128) % 2 = h
BY DEF IsEight, Eight

LEMMA BitOfOctet ==
    ASSUME NEW b \in Octets
    PROVE  /\ FromBits(b) \in 0 .. 255
           /\ \A i \in 0 .. 7 : Bit(FromBits(b), i) = b[i]
<1> DEFINE v == FromBits(b)
<1>1. v = Eight(b[0], b[1], b[2], b[3], b[4], b[5], b[6], b[7])
  BY DEF FromBits, Eight
<1> HIDE DEF v
<1>2. /\ v \in 0 .. 255
      /\ (v \div 1) % 2 = b[0] /\ (v \div 2) % 2 = b[1]
      /\ (v \div 4) % 2 = b[2] /\ (v \div 8) % 2 = b[3]
      /\ (v \div 16) % 2 = b[4] /\ (v \div 32) % 2 = b[5]
      /\ (v \div 64) % 2 = b[6] /\ (v \div 128) % 2 = b[7]
  <2>1. IsEight(v, b[0], b[1], b[2], b[3], b[4], b[5], b[6], b[7])
    BY <1>1, OctetType, Zenon DEF IsEight
  <2> QED  BY <2>1, EightDivide, Zenon
<1>3. \A bit \in 0 .. 1 : Flag(bit = 1) = bit
  BY DEF Flag
<1>4. /\ Bit(v, 0) = b[0] /\ Bit(v, 1) = b[1]
      /\ Bit(v, 2) = b[2] /\ Bit(v, 3) = b[3]
      /\ Bit(v, 4) = b[4] /\ Bit(v, 5) = b[5]
      /\ Bit(v, 6) = b[6] /\ Bit(v, 7) = b[7]
  BY <1>2, <1>3, OctetType, Powers DEF Bit
<1>5. \A i \in 0 .. 7 : \/ i = 0 \/ i = 1 \/ i = 2 \/ i = 3
                        \/ i = 4 \/ i = 5 \/ i = 6 \/ i = 7
  OBVIOUS
<1>6. \A i \in 0 .. 7 : Bit(v, i) = b[i]
  BY <1>4, <1>5, Zenon
<1> QED  BY <1>2, <1>6 DEF v

(* The logic of bytes is the logic of their bits.                          *)
AndBits(b, d) == [i \in 0 .. 7 |-> Flag(b[i] = 1 /\ d[i] = 1)]
OrBits(b, d)  == [i \in 0 .. 7 |-> Flag(b[i] = 1 \/ d[i] = 1)]
XorBits(b, d) == [i \in 0 .. 7 |-> Flag(b[i] # d[i])]
NotBits(b)    == [i \in 0 .. 7 |-> 1 - b[i]]

LEMMA LogicOnBits ==
    ASSUME NEW b \in Octets, NEW d \in Octets
    PROVE  /\ And(FromBits(b), FromBits(d)) = FromBits(AndBits(b, d))
           /\ Or(FromBits(b), FromBits(d)) = FromBits(OrBits(b, d))
           /\ Xor(FromBits(b), FromBits(d)) = FromBits(XorBits(b, d))
           /\ 255 - FromBits(b) = FromBits(NotBits(b))
<1>1. \A i \in 0 .. 7 : Bit(FromBits(b), i) = b[i] /\ Bit(FromBits(d), i) = d[i]
  BY BitOfOctet
<1>2. And(FromBits(b), FromBits(d)) = FromBits(AndBits(b, d))
  BY <1>1, Zenon DEF And, AndBits
<1>3. Or(FromBits(b), FromBits(d)) = FromBits(OrBits(b, d))
  BY <1>1, Zenon DEF Or, OrBits
<1>4. Xor(FromBits(b), FromBits(d)) = FromBits(XorBits(b, d))
  BY <1>1, Zenon DEF Xor, XorBits
<1>5. 255 - FromBits(b) = FromBits(NotBits(b))
  BY OctetType DEF FromBits, NotBits
<1> QED  BY <1>2, <1>3, <1>4, <1>5

LEMMA BitsType ==
    ASSUME NEW b \in Octets, NEW d \in Octets
    PROVE  /\ AndBits(b, d) \in Octets /\ OrBits(b, d) \in Octets
           /\ XorBits(b, d) \in Octets /\ NotBits(b) \in Octets
BY DEF AndBits, OrBits, XorBits, NotBits, Octets, Flag

LEMMA BitsLaws ==
    ASSUME NEW b \in Octets, NEW d \in Octets
    PROVE  /\ XorBits(XorBits(b, d), d) = b
           /\ NotBits(AndBits(NotBits(b), NotBits(d))) = OrBits(b, d)
           /\ \A i \in 0 .. 7 : /\ AndBits(b, d)[i] + OrBits(b, d)[i] = b[i] + d[i]
                                /\ AndBits(b, d)[i] + XorBits(b, d)[i] = OrBits(b, d)[i]
<1>1. \A i \in 0 .. 7 : b[i] \in 0 .. 1 /\ d[i] \in 0 .. 1
  BY DEF Octets
<1>2. \A i \in 0 .. 7 : XorBits(XorBits(b, d), d)[i] = b[i]
  BY <1>1 DEF XorBits, Flag
<1>3. XorBits(XorBits(b, d), d) = b
  BY <1>2 DEF XorBits, Octets
<1>4. \A i \in 0 .. 7 : NotBits(AndBits(NotBits(b), NotBits(d)))[i] = OrBits(b, d)[i]
  BY <1>1 DEF NotBits, AndBits, OrBits, Flag
<1>5. NotBits(AndBits(NotBits(b), NotBits(d))) = OrBits(b, d)
  BY <1>4 DEF NotBits, OrBits
<1>6. \A i \in 0 .. 7 : /\ AndBits(b, d)[i] + OrBits(b, d)[i] = b[i] + d[i]
                        /\ AndBits(b, d)[i] + XorBits(b, d)[i] = OrBits(b, d)[i]
  BY <1>1 DEF AndBits, OrBits, XorBits, Flag
<1> QED  BY <1>3, <1>5, <1>6

LEMMA SumOfOctets ==
    ASSUME NEW b \in Octets, NEW d \in Octets, NEW e \in Octets, NEW f \in Octets,
           \A i \in 0 .. 7 : b[i] + d[i] = e[i] + f[i]
    PROVE  FromBits(b) + FromBits(d) = FromBits(e) + FromBits(f)
<1>1. /\ b[0] + d[0] = e[0] + f[0] /\ b[1] + d[1] = e[1] + f[1]
      /\ b[2] + d[2] = e[2] + f[2] /\ b[3] + d[3] = e[3] + f[3]
      /\ b[4] + d[4] = e[4] + f[4] /\ b[5] + d[5] = e[5] + f[5]
      /\ b[6] + d[6] = e[6] + f[6] /\ b[7] + d[7] = e[7] + f[7]
  OBVIOUS
<1>2. /\ b[0] \in Int /\ b[1] \in Int /\ b[2] \in Int /\ b[3] \in Int
      /\ b[4] \in Int /\ b[5] \in Int /\ b[6] \in Int /\ b[7] \in Int
      /\ d[0] \in Int /\ d[1] \in Int /\ d[2] \in Int /\ d[3] \in Int
      /\ d[4] \in Int /\ d[5] \in Int /\ d[6] \in Int /\ d[7] \in Int
  BY DEF Octets
<1>3. /\ e[0] \in Int /\ e[1] \in Int /\ e[2] \in Int /\ e[3] \in Int
      /\ e[4] \in Int /\ e[5] \in Int /\ e[6] \in Int /\ e[7] \in Int
      /\ f[0] \in Int /\ f[1] \in Int /\ f[2] \in Int /\ f[3] \in Int
      /\ f[4] \in Int /\ f[5] \in Int /\ f[6] \in Int /\ f[7] \in Int
  BY DEF Octets
<1>4. FromBits(b) + FromBits(d)
        = Eight(b[0] + d[0], b[1] + d[1], b[2] + d[2], b[3] + d[3],
                b[4] + d[4], b[5] + d[5], b[6] + d[6], b[7] + d[7])
  BY <1>2, SMTT(60) DEF FromBits, Eight
<1>5. FromBits(e) + FromBits(f)
        = Eight(e[0] + f[0], e[1] + f[1], e[2] + f[2], e[3] + f[3],
                e[4] + f[4], e[5] + f[5], e[6] + f[6], e[7] + f[7])
  BY <1>3, SMTT(60) DEF FromBits, Eight
<1> QED  BY <1>1, <1>4, <1>5

LogicLaws(v, w) ==
    /\ And(v, w) \in 0 .. 255 /\ Or(v, w) \in 0 .. 255 /\ Xor(v, w) \in 0 .. 255
    /\ And(v, w) + Or(v, w) = v + w
    /\ And(v, w) + Xor(v, w) = Or(v, w)
    /\ Xor(Xor(v, w), w) = v
    /\ 255 - And(255 - v, 255 - w) = Or(v, w)

LEMMA LogicOfBytes ==
    ASSUME NEW v \in 0 .. 255, NEW w \in 0 .. 255 PROVE LogicLaws(v, w)
<1>1. PICK b \in Octets, d \in Octets : v = FromBits(b) /\ w = FromBits(d)
  BY OctetOf
<1>2. /\ And(v, w) = FromBits(AndBits(b, d))
      /\ Or(v, w) = FromBits(OrBits(b, d))
      /\ Xor(v, w) = FromBits(XorBits(b, d))
  BY <1>1, LogicOnBits
<1>3. /\ AndBits(b, d) \in Octets /\ OrBits(b, d) \in Octets
      /\ XorBits(b, d) \in Octets /\ NotBits(b) \in Octets /\ NotBits(d) \in Octets
  BY BitsType
<1>4. /\ And(v, w) \in 0 .. 255 /\ Or(v, w) \in 0 .. 255
      /\ Xor(v, w) \in 0 .. 255
  BY <1>2, <1>3, BitOfOctet
<1>5. And(v, w) + Or(v, w) = v + w
  BY <1>1, <1>2, <1>3, BitsLaws, SumOfOctets
<1>6. And(v, w) + Xor(v, w) = Or(v, w)
  <2> DEFINE none == [i \in 0 .. 7 |-> 0]
  <2>1. none \in Octets /\ \A i \in 0 .. 7 : none[i] = 0
    BY DEF Octets
  <2>2. FromBits(none) = 0
    BY DEF FromBits
  <2> HIDE DEF none
  <2>3. \A i \in 0 .. 7 : AndBits(b, d)[i] + XorBits(b, d)[i]
                             = OrBits(b, d)[i] + none[i]
    BY <1>3, <2>1, BitsLaws DEF Octets
  <2>4. FromBits(AndBits(b, d)) + FromBits(XorBits(b, d))
          = FromBits(OrBits(b, d)) + FromBits(none)
    BY <1>3, <2>1, <2>3, SumOfOctets
  <2> QED  BY <1>2, <1>4, <2>2, <2>4
<1>7. Xor(Xor(v, w), w) = v
  <2>1. Xor(Xor(v, w), w) = FromBits(XorBits(XorBits(b, d), d))
    BY <1>1, <1>2, <1>3, LogicOnBits
  <2> QED  BY <1>1, <2>1, BitsLaws
<1>8. 255 - And(255 - v, 255 - w) = Or(v, w)
  <2>1. 255 - v = FromBits(NotBits(b)) /\ 255 - w = FromBits(NotBits(d))
    BY <1>1, LogicOnBits
  <2>2. And(255 - v, 255 - w) = FromBits(AndBits(NotBits(b), NotBits(d)))
    BY <1>3, <2>1, LogicOnBits
  <2>3. AndBits(NotBits(b), NotBits(d)) \in Octets
    BY <1>3, BitsType
  <2>4. 255 - FromBits(AndBits(NotBits(b), NotBits(d)))
          = FromBits(NotBits(AndBits(NotBits(b), NotBits(d))))
    BY <2>3, LogicOnBits
  <2> QED  BY <1>2, <2>2, <2>4, BitsLaws
<1> QED  BY <1>4, <1>5, <1>6, <1>7, <1>8, Zenon DEF LogicLaws

-----------------------------------------------------------------------------
(* Rotation moves bits round a ring, of eight or, with the carry, of nine. *)
(* q has carry c and the bits a to h; its other flags are those of s.      *)
Ring(q, s, c, a, b, d, e, f, g, h, i) ==
    /\ q \in Registers
    /\ q.carry = c
    /\ IsEight(q.a, a, b, d, e, f, g, h, i)
    /\ q.half_carry = s.half_carry /\ q.zero = s.zero
    /\ q.sign = s.sign /\ q.parity = s.parity

LEMMA EightMoves ==
    ASSUME NEW v, NEW a, NEW b, NEW c, NEW d, NEW e, NEW f, NEW g, NEW h,
           IsEight(v, a, b, c, d, e, f, g, h)
    PROVE  /\ HighBit(v) = h /\ LowBit(v) = a
           /\ \A n \in 0 .. 1 :
                /\ IsEight(Twice(v) + n, n, a, b, c, d, e, f, g)
                /\ IsEight((v \div 2) + 128 * n, b, c, d, e, f, g, h, n)
<1>1. /\ a \in 0 .. 1 /\ b \in 0 .. 1 /\ c \in 0 .. 1 /\ d \in 0 .. 1
      /\ e \in 0 .. 1 /\ f \in 0 .. 1 /\ g \in 0 .. 1 /\ h \in 0 .. 1
      /\ v = a + 2 * b + 4 * c + 8 * d + 16 * e + 32 * f + 64 * g + 128 * h
  BY DEF IsEight, Eight
<1>2. PICK low \in 0 .. 127 :
        low = a + 2 * b + 4 * c + 8 * d + 16 * e + 32 * f + 64 * g
  BY <1>1
<1>3. v = low + 128 * h
  BY <1>1, <1>2
<1>4. v \in 0 .. 255 /\ v \div 128 = h /\ (2 * v) % 256 = 2 * low
  BY <1>1, <1>3
<1>5. PICK high \in 0 .. 127 :
        high = b + 2 * c + 4 * d + 8 * e + 16 * f + 32 * g + 64 * h
  BY <1>1
<1>6. v = a + 2 * high
  BY <1>1, <1>5
<1>7. v % 2 = a /\ v \div 2 = high
  BY <1>1, <1>6
<1>8. ASSUME NEW n \in 0 .. 1
      PROVE  IsEight(Twice(v) + n, n, a, b, c, d, e, f, g)
  <2>1. 2 * low + n = n + 2 * a + 4 * b + 8 * c + 16 * d + 32 * e + 64 * f + 128 * g
    BY <1>1, <1>2
  <2> QED  BY <1>1, <1>4, <2>1 DEF IsEight, Eight, Twice
<1>9. ASSUME NEW n \in 0 .. 1
      PROVE  IsEight((v \div 2) + 128 * n, b, c, d, e, f, g, h, n)
  <2>1. high + 128 * n = b + 2 * c + 4 * d + 8 * e + 16 * f + 32 * g + 64 * h + 128 * n
    BY <1>1, <1>5
  <2> QED  BY <1>1, <1>7, <2>1 DEF IsEight, Eight
<1> QED  BY <1>4, <1>7, <1>8, <1>9 DEF HighBit, LowBit

LEMMA RalTurns ==
    ASSUME NEW q, NEW s, NEW c, NEW a, NEW b, NEW d, NEW e, NEW f, NEW g,
           NEW h, NEW i, Ring(q, s, c, a, b, d, e, f, g, h, i)
    PROVE  Ring(ral(q), s, i, c, a, b, d, e, f, g, h)
<1>1. q \in Registers /\ q.carry = c /\ c \in 0 .. 1
  BY DEF Ring, Registers, BitVal
<1>2. /\ HighBit(q.a) = i
      /\ IsEight(Twice(q.a) + c, c, a, b, d, e, f, g, h)
  <2>1. IsEight(q.a, a, b, d, e, f, g, h, i)
    BY DEF Ring
  <2> QED  BY <1>1, <2>1, EightMoves, Zenon
<1>3. Twice(q.a) + c \in Byte /\ i \in BitVal
  BY <1>2, EightDivide DEF Ring, IsEight, Byte, BitVal
<1>4. PICK v \in Byte : v = Twice(q.a) + c
  BY <1>3
<1>5. ral(q) = [q EXCEPT !.a = v, !.carry = i]
  BY <1>1, <1>2, <1>4 DEF ral
<1> QED  BY <1>1, <1>2, <1>3, <1>4, <1>5 DEF Ring, Registers

LEMMA RarTurns ==
    ASSUME NEW q, NEW s, NEW c, NEW a, NEW b, NEW d, NEW e, NEW f, NEW g,
           NEW h, NEW i, Ring(q, s, c, a, b, d, e, f, g, h, i)
    PROVE  Ring(rar(q), s, a, b, d, e, f, g, h, i, c)
<1>1. q \in Registers /\ q.carry = c /\ c \in 0 .. 1
  BY DEF Ring, Registers, BitVal
<1>2. /\ LowBit(q.a) = a
      /\ IsEight((q.a \div 2) + 128 * c, b, d, e, f, g, h, i, c)
  <2>1. IsEight(q.a, a, b, d, e, f, g, h, i)
    BY DEF Ring
  <2> QED  BY <1>1, <2>1, EightMoves, Zenon
<1>3. (q.a \div 2) + 128 * c \in Byte /\ a \in BitVal
  BY <1>2, EightDivide DEF Ring, IsEight, Byte, BitVal
<1>4. PICK v \in Byte : v = (q.a \div 2) + 128 * c
  BY <1>3
<1>5. rar(q) = [q EXCEPT !.a = v, !.carry = a]
  BY <1>1, <1>2, <1>4 DEF rar
<1> QED  BY <1>1, <1>2, <1>3, <1>4, <1>5 DEF Ring, Registers

(* RLC and RRC leave their bit in the carry as well; the ring is the byte. *)
LEMMA RlcTurns ==
    ASSUME NEW q, NEW a, NEW b, NEW d, NEW e, NEW f, NEW g, NEW h, NEW i,
           q \in Registers, IsEight(q.a, a, b, d, e, f, g, h, i)
    PROVE  rlc(q) \in Registers /\ IsEight(rlc(q).a, i, a, b, d, e, f, g, h)
<1>1. HighBit(q.a) = i /\ i \in 0 .. 1
  <2>1. HighBit(q.a) = i
    BY EightMoves, Zenon
  <2> QED  BY <2>1 DEF IsEight
<1>2. IsEight(Twice(q.a) + i, i, a, b, d, e, f, g, h)
  BY <1>1, EightMoves, Zenon
<1>3. PICK v \in Byte : v = Twice(q.a) + i
  BY <1>2, EightDivide DEF Byte
<1>4. rlc(q) = [q EXCEPT !.a = v, !.carry = i]
  BY <1>1, <1>3 DEF rlc
<1> QED  BY <1>1, <1>2, <1>3, <1>4 DEF Registers, BitVal

LEMMA RrcTurns ==
    ASSUME NEW q, NEW a, NEW b, NEW d, NEW e, NEW f, NEW g, NEW h, NEW i,
           q \in Registers, IsEight(q.a, a, b, d, e, f, g, h, i)
    PROVE  rrc(q) \in Registers /\ IsEight(rrc(q).a, b, d, e, f, g, h, i, a)
<1>1. LowBit(q.a) = a /\ a \in 0 .. 1
  <2>1. LowBit(q.a) = a
    BY EightMoves, Zenon
  <2> QED  BY <2>1 DEF IsEight
<1>2. IsEight((q.a \div 2) + 128 * a, b, d, e, f, g, h, i, a)
  BY <1>1, EightMoves, Zenon
<1>3. PICK v \in Byte : v = (q.a \div 2) + 128 * a
  BY <1>2, EightDivide DEF Byte
<1>4. rrc(q) = [q EXCEPT !.a = v, !.carry = a]
  BY <1>1, <1>3 DEF rrc
<1> QED  BY <1>1, <1>2, <1>3, <1>4 DEF Registers, BitVal

LEMMA SameRing ==
    ASSUME NEW q, NEW s, NEW c, NEW a, NEW b, NEW d, NEW e, NEW f, NEW g,
           NEW h, NEW i, s \in Registers,
           Ring(q, s, c, a, b, d, e, f, g, h, i),
           Ring(s, s, c, a, b, d, e, f, g, h, i)
    PROVE  q = s
<1>1. q.a = s.a /\ q.carry = s.carry
  BY DEF Ring, IsEight
<1> QED  BY <1>1 DEF Ring, Registers

LEMMA Rotations ==
    ASSUME NEW q \in Registers
    PROVE  /\ rlc(rlc(rlc(rlc(rlc(rlc(rlc(rlc(q)))))))).a = q.a
           /\ rrc(rlc(q)).a = q.a
           /\ ral(ral(ral(ral(ral(ral(ral(ral(ral(q))))))))) = q
           /\ rar(ral(q)) = q
<1>1. PICK a, b, d, e, f, g, h, i \in 0 .. 1 : q.a = Eight(a, b, d, e, f, g, h, i)
  BY EightExist DEF Registers, Byte
<1>2. IsEight(q.a, a, b, d, e, f, g, h, i)
  BY <1>1, Zenon DEF IsEight
<1> DEFINE c == q.carry
<1>3. Ring(q, q, c, a, b, d, e, f, g, h, i)
  BY <1>2, Zenon DEF Ring
<1>4. rlc(rlc(rlc(rlc(rlc(rlc(rlc(rlc(q)))))))).a = q.a
  <2> DEFINE q1 == rlc(q)  q2 == rlc(q1)  q3 == rlc(q2)  q4 == rlc(q3)
             q5 == rlc(q4) q6 == rlc(q5)  q7 == rlc(q6)  q8 == rlc(q7)
  <2>1. q1 \in Registers /\ IsEight(q1.a, i, a, b, d, e, f, g, h)
    BY <1>2, RlcTurns, Zenon
  <2> HIDE DEF q1
  <2>2. q2 \in Registers /\ IsEight(q2.a, h, i, a, b, d, e, f, g)
    BY <2>1, RlcTurns, Zenon
  <2> HIDE DEF q2
  <2>3. q3 \in Registers /\ IsEight(q3.a, g, h, i, a, b, d, e, f)
    BY <2>2, RlcTurns, Zenon
  <2> HIDE DEF q3
  <2>4. q4 \in Registers /\ IsEight(q4.a, f, g, h, i, a, b, d, e)
    BY <2>3, RlcTurns, Zenon
  <2> HIDE DEF q4
  <2>5. q5 \in Registers /\ IsEight(q5.a, e, f, g, h, i, a, b, d)
    BY <2>4, RlcTurns, Zenon
  <2> HIDE DEF q5
  <2>6. q6 \in Registers /\ IsEight(q6.a, d, e, f, g, h, i, a, b)
    BY <2>5, RlcTurns, Zenon
  <2> HIDE DEF q6
  <2>7. q7 \in Registers /\ IsEight(q7.a, b, d, e, f, g, h, i, a)
    BY <2>6, RlcTurns, Zenon
  <2> HIDE DEF q7
  <2>8. q8 \in Registers /\ IsEight(q8.a, a, b, d, e, f, g, h, i)
    BY <2>7, RlcTurns, Zenon
  <2>9. q8.a = q.a
    <3> HIDE DEF q8
    <3> QED  BY <1>2, <2>8, Zenon DEF IsEight
  <2> QED  BY <2>9, Zenon DEF q1, q2, q3, q4, q5, q6, q7
<1>5. rrc(rlc(q)).a = q.a
  <2>1. rlc(q) \in Registers /\ IsEight(rlc(q).a, i, a, b, d, e, f, g, h)
    BY <1>2, RlcTurns, Zenon
  <2>2. IsEight(rrc(rlc(q)).a, a, b, d, e, f, g, h, i)
    BY <2>1, RrcTurns, Zenon
  <2> QED  BY <1>2, <2>2, Zenon DEF IsEight
<1>6. ral(ral(ral(ral(ral(ral(ral(ral(ral(q))))))))) = q
  <2> DEFINE q1 == ral(q)  q2 == ral(q1)  q3 == ral(q2)  q4 == ral(q3)
             q5 == ral(q4) q6 == ral(q5)  q7 == ral(q6)  q8 == ral(q7)
  <2>1. Ring(q1, q, i, c, a, b, d, e, f, g, h)
    BY <1>3, RalTurns, Zenon
  <2> HIDE DEF q1
  <2>2. Ring(q2, q, h, i, c, a, b, d, e, f, g)
    BY <2>1, RalTurns, Zenon
  <2> HIDE DEF q2
  <2>3. Ring(q3, q, g, h, i, c, a, b, d, e, f)
    BY <2>2, RalTurns, Zenon
  <2> HIDE DEF q3
  <2>4. Ring(q4, q, f, g, h, i, c, a, b, d, e)
    BY <2>3, RalTurns, Zenon
  <2> HIDE DEF q4
  <2>5. Ring(q5, q, e, f, g, h, i, c, a, b, d)
    BY <2>4, RalTurns, Zenon
  <2> HIDE DEF q5
  <2>6. Ring(q6, q, d, e, f, g, h, i, c, a, b)
    BY <2>5, RalTurns, Zenon
  <2> HIDE DEF q6
  <2>7. Ring(q7, q, b, d, e, f, g, h, i, c, a)
    BY <2>6, RalTurns, Zenon
  <2> HIDE DEF q7
  <2>8. Ring(q8, q, a, b, d, e, f, g, h, i, c)
    BY <2>7, RalTurns, Zenon
  <2> HIDE DEF q8
  <2>9. Ring(ral(q8), q, c, a, b, d, e, f, g, h, i)
    BY <2>8, RalTurns, Zenon
  <2>10. ral(q8) = q
    BY <1>3, <2>9, SameRing, Zenon
  <2> QED  BY <2>10, Zenon DEF q1, q2, q3, q4, q5, q6, q7, q8
<1>7. rar(ral(q)) = q
  <2>1. Ring(ral(q), q, i, c, a, b, d, e, f, g, h)
    BY <1>3, RalTurns, Zenon
  <2>2. Ring(rar(ral(q)), q, c, a, b, d, e, f, g, h, i)
    BY <2>1, RarTurns, Zenon
  <2> QED  BY <1>3, <2>2, SameRing, Zenon
<1> QED  BY <1>4, <1>5, <1>6, <1>7

(* Turning a byte's ring all the way, or there and back, changes nothing.  *)
THEOREM RotatesReturn == Spec => []RotatesAreRings
<1>1. IInv => RotatesAreRings
  BY Rotations, Zenon DEF IInv, TypeOK, RotatesAreRings
<1> QED  BY <1>1, Invariance, PTL

-----------------------------------------------------------------------------
(* What an addition makes of every register: the result v with its two     *)
(* carries, and the flags that describe s.                                 *)
Flagged(v, carry, half, s) ==
    [a |-> v, carry |-> carry, half_carry |-> half, zero |-> Flag(s = 0),
     sign |-> Flag(s >= 128), parity |-> get_parity(s)]

LEMMA SameFields ==
    ASSUME NEW q \in Registers, NEW s \in Registers,
           q.a = s.a, q.carry = s.carry, q.half_carry = s.half_carry,
           q.zero = s.zero, q.sign = s.sign, q.parity = s.parity
    PROVE  q = s
BY DEF Registers

LEMMA FlaggedType ==
    ASSUME NEW v \in Byte, NEW carry \in BitVal, NEW half \in BitVal, NEW s
    PROVE  Flagged(v, carry, half, s) \in Registers
BY FlagType, ParityType DEF Flagged, Registers

LEMMA ZPSIs ==
    ASSUME NEW q \in Registers
    PROVE  ZPS(q) = Flagged(q.a, q.carry, q.half_carry, q.a)
<1> DEFINE f == Flagged(q.a, q.carry, q.half_carry, q.a)
<1>1. q.a \in Byte /\ q.carry \in BitVal /\ q.half_carry \in BitVal
  BY DEF Registers
<1>2. f \in Registers
  BY <1>1, FlaggedType
<1>3. /\ f.a = q.a /\ f.carry = q.carry /\ f.half_carry = q.half_carry
      /\ f.zero = Flag(q.a = 0) /\ f.sign = Flag(q.a >= 128)
      /\ f.parity = get_parity(q.a)
  BY DEF Flagged
<1>4. /\ ZPS(q) \in Registers
      /\ ZPS(q).a = q.a /\ ZPS(q).carry = q.carry
      /\ ZPS(q).half_carry = q.half_carry
  BY ZPSKeeps
<1>5. /\ ZPS(q).zero = Flag(q.a = 0) /\ ZPS(q).sign = Flag(q.a >= 128)
      /\ ZPS(q).parity = get_parity(q.a)
  BY DEF ZPS, Registers
<1> HIDE DEF f
<1>6. ZPS(q) = f
  BY <1>2, <1>3, <1>4, <1>5, SameFields
<1> QED  BY <1>6 DEF f

LEMMA GenaddIs ==
    ASSUME NEW q, NEW val, NEW c, NEW sum, NEW carry, NEW half,
           q \in Registers, AddNumbers(q.a, val, c, sum, carry, half)
    PROVE  genadd(q, val, c) = Flagged(sum, carry, half, sum)
<1> DEFINE raw == [q EXCEPT !.half_carry = half, !.carry = carry, !.a = sum]
<1>1. genadd(q, val, c) = ZPS(raw)
  BY DEF genadd, AddNumbers
<1>2. sum \in Byte /\ carry \in BitVal /\ half \in BitVal
  BY DEF AddNumbers, Byte, BitVal
<1>3. /\ raw \in Registers /\ raw.a = sum /\ raw.carry = carry
      /\ raw.half_carry = half
  BY <1>2 DEF Registers
<1> HIDE DEF raw
<1> QED  BY <1>1, <1>3, ZPSIs

Carrying(q, w, c) == [q EXCEPT !.a = w, !.carry = c]
Halving(q, w, h)  == [q EXCEPT !.a = w, !.half_carry = h]

Describes(q, v, carry, half, s) ==
    /\ v \in Byte /\ carry \in BitVal /\ half \in BitVal
    /\ q = Flagged(v, carry, half, s)

LEMMA FlaggedCarrying ==
    ASSUME NEW f, NEW v, NEW carry, NEW half, NEW s,
           Describes(f, v, carry, half, s)
    PROVE  \A w \in Byte, c \in BitVal :
             Carrying(f, w, c) = Flagged(w, c, half, s)
<1> TAKE w \in Byte, c \in BitVal
<1> DEFINE n == Carrying(f, w, c)
           g == Flagged(w, c, half, s)
<1>1. f \in Registers /\ g \in Registers
  BY FlaggedType DEF Describes
<1>2. /\ f.carry = carry /\ f.half_carry = half /\ f.zero = Flag(s = 0)
      /\ f.sign = Flag(s >= 128) /\ f.parity = get_parity(s)
  BY DEF Flagged, Describes
<1>3. /\ g.a = w /\ g.carry = c /\ g.half_carry = half
      /\ g.zero = Flag(s = 0) /\ g.sign = Flag(s >= 128)
      /\ g.parity = get_parity(s)
  BY DEF Flagged
<1> HIDE DEF g
<1>4. /\ n \in Registers /\ n.a = w /\ n.carry = c
      /\ n.half_carry = f.half_carry /\ n.zero = f.zero
      /\ n.sign = f.sign /\ n.parity = f.parity
  BY <1>1 DEF Carrying, Registers
<1> HIDE DEF n
<1>5. n = g
  BY <1>1, <1>2, <1>3, <1>4, SameFields
<1> QED  BY <1>5 DEF n, g

LEMMA FlaggedHalving ==
    ASSUME NEW f, NEW v, NEW carry, NEW half, NEW s,
           Describes(f, v, carry, half, s)
    PROVE  \A w \in Byte, h \in BitVal :
             Halving(f, w, h) = Flagged(w, carry, h, s)
<1> TAKE w \in Byte, h \in BitVal
<1> DEFINE n == Halving(f, w, h)
           g == Flagged(w, carry, h, s)
<1>1. f \in Registers /\ g \in Registers
  BY FlaggedType DEF Describes
<1>2. /\ f.carry = carry /\ f.half_carry = half /\ f.zero = Flag(s = 0)
      /\ f.sign = Flag(s >= 128) /\ f.parity = get_parity(s)
  BY DEF Flagged, Describes
<1>3. /\ g.a = w /\ g.carry = carry /\ g.half_carry = h
      /\ g.zero = Flag(s = 0) /\ g.sign = Flag(s >= 128)
      /\ g.parity = get_parity(s)
  BY DEF Flagged
<1> HIDE DEF g
<1>4. /\ n \in Registers /\ n.a = w /\ n.half_carry = h
      /\ n.carry = f.carry /\ n.zero = f.zero
      /\ n.sign = f.sign /\ n.parity = f.parity
  BY <1>1 DEF Halving, Registers
<1> HIDE DEF n
<1>5. n = g
  BY <1>1, <1>2, <1>3, <1>4, SameFields
<1> QED  BY <1>5 DEF n, g

LEMMA StepFlagsIs ==
    ASSUME NEW q \in Registers, NEW result \in 0 .. 255, NEW half \in 0 .. 1
    PROVE  StepFlags(q, result, half) = Flagged(q.a, q.carry, half, result)
<1> DEFINE raw == [q EXCEPT !.a = result]
<1>1. raw \in Registers /\ raw.a = result /\ raw.carry = q.carry
  BY DEF Registers, Byte
<1> HIDE DEF raw
<1>2. ZPS(raw) = Flagged(result, q.carry, raw.half_carry, result)
  BY <1>1, ZPSIs
<1> DEFINE g == Flagged(result, q.carry, raw.half_carry, result)
<1>3. StepFlags(q, result, half) = Halving(g, q.a, half)
  BY <1>2 DEF StepFlags, raw, Halving
<1>4. /\ Describes(g, result, q.carry, raw.half_carry, result)
      /\ q.a \in Byte /\ half \in BitVal
  BY <1>1 DEF Registers, Byte, BitVal, Describes
<1> HIDE DEF g
<1>5. Halving(g, q.a, half) = Flagged(q.a, q.carry, half, result)
  <2>1. \A w \in Byte, h \in BitVal :
          Halving(g, w, h) = Flagged(w, q.carry, h, result)
    BY <1>4, FlaggedHalving
  <2> QED  BY <1>4, <2>1
<1> QED  BY <1>3, <1>5

(* INR adds 1 and DCR subtracts it, that is adds 255; the subtraction adds *)
(* 254 and a carry, which goes over the low digit just as often.           *)
LEMMA IncrementNumbers ==
    ASSUME NEW v \in 0 .. 255
    PROVE  /\ v + 1 + 0 = v + 1
           /\ v + (255 - 1) + (1 - 0) = v + 255
           /\ check_half_carry(v, 255, 0) = check_half_carry(v, 255 - 1, 1 - 0)
           /\ (v + 1) % 256 \in 0 .. 255 /\ (v + 255) % 256 \in 0 .. 255
<1>1. 255 % 16 = 15 /\ 254 % 16 = 14
  OBVIOUS
<1>2. v % 16 \in 0 .. 15
  OBVIOUS
<1>3. (v % 16) + (255 % 16) + 0 = (v % 16) + (254 % 16) + 1
  BY <1>1, <1>2
<1>4. check_half_carry(v, 255, 0) = check_half_carry(v, 254, 1)
  BY <1>3, Zenon DEF check_half_carry
<1>5. 255 - 1 = 254 /\ 1 - 0 = 1
  OBVIOUS
<1>6. check_half_carry(v, 255, 0) = check_half_carry(v, 255 - 1, 1 - 0)
  BY <1>4, <1>5, Zenon
<1> QED  BY <1>6

LEMMA Counting ==
    ASSUME TypeOK
    PROVE  CountingKeepsCarry
<1> DEFINE q == Load(x)
<1>1. x \in 0 .. 255 /\ r \in Registers
  BY DEF TypeOK, Byte
<1>2. q \in Registers /\ q.a = x
  BY <1>1, LoadType
<1> HIDE DEF q
<1>3. 1 \in 0 .. 255 /\ 0 \in 0 .. 1 /\ 255 - 1 \in 0 .. 255 /\ 1 - 0 \in 0 .. 1
  OBVIOUS
<1>4. PICK sum \in 0 .. 255, carry \in 0 .. 1, half \in 0 .. 1 :
        AddNumbers(x, 1, 0, sum, carry, half)
  BY <1>1, <1>3, AddNumbersExist, Zenon
<1>5. genadd(q, 1, 0) = Flagged(sum, carry, half, sum)
  <2>1. AddNumbers(q.a, 1, 0, sum, carry, half)
    BY <1>2, <1>4
  <2> QED  BY <1>2, <2>1, GenaddIs
<1>6. sum = inr_result(x) /\ half = check_half_carry(x, 1, 0)
  BY <1>1, <1>4, IncrementNumbers, Zenon DEF AddNumbers, inr_result
<1>7. inr(r, x) = Flagged(r.a, r.carry, half, sum)
  BY <1>1, <1>6, StepFlagsIs, Zenon DEF inr
<1>8. PICK diff \in 0 .. 255, carry2 \in 0 .. 1, half2 \in 0 .. 1 :
        AddNumbers(x, 255 - 1, 1 - 0, diff, carry2, half2)
  BY <1>1, <1>3, AddNumbersExist, Zenon
<1>9. genadd(q, 255 - 1, 1 - 0) = Flagged(diff, carry2, half2, diff)
  <2>1. AddNumbers(q.a, 255 - 1, 1 - 0, diff, carry2, half2)
    BY <1>2, <1>8, Zenon
  <2>2. genadd(q, 255 - 1, 1 - 0) = Flagged(diff, carry2, half2, diff)
    BY <1>2, <2>1, GenaddIs
  <2> QED  BY <2>2
<1>10. diff = dcr_result(x) /\ half2 = check_half_carry(x, 255, 0)
  BY <1>1, <1>8, IncrementNumbers, Zenon DEF AddNumbers, dcr_result
<1>11. dcr(r, x) = Flagged(r.a, r.carry, half2, diff)
  BY <1>1, <1>10, StepFlagsIs, Zenon DEF dcr
<1>12. gensub(q, 1, 0) = Flagged(diff, 1 - carry2, half2, diff)
  BY <1>9 DEF gensub, Flagged
<1>13. /\ Describes(genadd(q, 1, 0), sum, carry, half, sum)
       /\ Describes(gensub(q, 1, 0), diff, 1 - carry2, half2, diff)
       /\ r.a \in Byte /\ r.carry \in BitVal
  BY <1>1, <1>5, <1>12 DEF Byte, BitVal, Registers, Describes
<1>14. /\ inr(r, x) = [genadd(q, 1, 0) EXCEPT !.a = r.a, !.carry = r.carry]
       /\ dcr(r, x) = [gensub(q, 1, 0) EXCEPT !.a = r.a, !.carry = r.carry]
  <2>1. inr(r, x) = Carrying(genadd(q, 1, 0), r.a, r.carry)
    <3>1. \A w \in Byte, c \in BitVal :
            Carrying(genadd(q, 1, 0), w, c) = Flagged(w, c, half, sum)
      BY <1>13, FlaggedCarrying
    <3> QED  BY <1>7, <1>13, <3>1
  <2>2. dcr(r, x) = Carrying(gensub(q, 1, 0), r.a, r.carry)
    <3>1. \A w \in Byte, c \in BitVal :
            Carrying(gensub(q, 1, 0), w, c) = Flagged(w, c, half2, diff)
      BY <1>13, FlaggedCarrying
    <3> QED  BY <1>11, <1>13, <3>1, Zenon
  <2> QED  BY <2>1, <2>2 DEF Carrying
<1>15. inr_result(x) = genadd(q, 1, 0).a /\ dcr_result(x) = gensub(q, 1, 0).a
  BY <1>5, <1>6, <1>10, <1>12 DEF Flagged
<1> QED  BY <1>14, <1>15, Zenon DEF q, CountingKeepsCarry

LEMMA LogicFields ==
    ASSUME NEW q \in Registers, NEW w \in 0 .. 255
    PROVE  /\ ana(q, w) \in Registers /\ ana(q, w).a = And(q.a, w)
           /\ ora(q, w) \in Registers /\ ora(q, w).a = Or(q.a, w)
           /\ xra(q, w) \in Registers /\ xra(q, w).a = Xor(q.a, w)
<1>1. q.a \in 0 .. 255
  BY DEF Registers, Byte
<1>2. /\ And(q.a, w) \in Byte /\ Or(q.a, w) \in Byte /\ Xor(q.a, w) \in Byte
      /\ Bit(Or(w, q.a), 3) \in BitVal
      /\ 0 \in BitVal /\ 1 \in BitVal
  <2>1. LogicLaws(q.a, w)
    BY <1>1, LogicOfBytes
  <2>2. Bit(Or(w, q.a), 3) \in BitVal
    BY BitType
  <2> QED  BY <1>1, <2>1, <2>2 DEF LogicLaws, Byte, BitVal
<1>3. ana(q, w) \in Registers /\ ana(q, w).a = And(q.a, w)
  <2> DEFINE n == [q EXCEPT !.half_carry = Bit(Or(w, q.a), 3), !.carry = 0,
                            !.a = And(q.a, w)]
  <2>1. n \in Registers /\ n.a = And(q.a, w)
    BY <1>2 DEF Registers
  <2>2. ana(q, w) = ZPS(n)
    BY DEF ana
  <2> HIDE DEF n
  <2> QED  BY <2>1, <2>2, ZPSKeeps
<1>4. ora(q, w) \in Registers /\ ora(q, w).a = Or(q.a, w)
  <2> DEFINE n == [q EXCEPT !.half_carry = 0, !.carry = 0, !.a = Or(q.a, w)]
  <2>1. n \in Registers /\ n.a = Or(q.a, w)
    BY <1>2 DEF Registers
  <2>2. ora(q, w) = ZPS(n)
    BY DEF ora
  <2> HIDE DEF n
  <2> QED  BY <2>1, <2>2, ZPSKeeps
<1>5. xra(q, w) \in Registers /\ xra(q, w).a = Xor(q.a, w)
  <2> DEFINE n == [q EXCEPT !.half_carry = 0, !.carry = 0, !.a = Xor(q.a, w)]
  <2>1. n \in Registers /\ n.a = Xor(q.a, w)
    BY <1>2 DEF Registers
  <2>2. xra(q, w) = ZPS(n)
    BY DEF xra
  <2> HIDE DEF n
  <2> QED  BY <2>1, <2>2, ZPSKeeps
<1> QED  BY <1>3, <1>4, <1>5

LEMMA ComplementFields ==
    ASSUME NEW q \in Registers
    PROVE  /\ cma(q) \in Registers /\ cma(q).a = 255 - q.a
           /\ stc(q).carry = 1
<1>1. 255 - q.a \in Byte
  BY DEF Registers, Byte
<1> QED  BY <1>1 DEF cma, stc, Registers

LEMMA Logic ==
    ASSUME TypeOK
    PROVE  LogicAgrees
<1>1. x \in 0 .. 255 /\ y \in 0 .. 255 /\ r \in Registers
  BY DEF TypeOK, Byte
<1>2. Load(x) \in Registers /\ Load(x).a = x /\ Load(y) \in Registers /\ Load(y).a = y
  BY <1>1, LoadType
<1> LogicLaws(x, y)
  BY <1>1, LogicOfBytes
<1>3. PICK both \in 0 .. 255, either \in 0 .. 255, one \in 0 .. 255 :
        both = And(x, y) /\ either = Or(x, y) /\ one = Xor(x, y)
  BY Zenon DEF LogicLaws
<1>4. ana(Load(x), y).a = both /\ ora(Load(x), y).a = either
      /\ xra(Load(x), y) \in Registers /\ xra(Load(x), y).a = one
  <2>1. /\ ana(Load(x), y).a = And(Load(x).a, y)
        /\ ora(Load(x), y).a = Or(Load(x).a, y)
        /\ xra(Load(x), y) \in Registers /\ xra(Load(x), y).a = Xor(Load(x).a, y)
    BY <1>1, <1>2, LogicFields, Zenon
  <2> QED  BY <1>2, <1>3, <2>1, Zenon
<1>5. both + either = x + y
  BY <1>3, Zenon DEF LogicLaws
<1>6. gensub(Load(either), both, 0).a = one
  <2>1. Load(either) \in Registers /\ Load(either).a = either
    BY LoadType
  <2>2. 0 \in 0 .. 1
    OBVIOUS
  <2>3. PICK diff \in 0 .. 255, borrow \in 0 .. 1 :
          SubNumbers(either, both, 0, diff, borrow)
    BY <2>2, SubNumbersExist, Zenon
  <2>4. gensub(Load(either), both, 0).a = diff
    <3>1. SubNumbers(Load(either).a, both, 0, diff, borrow)
      BY <2>1, <2>3, Zenon
    <3> QED  BY <2>1, <3>1, GensubFields, Zenon
  <2>5. diff - 256 * borrow = either - both - 0
    BY <2>3, Zenon DEF SubNumbers
  <2>6. both + one = either
    BY <1>3, Zenon DEF LogicLaws
  <2>7. diff = one
    BY <2>5, <2>6
  <2> QED  BY <2>4, <2>7
<1>7. xra(xra(Load(x), y), y).a = x
  <2>1. xra(xra(Load(x), y), y).a = Xor(one, y)
    BY <1>1, <1>4, LogicFields, Zenon
  <2> QED  BY <1>3, <2>1, Zenon DEF LogicLaws
<1>8. cma(ana(cma(Load(x)), 255 - y)).a = either
  <2>1. 255 - y \in 0 .. 255 /\ 255 - x \in 0 .. 255
    BY <1>1
  <2>2. cma(Load(x)) \in Registers /\ cma(Load(x)).a = 255 - x
    BY <1>2, ComplementFields
  <2> DEFINE q == ana(cma(Load(x)), 255 - y)
  <2>3. q \in Registers /\ q.a = And(255 - x, 255 - y)
    <3>1. q \in Registers /\ q.a = And(cma(Load(x)).a, 255 - y)
      BY <2>1, <2>2, LogicFields, Zenon
    <3> QED  BY <2>2, <3>1, Zenon
  <2> HIDE DEF q
  <2>4. cma(q).a = 255 - And(255 - x, 255 - y)
    BY <2>3, ComplementFields
  <2> USE DEF q
  <2> QED  BY <1>3, <2>4, Zenon DEF LogicLaws
<1>9. compare(Load(x), y)
        = [cmc(genadd(Load(x), cma(Load(y)).a, stc(r).carry)) EXCEPT !.a = x]
  <2>1. cma(Load(y)).a = 255 - y /\ stc(r).carry = 1 /\ 1 - 0 = 1
    BY <1>1, <1>2, ComplementFields
  <2> DEFINE sum == genadd(Load(x), 255 - y, 1)
  <2>2. gensub(Load(x), y, 0) = [sum EXCEPT !.carry = 1 - @]
    BY <2>1 DEF gensub
  <2>3. cmc(genadd(Load(x), cma(Load(y)).a, stc(r).carry))
          = [sum EXCEPT !.carry = 1 - @]
    BY <2>1 DEF cmc
  <2> HIDE DEF sum
  <2> QED  BY <1>2, <2>2, <2>3 DEF compare
<1> QED  BY <1>3, <1>4, <1>5, <1>6, <1>7, <1>8, <1>9 DEF LogicAgrees

(* A comparison's carry is the borrow, and its zero flag tells equality.    *)
LEMMA CompareDescribes ==
    ASSUME TypeOK
    PROVE  LET c == compare(Load(x), y) IN
             /\ check_condition(c, "C") <=> x < y
             /\ check_condition(c, "Z") <=> x = y
<1>1. x \in 0 .. 255 /\ y \in 0 .. 255 /\ 0 \in 0 .. 1
  BY DEF TypeOK, Byte
<1>2. Load(x) \in Registers /\ Load(x).a = x
  BY <1>1, LoadType
<1>3. PICK diff \in 0 .. 255, borrow \in 0 .. 1 : SubNumbers(x, y, 0, diff, borrow)
  BY <1>1, SubNumbersExist, Zenon
<1>4. PICK cval \in 0 .. 255, nc \in 0 .. 1, carry \in 0 .. 1, half \in 0 .. 1 :
        /\ cval = 255 - y /\ nc = 1 - 0 /\ borrow = 1 - carry
        /\ AddNumbers(x, cval, nc, diff, carry, half)
  BY <1>3, Zenon DEF SubNumbers
<1>5. genadd(Load(x), cval, nc) = Flagged(diff, carry, half, diff)
  <2>1. AddNumbers(Load(x).a, cval, nc, diff, carry, half)
    BY <1>2, <1>4, Zenon
  <2> QED  BY <1>2, <2>1, GenaddIs, Zenon
<1>6. gensub(Load(x), y, 0) = Flagged(diff, borrow, half, diff)
  BY <1>4, <1>5 DEF gensub, Flagged
<1>7. compare(Load(x), y) = Flagged(x, borrow, half, diff)
  BY <1>2, <1>6 DEF compare, Flagged
<1>8. (borrow = 1 <=> x < y) /\ (diff = 0 <=> x = y)
  <2>1. diff - 256 * borrow = x - y - 0
    BY <1>3, Zenon DEF SubNumbers
  <2> QED  BY <1>1, <2>1
<1> DEFINE c == compare(Load(x), y)
<1>9. c.carry = borrow /\ (c.zero = 1 <=> diff = 0)
  BY <1>7 DEF Flagged, Flag
<1>10. /\ check_condition(c, "C") <=> c.carry = 1
       /\ check_condition(c, "Z") <=> c.zero = 1
  BY DEF check_condition
<1> QED  BY <1>8, <1>9, <1>10

-----------------------------------------------------------------------------
(* The parity: 0x6996 holds the parity of each nibble, and folding a byte  *)
(* on itself keeps its parity.                                             *)
LEMMA PowersOn ==
    /\ 2^8 = 256 /\ 2^9 = 512 /\ 2^10 = 1024 /\ 2^11 = 2048
    /\ 2^12 = 4096 /\ 2^13 = 8192 /\ 2^14 = 16384 /\ 2^15 = 32768
<1>1. 2^8 = 256 /\ 2^9 = 512
  OBVIOUS
<1>2. 2^10 = 1024 /\ 2^11 = 2048
  OBVIOUS
<1>3. 2^12 = 4096 /\ 2^13 = 8192
  OBVIOUS
<1>4. 2^14 = 16384 /\ 2^15 = 32768
  OBVIOUS
<1> QED BY <1>1, <1>2, <1>3, <1>4

LEMMA ParityTable ==
    /\ Bit(27030, 0) = 0 /\ Bit(27030, 1) = 1
    /\ Bit(27030, 2) = 1 /\ Bit(27030, 3) = 0
    /\ Bit(27030, 4) = 1 /\ Bit(27030, 5) = 0
    /\ Bit(27030, 6) = 0 /\ Bit(27030, 7) = 1
    /\ Bit(27030, 8) = 1 /\ Bit(27030, 9) = 0
    /\ Bit(27030, 10) = 0 /\ Bit(27030, 11) = 1
    /\ Bit(27030, 12) = 0 /\ Bit(27030, 13) = 1
    /\ Bit(27030, 14) = 1 /\ Bit(27030, 15) = 0
<1>1. /\ Bit(27030, 0) = 0 /\ Bit(27030, 1) = 1
      /\ Bit(27030, 2) = 1 /\ Bit(27030, 3) = 0
  BY Powers DEF Bit, Flag
<1>2. /\ Bit(27030, 4) = 1 /\ Bit(27030, 5) = 0
      /\ Bit(27030, 6) = 0 /\ Bit(27030, 7) = 1
  BY Powers DEF Bit, Flag
<1>3. /\ Bit(27030, 8) = 1 /\ Bit(27030, 9) = 0
      /\ Bit(27030, 10) = 0 /\ Bit(27030, 11) = 1
  BY PowersOn DEF Bit, Flag
<1>4. /\ Bit(27030, 12) = 0 /\ Bit(27030, 13) = 1
      /\ Bit(27030, 14) = 1 /\ Bit(27030, 15) = 0
  BY PowersOn DEF Bit, Flag
<1> QED  BY <1>1, <1>2, <1>3, <1>4

LEMMA NibbleParity ==
    ASSUME NEW a \in 0 .. 1, NEW b \in 0 .. 1, NEW c \in 0 .. 1, NEW d \in 0 .. 1
    PROVE  Bit(27030, a + 2 * b + 4 * c + 8 * d) = (a + b + c + d) % 2
<1>1. CASE c = 0 /\ d = 0
  BY <1>1, ParityTable
<1>2. CASE c = 1 /\ d = 0
  BY <1>2, ParityTable
<1>3. CASE c = 0 /\ d = 1
  BY <1>3, ParityTable
<1>4. CASE c = 1 /\ d = 1
  BY <1>4, ParityTable
<1> QED  BY <1>1, <1>2, <1>3, <1>4

LEMMA FoldedNibble ==
    ASSUME NEW v, NEW a, NEW b, NEW c, NEW d, NEW e, NEW f, NEW g, NEW h,
           IsEight(v, a, b, c, d, e, f, g, h)
    PROVE  /\ v \div 16 = Eight(e, f, g, h, 0, 0, 0, 0)
           /\ v % 16 = a + 2 * b + 4 * c + 8 * d
<1>1. PICK low \in 0 .. 15, high \in 0 .. 15 :
        low = a + 2 * b + 4 * c + 8 * d /\ high = e + 2 * f + 4 * g + 8 * h
  BY DEF IsEight
<1>2. v = low + 16 * high
  BY <1>1 DEF IsEight, Eight
<1>3. v \div 16 = high /\ v % 16 = low
  BY <1>2
<1> QED  BY <1>1, <1>3 DEF IsEight, Eight

FoldBits(b) == [i \in 0 .. 7 |-> IF i < 4 THEN b[i + 4] ELSE 0]

LEMMA FoldOctet ==
    ASSUME NEW b \in Octets
    PROVE  /\ FoldBits(b) \in Octets
           /\ FromBits(b) \div 16 = FromBits(FoldBits(b))
           /\ FromBits(b) % 16 = b[0] + 2 * b[1] + 4 * b[2] + 8 * b[3]
<1> DEFINE v == FromBits(b)
<1>1. v = Eight(b[0], b[1], b[2], b[3], b[4], b[5], b[6], b[7])
  BY DEF FromBits, Eight
<1> HIDE DEF v
<1>2. IsEight(v, b[0], b[1], b[2], b[3], b[4], b[5], b[6], b[7])
  BY <1>1, OctetType, Zenon DEF IsEight
<1>3. /\ v \div 16 = Eight(b[4], b[5], b[6], b[7], 0, 0, 0, 0)
      /\ v % 16 = b[0] + 2 * b[1] + 4 * b[2] + 8 * b[3]
  BY <1>2, FoldedNibble
<1>4. /\ FoldBits(b)[0] = b[4] /\ FoldBits(b)[1] = b[5]
      /\ FoldBits(b)[2] = b[6] /\ FoldBits(b)[3] = b[7]
      /\ FoldBits(b)[4] = 0 /\ FoldBits(b)[5] = 0
      /\ FoldBits(b)[6] = 0 /\ FoldBits(b)[7] = 0
  BY DEF FoldBits
<1>5. FromBits(FoldBits(b)) = Eight(b[4], b[5], b[6], b[7], 0, 0, 0, 0)
  BY <1>4 DEF FromBits, Eight
<1>6. FoldBits(b) \in Octets
  BY OctetType DEF FoldBits, Octets
<1> QED  BY <1>3, <1>5, <1>6 DEF v

Ones(v) == Bit(v, 0) + Bit(v, 1) + Bit(v, 2) + Bit(v, 3)
             + Bit(v, 4) + Bit(v, 5) + Bit(v, 6) + Bit(v, 7)

LEMMA FoldKeepsParity ==
    ASSUME NEW v, NEW a, NEW b, NEW c, NEW d, NEW e, NEW f, NEW g, NEW h,
           IsEight(v, a, b, c, d, e, f, g, h)
    PROVE  (Flag(e # a) + Flag(f # b) + Flag(g # c) + Flag(h # d)) % 2
             = (a + b + c + d + e + f + g + h) % 2
<1> /\ a \in 0 .. 1 /\ b \in 0 .. 1 /\ c \in 0 .. 1 /\ d \in 0 .. 1
    /\ e \in 0 .. 1 /\ f \in 0 .. 1 /\ g \in 0 .. 1 /\ h \in 0 .. 1
  BY DEF IsEight
<1>1. PICK k \in 0 .. 1, l \in 0 .. 1, m \in 0 .. 1, n \in 0 .. 1 :
        /\ Flag(e # a) = e + a - 2 * k /\ Flag(f # b) = f + b - 2 * l
        /\ Flag(g # c) = g + c - 2 * m /\ Flag(h # d) = h + d - 2 * n
  <2>1. \A p \in 0 .. 1, q \in 0 .. 1 :
          \E k \in 0 .. 1 : Flag(p # q) = p + q - 2 * k
    BY DEF Flag
  <2> QED  BY <2>1
<1>2. PICK s \in 0 .. 8, t \in 0 .. 4 :
        s = a + b + c + d + e + f + g + h /\ t = k + l + m + n
  OBVIOUS
<1>3. Flag(e # a) + Flag(f # b) + Flag(g # c) + Flag(h # d) = s - 2 * t
  BY <1>1, <1>2
<1>4. (s - 2 * t) % 2 = s % 2
  OBVIOUS
<1> QED  BY <1>2, <1>3, <1>4

LEMMA ParityIs ==
    ASSUME NEW v \in 0 .. 255
    PROVE  get_parity(v) = 1 - (Ones(v) % 2)
<1>1. PICK b \in Octets : v = FromBits(b)
  BY OctetOf
<1> DEFINE z == XorBits(FoldBits(b), b)
<1>2. FoldBits(b) \in Octets /\ v \div 16 = FromBits(FoldBits(b))
  BY <1>1, FoldOctet
<1>3. z \in Octets
  BY <1>2, BitsType
<1>4. Xor(v \div 16, v) = FromBits(z)
  BY <1>1, <1>2, LogicOnBits
<1>5. /\ z[0] = Flag(b[4] # b[0]) /\ z[1] = Flag(b[5] # b[1])
      /\ z[2] = Flag(b[6] # b[2]) /\ z[3] = Flag(b[7] # b[3])
  BY DEF XorBits, FoldBits
<1> HIDE DEF z
<1> /\ z[0] \in 0 .. 1 /\ z[1] \in 0 .. 1 /\ z[2] \in 0 .. 1 /\ z[3] \in 0 .. 1
  BY <1>3, OctetType
<1>6. Xor(v \div 16, v) % 16 = z[0] + 2 * z[1] + 4 * z[2] + 8 * z[3]
  BY <1>3, <1>4, FoldOctet
<1>7. Bit(27030, Xor(v \div 16, v) % 16) = (z[0] + z[1] + z[2] + z[3]) % 2
  <2>1. Bit(27030, z[0] + 2 * z[1] + 4 * z[2] + 8 * z[3])
          = (z[0] + z[1] + z[2] + z[3]) % 2
    BY NibbleParity
  <2> QED  BY <1>6, <2>1
<1>8. (z[0] + z[1] + z[2] + z[3]) % 2
        = (b[0] + b[1] + b[2] + b[3] + b[4] + b[5] + b[6] + b[7]) % 2
  <2>1. IsEight(v, b[0], b[1], b[2], b[3], b[4], b[5], b[6], b[7])
    BY <1>1, OctetType DEF IsEight, FromBits, Eight
  <2>2. (Flag(b[4] # b[0]) + Flag(b[5] # b[1]) + Flag(b[6] # b[2])
           + Flag(b[7] # b[3])) % 2
          = (b[0] + b[1] + b[2] + b[3] + b[4] + b[5] + b[6] + b[7]) % 2
    BY <2>1, FoldKeepsParity
  <2> QED  BY <1>5, <2>2, Zenon
<1>9. Ones(v) = b[0] + b[1] + b[2] + b[3] + b[4] + b[5] + b[6] + b[7]
  <2>1. \A i \in 0 .. 7 : Bit(v, i) = b[i]
    BY <1>1, BitOfOctet
  <2>2. /\ Bit(v, 0) = b[0] /\ Bit(v, 1) = b[1] /\ Bit(v, 2) = b[2]
        /\ Bit(v, 3) = b[3] /\ Bit(v, 4) = b[4] /\ Bit(v, 5) = b[5]
        /\ Bit(v, 6) = b[6] /\ Bit(v, 7) = b[7]
    BY <2>1
  <2> QED  BY <2>2, Zenon DEF Ones
<1>10. Bit(27030, Xor(v \div 16, v) % 16) = Ones(v) % 2
  BY <1>7, <1>8, <1>9
<1> QED  BY <1>10 DEF get_parity

-----------------------------------------------------------------------------
(* INR and DCR touch the flags of an addition but the carry, so a loop may *)
(* count between two bytes.                                                *)
THEOREM CountingKeeps == Spec => []CountingKeepsCarry
BY TypeCorrect, Counting, PTL

(* ANA, ORA, XRA, CMA and CMP agree with the arithmetic, whatever the      *)
(* operands.                                                               *)
THEOREM LogicIsArithmetic == Spec => []LogicAgrees
BY TypeCorrect, Logic, PTL

(* After a byte of a sum or of a difference the flags describe it.         *)
FlagInv ==
    task \in {"add", "sub"} /\ scale > 1 =>
        /\ r.zero = Flag(r.a = 0)
        /\ r.sign = Flag(r.a >= 128)
        /\ r.parity = get_parity(r.a)

LEMMA GenaddDescribes ==
    ASSUME IInv, NEW v \in 0 .. 255, NEW w \in 0 .. 255, NEW c \in 0 .. 1
    PROVE  LET q == genadd(Load(v), w, c) IN
             /\ q.zero = Flag(q.a = 0)
             /\ q.sign = Flag(q.a >= 128)
             /\ q.parity = get_parity(q.a)
<1>1. Load(v) \in Registers /\ Load(v).a = v
  BY LoadType DEF IInv
<1>2. PICK sum \in 0 .. 255, carry \in 0 .. 1, half \in 0 .. 1 :
        AddNumbers(v, w, c, sum, carry, half)
  BY AddNumbersExist, Zenon
<1>3. AddNumbers(Load(v).a, w, c, sum, carry, half)
  BY <1>1, <1>2, Zenon
<1>4. genadd(Load(v), w, c) = Flagged(sum, carry, half, sum)
  BY <1>1, <1>3, GenaddIs
<1> QED  BY <1>4 DEF Flagged

LEMMA FlagStep == IInv /\ FlagInv /\ [Next]_vars => FlagInv'
<1> SUFFICES ASSUME IInv, FlagInv, [Next]_vars PROVE FlagInv'
  OBVIOUS
<1>1. Bytes \subseteq 0 .. 255
  BY MultiByteAssumption DEF Byte
<1>2. r.carry \in 0 .. 1
  BY DEF IInv, TypeOK, Registers, BitVal
<1>3. ASSUME NEW v \in Bytes, NEW w \in Bytes, AddByte(v, w) PROVE FlagInv'
  <2>1. r' = genadd(Load(v), w, r.carry)
    BY <1>3 DEF AddByte
  <2> QED  BY <1>1, <1>2, <2>1, GenaddDescribes DEF FlagInv
<1>4. ASSUME NEW v \in Bytes, NEW w \in Bytes, SubByte(v, w) PROVE FlagInv'
  <2>1. PICK cval \in 0 .. 255, nc \in 0 .. 1 : cval = 255 - w /\ nc = 1 - r.carry
    BY <1>1, <1>2
  <2> DEFINE q == genadd(Load(v), cval, nc)
  <2>2. r' = [q EXCEPT !.carry = 1 - q.carry]
    BY <1>4, <2>1 DEF SubByte, gensub
  <2>3. /\ q.zero = Flag(q.a = 0) /\ q.sign = Flag(q.a >= 128)
        /\ q.parity = get_parity(q.a)
    BY <1>1, GenaddDescribes
  <2>4. q \in Registers
    <3>1. Load(v) \in Registers /\ Load(v).a = v
      BY <1>1, LoadType DEF IInv
    <3>2. PICK sum \in 0 .. 255, carry \in 0 .. 1, half \in 0 .. 1 :
            AddNumbers(v, cval, nc, sum, carry, half)
      BY <1>1, AddNumbersExist
    <3>3. AddNumbers(Load(v).a, cval, nc, sum, carry, half)
      BY <3>1, <3>2, Zenon
    <3> QED  BY <3>1, <3>3, GenaddFields
  <2> HIDE DEF q
  <2>5. r'.a = q.a /\ r'.zero = q.zero /\ r'.sign = q.sign /\ r'.parity = q.parity
    BY <2>2, <2>4 DEF Registers
  <2> QED  BY <2>3, <2>5 DEF FlagInv
<1>5. ASSUME NEW v \in Bytes, NEW w \in Bytes, AddDecimal(v, w) PROVE FlagInv'
  BY <1>5 DEF AddDecimal, FlagInv
<1>6. ASSUME NEW v \in Bytes, RalByte(v) PROVE FlagInv'
  BY <1>6 DEF RalByte, Next1, FlagInv
<1>7. ASSUME NEW v \in Bytes, RarByte(v) PROVE FlagInv'
  BY <1>7 DEF RarByte, FlagInv
<1>8. CASE UNCHANGED vars
  BY <1>8 DEF vars, FlagInv
<1> QED  BY <1>3, <1>4, <1>5, <1>6, <1>7, <1>8 DEF Next

LEMMA FlagsRead ==
    ASSUME IInv, FlagInv
    PROVE  FlagsDescribe
<1>1. r.a \in 0 .. 255
  BY DEF IInv, TypeOK, Registers, Byte
<1>2. ASSUME task \in {"add", "sub"}, scale > 1
      PROVE  /\ check_condition(r, "Z") <=> r.a = 0
             /\ check_condition(r, "M") <=> r.a > 127
             /\ check_condition(r, "PE") <=> Ones(r.a) % 2 = 0
  <2>1. /\ check_condition(r, "Z") <=> r.zero = 1
        /\ check_condition(r, "M") <=> r.sign = 1
        /\ check_condition(r, "PE") <=> r.parity = 1
    BY DEF check_condition
  <2>2. /\ r.zero = Flag(r.a = 0) /\ r.sign = Flag(r.a >= 128)
        /\ r.parity = get_parity(r.a)
    BY <1>2 DEF FlagInv
  <2>3. (r.zero = 1 <=> r.a = 0) /\ (r.sign = 1 <=> r.a > 127)
    BY <1>1, <2>2 DEF Flag
  <2>4. r.parity = 1 <=> Ones(r.a) % 2 = 0
    <3>1. PICK ones \in Nat : ones = Ones(r.a)
      BY BitType DEF Ones, BitVal
    <3>2. r.parity = 1 - (ones % 2)
      BY <1>1, <2>2, <3>1, ParityIs
    <3> QED  BY <3>1, <3>2
  <2> QED  BY <2>1, <2>3, <2>4
<1> QED  BY <1>2, CompareDescribes DEF FlagsDescribe, Ones, IInv

(* The conditional jumps after an addition, a subtraction or a comparison  *)
(* see zero, sign, parity and borrow as they are.                          *)
THEOREM FlagsTell == Spec => []FlagsDescribe
<1>1. Init => FlagInv
  BY DEF Init, FlagInv
<1>2. IInv /\ FlagInv => FlagsDescribe
  BY FlagsRead
<1> QED  BY <1>1, <1>2, FlagStep, Invariance, PTL DEF Spec
=============================================================================
