----------------------------- MODULE MultiByte -----------------------------
(***************************************************************************)
(* Numbers of many bytes, processed a byte at a time by the instructions   *)
(* of the 8080: what a guest's loop around ADC, SBB, ADC with DAA, RAL or  *)
(* RAR computes.  Each byte's instruction reads the carry, and DAA the     *)
(* half-carry, that the byte before it left, so a flag that is wrong for   *)
(* one byte shows as a wrong number later.                                 *)
(*                                                                         *)
(* The guest clears the carry with an ORA A, then takes byte x of one      *)
(* number and byte y of the other, least significant byte first (RAR: most *)
(* significant first), and stores the accumulator.  The numbers themselves *)
(* are history variables.                                                  *)
(***************************************************************************)
EXTENDS Alu

CONSTANTS
    Bytes,          \* the bytes of the numbers
    MaxScale        \* bound: numbers stay below it (the loop is unbounded)

ASSUME MultiByteAssumption == Bytes \subseteq Byte /\ MaxScale \in Nat

VARIABLES
    r,              \* accumulator and flags
    task,           \* which loop runs
    x, y,           \* the operands of the last instruction
    X, Y,           \* history: the numbers whose bytes were taken so far
    stored,         \* history: the number whose bytes were stored so far
    scale           \* history: the weight of the next byte

vars == <<r, task, x, y, X, Y, stored, scale>>

Tasks == {"add", "sub", "decimal", "left", "right"}

TypeOK ==
    /\ r \in Registers
    /\ task \in Tasks
    /\ x \in Byte /\ y \in Byte
    /\ X \in Nat /\ Y \in Nat
    /\ stored \in Nat
    /\ scale \in Nat \ {0}

(* Packed decimal: two digits to a byte.                                   *)
IsDecimal(v)    == v % 16 <= 9 /\ v \div 16 <= 9
DecimalValue(v) == 10 * (v \div 16) + (v % 16)

-----------------------------------------------------------------------------
(* The carry is what ORA A leaves; the flags before it are arbitrary.      *)
Init ==
    /\ \E before \in [a : Bytes, carry : BitVal, half_carry : BitVal,
                      zero : {0}, sign : {0}, parity : {0}] :
         r = ora(before, before.a)
    /\ task \in Tasks
    /\ x = 0 /\ y = 0
    /\ X = 0 /\ Y = 0
    /\ stored = 0
    /\ scale = 1

Load(v) == [r EXCEPT !.a = v]               \* MOV A: no flag changes

(* The two operands join their numbers, the result is stored.              *)
Next1(v, w, base) ==
    /\ scale < MaxScale
    /\ x' = v /\ y' = w
    /\ X' = X + scale * v /\ Y' = Y + scale * w
    /\ stored' = stored + scale * r'.a
    /\ scale' = base * scale
    /\ UNCHANGED task

AddByte(v, w) ==
    /\ task = "add"
    /\ r' = genadd(Load(v), w, r.carry)
    /\ Next1(v, w, 256)

SubByte(v, w) ==
    /\ task = "sub"
    /\ r' = gensub(Load(v), w, r.carry)
    /\ Next1(v, w, 256)

RalByte(v) ==
    /\ task = "left"
    /\ r' = ral(Load(v))
    /\ Next1(v, 0, 256)

AddDecimal(v, w) ==
    /\ task = "decimal"
    /\ IsDecimal(v) /\ IsDecimal(w)
    /\ r' = daa(genadd(Load(v), w, r.carry))
    /\ scale < MaxScale
    /\ x' = v /\ y' = w
    /\ X' = X + scale * DecimalValue(v) /\ Y' = Y + scale * DecimalValue(w)
    /\ stored' = stored + scale * DecimalValue(r'.a)
    /\ scale' = 100 * scale
    /\ UNCHANGED task

(* RAR goes from the top down, so the numbers grow at their low end.       *)
RarByte(v) ==
    /\ task = "right"
    /\ r' = rar(Load(v))
    /\ scale < MaxScale
    /\ x' = v /\ y' = 0
    /\ X' = 256 * X + v
    /\ stored' = 256 * stored + r'.a
    /\ scale' = 256 * scale
    /\ UNCHANGED <<task, Y>>

Next ==
    \/ \E v, w \in Bytes : AddByte(v, w) \/ SubByte(v, w) \/ AddDecimal(v, w)
    \/ \E v \in Bytes : RalByte(v) \/ RarByte(v)

Spec == Init /\ [][Next]_vars

-----------------------------------------------------------------------------
(* However many bytes a loop has processed, what it stored and the carry   *)
(* it would hand to the next byte make up the exact result: the sum, the   *)
(* difference (the carry being the borrow), the double, and the half (the  *)
(* carry being the bit that fell out).                                     *)
ExactSum        == task = "add"   => X + Y = stored + scale * r.carry
ExactDifference == task = "sub"   => X - Y = stored - scale * r.carry
ExactDouble     == task = "left"  => 2 * X = stored + scale * r.carry
ExactHalf       == task = "right" => X = 2 * stored + r.carry

(* A chain of ADC, of SBB, of RAL or of RAR is exact.                      *)
ExactBinary == ExactSum /\ ExactDifference /\ ExactDouble /\ ExactHalf

(* So is one of ADC and DAA, and every stored byte is packed decimal again.*)
ExactDecimal ==
    task = "decimal" => /\ X + Y = stored + scale * r.carry
                        /\ scale > 1 => IsDecimal(r.a)

(* DAD gives the sum and the carry that adding two bytes by two gives.     *)
DadIsTwoAdds ==
    task = "add" /\ scale = 65536 =>
        dad_result(X, Y) = stored /\ dad_carry(X, Y) = r.carry

(* INR and DCR set the flags that adding or subtracting 1 sets, but for    *)
(* the carry, which they keep: a loop may count with them between two      *)
(* bytes.                                                                  *)
CountingKeepsCarry ==
    LET up   == genadd(Load(x), 1, 0)
        down == gensub(Load(x), 1, 0)
    IN  /\ inr(r, x) = [up EXCEPT !.a = r.a, !.carry = r.carry]
        /\ dcr(r, x) = [down EXCEPT !.a = r.a, !.carry = r.carry]
        /\ inr_result(x) = up.a /\ dcr_result(x) = down.a

(* The logic agrees with the arithmetic: the bits of x and y that are both *)
(* set, added to those of either, are their sum; those of either less the  *)
(* common ones are their difference; XRA undoes itself; and subtracting is *)
(* adding the complement with the carry set, the carry then complemented.  *)
LogicAgrees ==
    LET both   == ana(Load(x), y).a
        either == ora(Load(x), y).a
        one    == xra(Load(x), y)
        added  == cmc(genadd(Load(x), cma(Load(y)).a, stc(r).carry))
        less   == compare(Load(x), y)
    IN  /\ both + either = x + y
        /\ gensub(Load(either), both, 0).a = one.a
        /\ xra(one, y).a = x
        /\ cma(ana(cma(Load(x)), 255 - y)).a = either
        /\ less = [added EXCEPT !.a = x]

(* The condition flags after an addition or a subtraction tell what the    *)
(* conditional jumps say they tell: zero, sign, and an even number of ones *)
(* in the result; after a comparison, whether one byte is the other or     *)
(* below it.                                                               *)
FlagsDescribe ==
    /\ task \in {"add", "sub"} /\ scale > 1 =>
        /\ check_condition(r, "Z") <=> r.a = 0
        /\ check_condition(r, "M") <=> r.a > 127
        /\ check_condition(r, "PE") <=>
             (Bit(r.a, 0) + Bit(r.a, 1) + Bit(r.a, 2) + Bit(r.a, 3)
                + Bit(r.a, 4) + Bit(r.a, 5) + Bit(r.a, 6) + Bit(r.a, 7)) % 2 = 0
    /\ LET c == compare(Load(x), y) IN
        /\ check_condition(c, "C") <=> x < y
        /\ check_condition(c, "Z") <=> x = y

(* Rotating turns a ring of bits: eight RLCs, or a RLC and a RRC, change   *)
(* no bit of the byte, and nine RALs, or a RAL and a RAR, change neither   *)
(* the byte nor the carry, the ring's ninth bit.                           *)
RotatesAreRings ==
    LET rlc4(q) == rlc(rlc(rlc(rlc(q))))
        ral3(q) == ral(ral(ral(q)))
    IN  /\ rlc4(rlc4(r)).a = r.a
        /\ rrc(rlc(r)).a = r.a
        /\ ral3(ral3(ral3(r))) = r
        /\ rar(ral(r)) = r
=============================================================================
