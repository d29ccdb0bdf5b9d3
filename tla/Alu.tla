-------------------------------- MODULE Alu --------------------------------
(***************************************************************************)
(* The arithmetic and logic of the 8080 (intel8080.c) as operators on the  *)
(* accumulator and the flags.  A flag is 0 or 1, as its bit-field is; an   *)
(* instruction maps the record of accumulator and flags to the next one.   *)
(* Where a register or memory operand comes from is not part of this       *)
(* module.                                                                 *)
(*                                                                         *)
(* A definition that stands before the operator it distorts                *)
(* (ParityOfNibble, AndLogical, NoHalfCarry, DcrBorrows, DadCarryLate,     *)
(* RalTruncates) is a plausible mistake that the run must detect; nothing  *)
(* else uses it.                                                           *)
(***************************************************************************)
EXTENDS Integers

Byte == 0 .. 255
Word == 0 .. 65535
BitVal == 0 .. 1

Registers == [a : Byte, carry : BitVal, half_carry : BitVal, zero : BitVal,
              sign : BitVal, parity : BitVal]

Flag(condition) == IF condition THEN 1 ELSE 0

-----------------------------------------------------------------------------
(* Bytes as bits.                                                          *)
Bit(v, i) == Flag((v \div 2^i) % 2 = 1)

FromBits(b) ==
    b[0] + 2 * b[1] + 4 * b[2] + 8 * b[3]
      + 16 * b[4] + 32 * b[5] + 64 * b[6] + 128 * b[7]

AndLogical(v, w) == Flag(v # 0 /\ w # 0)
And(v, w) == FromBits([i \in 0 .. 7 |-> Flag(Bit(v, i) = 1 /\ Bit(w, i) = 1)])
Xor(v, w) == FromBits([i \in 0 .. 7 |-> Flag(Bit(v, i) # Bit(w, i))])
Or(v, w)  == FromBits([i \in 0 .. 7 |-> Flag(Bit(v, i) = 1 \/ Bit(w, i) = 1)])

(* get_parity: the two nibbles are folded and looked up in 0x6996, whose   *)
(* bit n is set when n has an odd number of ones.                          *)
ParityOfNibble(v) == 1 - Bit(27030, v % 16)
get_parity(v)     == 1 - Bit(27030, Xor(v \div 16, v) % 16)

(* UPDATE_FLAGS_ZPS for the accumulator.                                   *)
ZPS(r) == [r EXCEPT !.zero = Flag(r.a = 0), !.sign = Flag(r.a >= 128),
                    !.parity = get_parity(r.a)]

check_carry(v, w, c)         == Flag(v + w + c > 255)
NoHalfCarry(v, w, c)         == 0
check_half_carry(v, w, c)    == Flag((v % 16) + (w % 16) + c > 15)

-----------------------------------------------------------------------------
(* Addition and subtraction.                                               *)
genadd(r, val, c) ==
    ZPS([r EXCEPT !.half_carry = check_half_carry(r.a, val, c),
                  !.carry = check_carry(r.a, val, c),
                  !.a = (@ + val + c) % 256])

(* The two's complement of val is added; the carry out of that addition is *)
(* the inverse of a borrow, in and out.                                    *)
gensub(r, val, c) ==
    LET sum == genadd(r, 255 - val, 1 - c) IN
    [sum EXCEPT !.carry = 1 - @]

compare(r, val) == [gensub(r, val, 0) EXCEPT !.a = r.a]

(* INR and DCR work on any register or memory byte: what they store, and   *)
(* what they do to the flags; the carry is left alone.                     *)
inr_result(v) == (v + 1) % 256
dcr_result(v) == (v + 255) % 256

StepFlags(r, result, half) ==
    [ZPS([r EXCEPT !.a = result]) EXCEPT !.a = r.a, !.half_carry = half]

inr(r, v) == StepFlags(r, inr_result(v), check_half_carry(v, 1, 0))
DcrBorrows(r, v) ==
    StepFlags(r, dcr_result(v), 1 - check_half_carry(v, 255, 0))
dcr(r, v) == StepFlags(r, dcr_result(v), check_half_carry(v, 255, 0))

(* DAD: a 16-bit sum; of the flags only the carry changes.                 *)
dad_result(v, w)   == (v + w) % 65536
DadCarryLate(v, w) == Flag(v + w > 65536)
dad_carry(v, w)    == Flag(v + w > 65535)

(* DAA adds 6 to each decimal digit that went over 9.                      *)
DaaAdd(r) ==
    LET low  == r.a % 16
        high == r.a \div 16
    IN  [low  |-> low > 9 \/ r.half_carry = 1,
         high |-> (high >= 9 /\ low > 9) \/ high > 9 \/ r.carry = 1]

daa(r) ==
    LET d   == DaaAdd(r)
        add == (IF d.low THEN 6 ELSE 0) + (IF d.high THEN 96 ELSE 0)
    IN  [genadd(r, add, 0) EXCEPT !.carry = IF d.high THEN 1 ELSE r.carry]

-----------------------------------------------------------------------------
(* Logic: ANA and ANI, XRA and XRI, ORA and ORI.                           *)
ana(r, val) ==
    ZPS([r EXCEPT !.half_carry = Bit(Or(val, r.a), 3), !.carry = 0,
                  !.a = And(@, val)])
xra(r, val) ==
    ZPS([r EXCEPT !.half_carry = 0, !.carry = 0, !.a = Xor(@, val)])
ora(r, val) ==
    ZPS([r EXCEPT !.half_carry = 0, !.carry = 0, !.a = Or(@, val)])

(* Rotation: RLC and RRC within the byte, RAL and RAR through the carry.   *)
(* RAL assigns 0x80 to the carry's bit-field, which is one bit of a bool   *)
(* and so becomes 1; RalTruncates is what one bit of a byte would hold.    *)
LowBit(v)  == v % 2
HighBit(v) == v \div 128
Twice(v)   == (2 * v) % 256

rlc(r) == [r EXCEPT !.a = Twice(@) + HighBit(@), !.carry = HighBit(r.a)]
rrc(r) == [r EXCEPT !.a = (@ \div 2) + 128 * LowBit(@), !.carry = LowBit(r.a)]
RalTruncates(r) == [r EXCEPT !.a = Twice(@) + r.carry, !.carry = 0]
ral(r) == [r EXCEPT !.a = Twice(@) + r.carry, !.carry = HighBit(r.a)]
rar(r) == [r EXCEPT !.a = (@ \div 2) + 128 * r.carry, !.carry = LowBit(r.a)]

cma(r) == [r EXCEPT !.a = 255 - @]
stc(r) == [r EXCEPT !.carry = 1]
cmc(r) == [r EXCEPT !.carry = 1 - @]

(* check_condition, by the condition's name.                               *)
check_condition(r, condition) ==
    CASE condition = "NZ" -> r.zero = 0
      [] condition = "Z"  -> r.zero = 1
      [] condition = "NC" -> r.carry = 0
      [] condition = "C"  -> r.carry = 1
      [] condition = "PO" -> r.parity = 0
      [] condition = "PE" -> r.parity = 1
      [] condition = "P"  -> r.sign = 0
      [] condition = "M"  -> r.sign = 1
=============================================================================
