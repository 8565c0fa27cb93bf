------------------------- MODULE LimbVecReference -------------------------
(***************************************************************************)
(* The operations on limbs and the conversions of constants beside the     *)
(* operations on numbers of BitVec, for the operands of BitVecReference.   *)
(***************************************************************************)
EXTENDS BitVecReference, ConstantDigits

\* The vector of a number, by its bits.
Vector(width, n) ==
    Build(width, LAMBDA i : (n \div 2 ^ (LimbBits * (LimbsFor(width) - i))) % Base)

A == Vector(w, a)
B == Vector(w, b)

\* The limb operations of neg, add, mul and division give the numbers BitVec says,
\* whether they are computed in 64 bits or limb by limb, and leave no spare bit
\* of their result set.
LimbArithmetic ==
    /\ lv_neg(A) = Vector(w, bv_neg(w, a))
    /\ lv_inc(A) = Vector(w, bv_inc(w, a))
    /\ lv_dec(A) = Vector(w, bv_dec(w, a))
    /\ lv_add(A, B) = Vector(w, bv_add(w, a, b))
    /\ lv_sub(A, B) = Vector(w, bv_sub(w, a, b))
    /\ lv_mul(A, B) = Vector(w, bv_mul(w, a, b))
    /\ udiv_urem_bv(A, B).quot = Vector(w, bv_udiv(w, a, b))
    /\ udiv_urem_bv(A, B).rem  = Vector(w, bv_urem(w, a, b))
    /\ is_umulo(A, B) = (w > 1 /\ a * b >= 2 ^ w)
    /\ uint64_to_bv(a, w) = Vector(w, a % 2 ^ DoubleBits)
    /\ LET n == Signed(a)
       IN  n \in -(2 ^ (DoubleBits - 1)) .. 2 ^ (DoubleBits - 1) - 1 =>
             int64_to_bv(n, w) = A

\* The same of the operations on bits, the reductions, the comparisons and the
\* queries.  is_ones has a defined result only where a limb has spare bits or is
\* the only one.
LimbBitsAndOrder ==
    /\ lv_not(A) = Vector(w, bv_not(w, a))
    /\ lv_and(A, B) = Vector(w, bv_and(w, a, b))
    /\ lv_or(A, B)  = Vector(w, bv_or(w, a, b))
    /\ lv_xor(A, B) = Vector(w, bv_xor(w, a, b))
    /\ lv_nand(A, B) = Vector(w, bv_nand(w, a, b))
    /\ lv_nor(A, B)  = Vector(w, bv_nor(w, a, b))
    /\ lv_xnor(A, B) = Vector(w, bv_xnor(w, a, b))
    /\ lv_implies(A, B) = Vector(w, bv_implies(w, a, b))
    /\ \A c \in 0 .. 1 : lv_ite(Vector(1, c), A, B) = IF c = 1 THEN A ELSE B
    /\ lv_redand(A) = Vector(1, bv_redand(w, a))
    /\ lv_redor(A)  = Vector(1, bv_redor(w, a))
    /\ lv_redxor(A) = Vector(1, bv_redxor(w, a))
    /\ lv_eq(A, B)  = Vector(1, Truth(a = b))
    /\ lv_ult(A, B) = Vector(1, bv_ult(a, b))
    /\ lv_ulte(A, B) = Vector(1, bv_ulte(a, b))
    /\ lv_slt(A, B)  = Vector(1, bv_slt(w, a, b))
    /\ lv_slte(A, B) = Vector(1, bv_slte(w, a, b))
    /\ compare(A, B) = IF a < b THEN -1 ELSE IF a > b THEN 1 ELSE 0
    /\ lv_one(w) = Vector(w, 1) /\ lv_ones(w) = Vector(w, 2 ^ w - 1)
    /\ is_one(A) = (a = 1)
    /\ w = LimbBits \/ w % LimbBits # 0 => is_ones(A) = {a = 2 ^ w - 1}
    /\ power_of_two(A) = IF \E i \in 0 .. w - 1 : a = 2 ^ i
                         THEN CHOOSE i \in 0 .. w - 1 : a = 2 ^ i
                         ELSE IF a = 0 THEN 0 ELSE -1
    /\ small_positive_int(A) = IF a < Base \div 2 THEN a ELSE -1
    /\ \A n \in 0 .. w : get_num_leading_zeros(A) >= n <=> a < 2 ^ (w - n)
    /\ \A n \in 0 .. w : get_num_trailing_zeros(A) >= n <=> a % 2 ^ n = 0

\* Shifts and rotations move bits over the limbs' boundaries, by every amount, and
\* so do concatenations of vectors of different widths, slices and extensions.
LimbShiftsAndParts ==
    /\ lv_sll(A, B) = Vector(w, bv_sll(w, a, b))
    /\ lv_srl(A, B) = Vector(w, bv_srl(w, a, b))
    /\ lv_sra(A, B) = Vector(w, bv_sra(w, a, b))
    /\ lv_rol(A, B) = Vector(w, bv_rol(w, a, b))
    /\ lv_ror(A, B) = Vector(w, bv_ror(w, a, b))
    /\ \A v \in 1 .. w :
         LET n == b % 2 ^ v
         IN  /\ lv_concat(A, Vector(v, n)) = Vector(w + v, bv_concat(v, a, n))
             /\ lv_concat(Vector(v, n), A) = Vector(w + v, bv_concat(w, n, a))
             /\ lv_uext(A, v) = Vector(w + v, a)
             /\ lv_sext(A, v) = Vector(w + v, bv_sext(w, a, v))
    /\ \A upper \in 0 .. w - 1 : \A lower \in 0 .. upper :
         lv_slice(A, upper, lower) = Vector(upper - lower + 1, bv_slice(a, upper, lower))

\* The digits of a number.
DigitsOf(n, base) ==
    LET digits[m \in Nat] == IF m < base THEN <<m>>
                             ELSE digits[m \div base] \o <<m % base>>
    IN  digits[n]

\* The parser accepts a decimal or hexadecimal constant, with zeros in front or
\* not, exactly if the number is one of the width, signed or unsigned, and
\* btorsim makes the vector of that number.  The one exception is a negative
\* zero, for which width one is too narrow; a minus sign alone is one too.  What is
\* printed in binary, decimal and hexadecimal is read back, in the shortest form of
\* the number or in all digits of the width.
ConstantsReadAndPrinted ==
    /\ \A n \in {a - b, a + b} : \A zeros \in {<<>>, <<0>>, <<0, 0>>} :
         LET dec == zeros \o DigitsOf(AbsOf(n), 10)
             hex == zeros \o DigitsOf(AbsOf(n), 16)
         IN  /\ check_constd(n < 0, dec, w) <=> n \in -(2 ^ (w - 1)) .. 2 ^ w - 1
             /\ check_constd(n < 0, dec, w) =>
                  bv_constd(n < 0, dec, w) = Vector(w, n % 2 ^ w)
             /\ n >= 0 => (check_consth(hex, w) <=> n < 2 ^ w)
             /\ n \in 0 .. 2 ^ w - 1 => bv_consth(hex, w) = Vector(w, n)
    /\ \A zero \in {<<>>, <<0>>, <<0, 0>>} :
         /\ check_constd(TRUE, zero, w) <=> w > 1
         /\ w > 1 => bv_constd(TRUE, zero, w) = lv_new(w)
    /\ bv_const(to_char(A), w) = A
    /\ to_dec_char(A) = DigitsOf(a, 10)
    /\ bv_constd(FALSE, to_dec_char(A), w) = A
    /\ Len(to_hex_char(A)) = (w + 3) \div 4
    /\ bv_consth(to_hex_char(A), w) = A

=============================================================================
