-------------------------- MODULE BitVecReference --------------------------
(***************************************************************************)
(* The operations of btorsimbv.c beside their textbook definitions on      *)
(* signed and unsigned numbers: each state holds two operands of a width.  *)
(***************************************************************************)
EXTENDS BitVec, FiniteSetsExt

CONSTANT MaxWidth   \* bound on the width of the operands

ASSUME MaxWidthAssumption == MaxWidth \in Nat \ {0}

VARIABLES w, a, b

vars == <<w, a, b>>

Init == w = 1 /\ a = 0 /\ b = 0

Next == \E v \in 1 .. MaxWidth : \E x, y \in Values(v) :
           w' = v /\ a' = x /\ b' = y

Spec == Init /\ [][Next]_vars

----------------------------------------------------------------------------
\* Two's complement.
Signed(x) == IF x >= 2 ^ (w - 1) THEN x - 2 ^ w ELSE x

AbsOf(x) == IF x < 0 THEN -x ELSE x

\* The quotient of two signed numbers, rounded towards zero.
Quotient(x, y) ==
    LET q == AbsOf(x) \div AbsOf(y)
    IN  IF (x < 0) = (y < 0) THEN q ELSE -q

\* Every operation leaves the unused bits of its result zero: no result is wider
\* than its sort, also where an intermediate number is.
ResultsFit ==
    /\ \A x \in {bv_not(w, a), bv_neg(w, a), bv_inc(w, a), bv_dec(w, a),
                 bv_add(w, a, b), bv_sub(w, a, b), bv_mul(w, a, b),
                 bv_udiv(w, a, b), bv_urem(w, a, b), bv_sdiv(w, a, b),
                 bv_srem(w, a, b), bv_smod(w, a, b), bv_and(w, a, b),
                 bv_or(w, a, b), bv_xor(w, a, b), bv_nand(w, a, b),
                 bv_nor(w, a, b), bv_xnor(w, a, b), bv_implies(w, a, b),
                 bv_sll(w, a, b), bv_srl(w, a, b), bv_sra(w, a, b),
                 bv_rol(w, a, b), bv_ror(w, a, b)} : x \in Values(w)
    /\ \A x \in {bv_redand(w, a), bv_redor(w, a), bv_redxor(w, a), bv_ult(a, b),
                 bv_ulte(a, b), bv_slt(w, a, b), bv_slte(w, a, b)} : x \in Values(1)

\* sdiv, srem and smod round and sign as two's complement division does, with
\* the quotient -1 (or 1) and the rest a for a divisor of zero - in width one
\* too, where the code has formulas of their own.
SignedDivision ==
    LET x == Signed(a)
        y == Signed(b)
    IN  IF y = 0
        THEN /\ bv_sdiv(w, a, b) = Fit(w, IF x < 0 THEN 1 ELSE -1)
             /\ bv_srem(w, a, b) = a
             /\ bv_smod(w, a, b) = a
        ELSE /\ bv_sdiv(w, a, b) = Fit(w, Quotient(x, y))
             /\ bv_srem(w, a, b) = Fit(w, x - y * Quotient(x, y))
             /\ LET m == Signed(bv_smod(w, a, b))
                IN  /\ (x - m) % AbsOf(y) = 0
                    /\ AbsOf(m) < AbsOf(y)
                    /\ m # 0 => (m < 0) = (y < 0)

\* What looks at the sign bit or cuts vectors: the comparisons by signs are the
\* orders of the numbers, the arithmetic right shift divides by a power of two,
\* rounding down, an extension by a copy of the sign keeps the signed value, and
\* slices of a concatenation give its parts back.
SignedOrderAndParts ==
    /\ bv_slt(w, a, b)  = Truth(Signed(a) < Signed(b))
    /\ bv_slte(w, a, b) = Truth(Signed(a) <= Signed(b))
    /\ bv_sra(w, a, b)  = Fit(w, Signed(a) \div 2 ^ Min({b, w}))
    /\ \A len \in 1 .. w :
         bv_sext(w, a, len) = (2 ^ (w + len) + Signed(a)) % 2 ^ (w + len)
    /\ LET c == bv_concat(w, a, b)
       IN  bv_slice(c, 2 * w - 1, w) = a /\ bv_slice(c, w - 1, 0) = b

\* A rotation moves bit i to bit i + b modulo the width.
Rotation ==
    /\ \A i \in 0 .. w - 1 : Bit(bv_rol(w, a, b), (i + b) % w) = Bit(a, i)
    /\ \A i \in 0 .. w - 1 : Bit(bv_ror(w, a, b), i) = Bit(a, (i + b) % w)

\* The part of it that the code gets right: rotations by less than the width.
RotationBelowWidth == b <= w => Rotation

=============================================================================
