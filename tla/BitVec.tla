------------------------------- MODULE BitVec -------------------------------
(***************************************************************************)
(* btorsimbv.c: the operations on fixed-size bit-vectors.  A bit-vector of *)
(* width w is a number in 0 .. 2^w - 1; its limbs are abstracted away, the *)
(* way an operation is composed from others is kept.                       *)
(***************************************************************************)
EXTENDS Integers

CONSTANT
    WordBits  \* the width of uint32_t, 32; that of uint64_t is twice as much

ASSUME WordBitsAssumption == WordBits \in Nat \ {0} /\ 2 ^ WordBits \in Nat \ {0}

Values(w) == 0 .. 2 ^ w - 1

\* uint64_to_bv and set_rem_bits_to_zero: the bits that fit the width.
Fit(w, n) == n % 2 ^ w

Bit(a, i) == (a \div 2 ^ i) % 2
Truth(p)  == IF p THEN 1 ELSE 0
Sign(w, a) == Bit(a, w - 1)

\* The sum of h[0], ..., h[w - 1], as a loop over the bits adds them up.
SumBelow(w, h) ==
    LET sum[n \in 0 .. w] == IF n = 0 THEN 0 ELSE sum[n - 1] + h[n - 1]
    IN  sum[w]

\* A vector whose bit i is f of the bits i of a and b.
Bitwise(w, f(_, _), a, b) ==
    SumBelow(w, [i \in 0 .. w - 1 |-> 2 ^ i * f(Bit(a, i), Bit(b, i))])

bv_not(w, a)  == 2 ^ w - 1 - a
bv_neg_unmasked(w, a) == bv_not(w, a) + 1
bv_neg(w, a)  == Fit(w, bv_not(w, a) + 1)
bv_inc(w, a)  == Fit(w, a + 1)
bv_dec(w, a)  == Fit(w, a + 2 ^ w - 1)
bv_redand(w, a) == Truth(a = 2 ^ w - 1)
bv_redor(w, a)  == Truth(a # 0)
bv_redxor(w, a) == SumBelow(w, [i \in 0 .. w - 1 |-> Bit(a, i)]) % 2

bv_add(w, a, b) == Fit(w, a + b)
bv_sub(w, a, b) == bv_add(w, a, bv_neg(w, b))
bv_mul(w, a, b) == Fit(w, a * b)

bv_and(w, a, b) == Bitwise(w, LAMBDA x, y : x * y, a, b)
bv_or(w, a, b)  == Bitwise(w, LAMBDA x, y : x + y - x * y, a, b)
bv_xor(w, a, b) == Bitwise(w, LAMBDA x, y : (x + y) % 2, a, b)
bv_nand(w, a, b) == bv_not(w, bv_and(w, a, b))
bv_nor(w, a, b)  == bv_not(w, bv_or(w, a, b))
bv_xnor(w, a, b) == bv_not(w, bv_xor(w, a, b))
bv_implies(w, a, b) == bv_or(w, bv_not(w, a), b)

\* The most significant limb that differs decides; with equal signs this is
\* also the signed order.
bv_ult(a, b)  == Truth(a < b)
bv_ulte(a, b) == Truth(a <= b)
bv_slt(w, a, b) ==
    IF Sign(w, a) = Sign(w, b) THEN bv_ult(a, b) ELSE Truth(Sign(w, a) = 1)
bv_slte(w, a, b) ==
    IF Sign(w, a) = Sign(w, b) THEN bv_ulte(a, b) ELSE Truth(Sign(w, a) = 1)

\* A shift by the width or more leaves nothing.  bv_sll hands the number over as
\* a uint32_t; above 64 bits it has looked for higher ones before.
bv_sll(w, a, b) ==
    LET shift == b % 2 ^ WordBits
        huge  == w > 2 * WordBits /\ b >= 2 ^ (2 * WordBits)
    IN  IF huge \/ shift >= w THEN 0 ELSE Fit(w, a * 2 ^ shift)
bv_srl(w, a, b) == IF b >= w THEN 0 ELSE a \div 2 ^ b
bv_sra_logical(w, a, b) == bv_srl(w, a, b)
bv_sra(w, a, b) == IF Sign(w, a) = 1
                   THEN bv_not(w, bv_srl(w, bv_not(w, a), b))
                   ELSE bv_srl(w, a, b)

\* Two opposite shifts, the second by the width minus b in w bits.
bv_rol_negated(w, a, b) ==
    bv_or(w, bv_sll(w, a, b), bv_srl(w, a, bv_neg(w, b)))
bv_rol(w, a, b) ==
    LET rev == bv_sub(w, Fit(w, w), b)
    IN  bv_or(w, bv_sll(w, a, b), bv_srl(w, a, rev))
bv_ror(w, a, b) ==
    LET rev == bv_sub(w, Fit(w, w), b)
    IN  bv_or(w, bv_srl(w, a, b), bv_sll(w, a, rev))

\* udiv_urem_bv: division by zero gives all ones, the rest is then a.
bv_udiv(w, a, b) == IF b = 0 THEN 2 ^ w - 1 ELSE a \div b
bv_urem(w, a, b) == IF b = 0 THEN a ELSE a % b

Magnitude(w, a) == IF Sign(w, a) = 1 THEN bv_neg(w, a) ELSE a

bv_sdiv(w, a, b) ==
    LET quotient == bv_udiv(w, Magnitude(w, a), Magnitude(w, b))
    IN  IF w = 1 THEN bv_not(w, bv_and(w, bv_not(w, a), b))
        ELSE IF Sign(w, a) # Sign(w, b) THEN bv_neg(w, quotient)
        ELSE quotient

bv_srem(w, a, b) ==
    LET rest == bv_urem(w, Magnitude(w, a), Magnitude(w, b))
    IN  IF w = 1 THEN bv_and(w, a, bv_not(w, b))
        ELSE IF Sign(w, a) = 1 THEN bv_neg(w, rest)
        ELSE rest

bv_smod_always_adds(w, a, b) ==
    LET rest == bv_urem(w, Magnitude(w, a), Magnitude(w, b))
        add  == b
        neg  == bv_neg(w, rest)
    IN  IF w = 1 THEN bv_and(w, a, bv_not(w, b))
        ELSE CASE Sign(w, a) = 0 /\ Sign(w, b) = 0 -> rest
               [] Sign(w, a) = 1 /\ Sign(w, b) = 0 -> bv_add(w, neg, add)
               [] Sign(w, a) = 0 /\ Sign(w, b) = 1 -> bv_add(w, rest, add)
               [] OTHER -> neg
bv_smod(w, a, b) ==
    LET rest == bv_urem(w, Magnitude(w, a), Magnitude(w, b))
        add  == IF rest = 0 THEN 0 ELSE b
        neg  == bv_neg(w, rest)
    IN  IF w = 1 THEN bv_and(w, a, bv_not(w, b))
        ELSE CASE Sign(w, a) = 0 /\ Sign(w, b) = 0 -> rest
               [] Sign(w, a) = 1 /\ Sign(w, b) = 0 -> bv_add(w, neg, add)
               [] Sign(w, a) = 0 /\ Sign(w, b) = 1 -> bv_add(w, rest, add)
               [] OTHER -> neg

\* Operations that change the width: v is the width of the (second) operand.
bv_concat(v, a, b) == a * 2 ^ v + b
bv_slice(a, upper, lower) == Fit(upper - lower + 1, a \div 2 ^ lower)
bv_sext(v, a, len) == bv_concat(v, IF Sign(v, a) = 1 THEN 2 ^ len - 1 ELSE 0, a)

=============================================================================
