------------------------------ MODULE LimbVec ------------------------------
(***************************************************************************)
(* btorsimbv.c as it computes: a BtorSimBitVector is its width and its     *)
(* limbs, the most significant first.  The bits of the first limb above    *)
(* the width are spare and always zero.  Vectors of at most two limbs are  *)
(* computed on as a uint64_t, longer ones limb by limb.                    *)
(***************************************************************************)
EXTENDS BitVec, SequencesExt

CONSTANT
    LimbBits  \* BTORSIM_BV_TYPE_BW, 32; a uint64_t has twice as many bits

ASSUME LimbBitsAssumption == LimbBits \in Nat \ {0}

Base       == 2 ^ LimbBits
DoubleBits == 2 * LimbBits
LimbsFor(w) == (w + LimbBits - 1) \div LimbBits

NumLimbs(v) == Len(v.bits)

Vectors(w) == [width : {w}, bits : [1 .. LimbsFor(w) -> 0 .. Base - 1]]

\* The vector of width w with the limbs limb(1), limb(2), ..., as a tuple.
Build(w, limb(_)) ==
    [width |-> w, bits |-> <<>> \o [i \in 1 .. LimbsFor(w) |-> limb(i)]]

\* btorsim_bv_new
lv_new(w) == Build(w, LAMBDA i : 0)

\* BTOR2_MASK_REM_BITS: as many ones as the first limb has bits of the vector;
\* zero if the width is a multiple of the limb's.
MaskRemBits(w) == (2 ^ (LimbBits - 1) - 1) \div 2 ^ (LimbBits - 1 - (w % LimbBits))

LimbAnd(x, y) == Bitwise(LimbBits, LAMBDA p, q : p * q, x, y)
LimbOr(x, y)  == Bitwise(LimbBits, LAMBDA p, q : p + q - p * q, x, y)
LimbXor(x, y) == Bitwise(LimbBits, LAMBDA p, q : (p + q) % 2, x, y)
LimbNot(x)    == Base - 1 - x

set_rem_bits_to_zero(v) ==
    IF v.width = LimbBits * NumLimbs(v) THEN v
    ELSE [v EXCEPT !.bits[1] = LimbAnd(@, MaskRemBits(v.width))]

\* btorsim_bv_to_uint64, without the limit of two limbs: what a vector denotes.
Number(v) ==
    LET n[i \in 0 .. NumLimbs(v)] == IF i = 0 THEN 0 ELSE n[i - 1] * Base + v.bits[i]
    IN  n[NumLimbs(v)]

\* The two last limbs from a 64-bit integer, cut to the width.
WithLowLimbs(v, n) ==
    LET limb(i) == IF i < NumLimbs(v) - 1 THEN v.bits[i]
                   ELSE (n \div 2 ^ (LimbBits * (NumLimbs(v) - i))) % Base
    IN  set_rem_bits_to_zero(Build(v.width, limb))

uint64_to_bv(n, w) == WithLowLimbs(lv_new(w), n % 2 ^ DoubleBits)

get_bit(v, pos) == Bit(v.bits[NumLimbs(v) - pos \div LimbBits], pos % LimbBits)
set_bit(v, pos, bit) ==
    [v EXCEPT !.bits[NumLimbs(v) - pos \div LimbBits] =
        @ + (bit - Bit(@, pos % LimbBits)) * 2 ^ (pos % LimbBits)]

is_true(v) == v.width = 1 /\ get_bit(v, 0) = 1
is_zero(v) == \A i \in DOMAIN v.bits : v.bits[i] = 0

----------------------------------------------------------------------------
(* Operations limb by limb.                                                *)

Limbwise(f(_, _), a, b) == Build(a.width, LAMBDA i : f(a.bits[i], b.bits[i]))
Masked(f(_, _), a, b) == set_rem_bits_to_zero(Limbwise(f, a, b))

lv_not(a)  == Masked(LAMBDA x, y : LimbNot(x), a, a)
lv_and(a, b)  == Limbwise(LimbAnd, a, b)
lv_or(a, b)   == Limbwise(LimbOr, a, b)
lv_xor(a, b)  == Limbwise(LimbXor, a, b)
lv_nand(a, b) == Masked(LAMBDA x, y : LimbNot(LimbAnd(x, y)), a, b)
lv_nor(a, b)  == Masked(LAMBDA x, y : LimbNot(LimbOr(x, y)), a, b)
lv_xnor(a, b) == Masked(LAMBDA x, y : LimbXor(x, LimbNot(y)), a, b)
lv_implies(a, b) == Masked(LAMBDA x, y : LimbOr(LimbNot(x), y), a, b)

\* The condition is spread over a limb, as a mask and as its complement.
lv_ite(c, t, e) ==
    LET cc == IF get_bit(c, 0) = 1 THEN Base - 1 ELSE 0
    IN  Limbwise(LAMBDA x, y : LimbOr(LimbAnd(cc, x), LimbAnd(LimbNot(cc), y)), t, e)

OneBit(p) == set_bit(lv_new(1), 0, Truth(p))
lv_one(w)  == set_bit(lv_new(w), 0, 1)
lv_ones(w) == lv_not(lv_new(w))

lv_redand_masked(a) ==
    OneBit(/\ a.bits[1] = MaskRemBits(a.width)
           /\ \A i \in 2 .. NumLimbs(a) : a.bits[i] = Base - 1)
lv_redand(a) ==
    LET full == a.width = LimbBits * NumLimbs(a)
    IN  OneBit(/\ a.bits[1] = (IF full THEN Base - 1 ELSE MaskRemBits(a.width))
               /\ \A i \in 2 .. NumLimbs(a) : a.bits[i] = Base - 1)
lv_redor(a)  == OneBit(\E i \in DOMAIN a.bits : a.bits[i] # 0)
lv_redxor(a) ==
    OneBit(SumBelow(a.width, [i \in 0 .. a.width - 1 |-> get_bit(a, i)]) % 2 = 1)

\* find_diff_index, and the comparison of the limbs there
Differing(a, b) == {i \in DOMAIN a.bits : a.bits[i] # b.bits[i]}
Less(a, b) == /\ Differing(a, b) # {}
              /\ LET i == Min(Differing(a, b)) IN a.bits[i] < b.bits[i]

lv_eq(a, b)   == OneBit(Differing(a, b) = {})
lv_ult(a, b)  == OneBit(Less(a, b))
lv_ulte(a, b) == OneBit(~Less(b, a))

SignOf(a) == get_bit(a, a.width - 1)
lv_slt(a, b) ==
    OneBit(IF SignOf(a) = SignOf(b) THEN Less(a, b) ELSE SignOf(a) = 1)
lv_slte(a, b) ==
    OneBit(IF SignOf(a) = SignOf(b) THEN ~Less(b, a) ELSE SignOf(a) = 1)

compare(a, b) ==
    CASE a.width # b.width -> -1
      [] a.width = b.width /\ Less(a, b) -> -1
      [] a.width = b.width /\ Less(b, a) -> 1
      [] OTHER -> 0

----------------------------------------------------------------------------
(* Arithmetic.                                                             *)

\* The carries into the limbs, from the last to the first.
Carries(a, b) ==
    LET carry[i \in 1 .. NumLimbs(a)] ==
          IF i = NumLimbs(a) THEN 0
          ELSE (a.bits[i + 1] + b.bits[i + 1] + carry[i + 1]) \div Base
    IN  carry
AddLimbs(a, b) ==
    Build(a.width, LAMBDA i : (a.bits[i] + b.bits[i] + Carries(a, b)[i]) % Base)

lv_add(a, b) ==
    set_rem_bits_to_zero(
      IF a.width <= DoubleBits THEN uint64_to_bv(Number(a) + Number(b), a.width)
      ELSE AddLimbs(a, b))
lv_neg(a) == lv_add(lv_not(a), lv_one(a.width))
lv_inc(a) == lv_add(a, lv_one(a.width))
lv_dec(a) == lv_add(a, lv_neg(lv_one(a.width)))
lv_sub(a, b) == lv_add(a, lv_neg(b))

\* sll_bv: a limb of the result is made of two neighbours.
sll_bv(a, shift) ==
    LET k    == shift % LimbBits
        skip == shift \div LimbBits
        high(i) == (a.bits[i] * 2 ^ k) % Base
        low(i)  == IF k = 0 \/ i > NumLimbs(a) THEN 0 ELSE a.bits[i] \div 2 ^ (LimbBits - k)
        limb(j) == IF j + skip > NumLimbs(a) THEN 0
                   ELSE LimbOr(high(j + skip), low(j + skip + 1))
    IN  IF shift >= a.width THEN lv_new(a.width)
        ELSE set_rem_bits_to_zero(Build(a.width, limb))

lv_mul(a, b) ==
    LET term(i) == IF get_bit(b, i) = 1 THEN sll_bv(a, i) ELSE lv_new(a.width)
        sum[i \in 0 .. a.width] ==
          IF i = 0 THEN lv_new(a.width)
          ELSE LET res == sum[i - 1] IN lv_add(res, term(i - 1))
    IN  IF a.width <= DoubleBits THEN uint64_to_bv(Number(a) * Number(b), a.width)
        ELSE sum[a.width]

\* udiv_urem_bv above 64 bits, long division: round k brings the next lower bit of a
\* down to the end of the rest, and subtracts b if it is no larger.
LongDivision_strict(a, b) ==
    LET round[k \in 0 .. a.width] ==
          IF k = 0 THEN [quot |-> lv_new(a.width), rem |-> lv_new(a.width)]
          ELSE LET i == a.width - k
                   last == round[k - 1]
                   r == set_bit(sll_bv(last.rem, 1), 0, get_bit(a, i))
               IN  IF Less(b, r)
                   THEN [quot |-> set_bit(last.quot, i, 1), rem |-> lv_add(r, lv_neg(b))]
                   ELSE [quot |-> last.quot, rem |-> r]
    IN  round[a.width]
LongDivision(a, b) ==
    LET round[k \in 0 .. a.width] ==
          IF k = 0 THEN [quot |-> lv_new(a.width), rem |-> lv_new(a.width)]
          ELSE LET i == a.width - k
                   last == round[k - 1]
                   r == set_bit(sll_bv(last.rem, 1), 0, get_bit(a, i))
               IN  IF Less(b, r) \/ b = r
                   THEN [quot |-> set_bit(last.quot, i, 1), rem |-> lv_add(r, lv_neg(b))]
                   ELSE [quot |-> last.quot, rem |-> r]
    IN  round[a.width]

udiv_urem_bv(a, b) ==
    LET x == Number(a)
        y == Number(b)
    IN  CASE a.width > DoubleBits -> LongDivision(a, b)
          [] a.width <= DoubleBits /\ y = 0 ->
               [quot |-> uint64_to_bv(2 ^ DoubleBits - 1, a.width),
                rem  |-> uint64_to_bv(x, a.width)]
          [] OTHER -> [quot |-> uint64_to_bv(x \div y, a.width),
                       rem  |-> uint64_to_bv(x % y, a.width)]

----------------------------------------------------------------------------
(* Parts and extensions.                                                   *)

lv_slice(v, upper, lower) ==
    LET m == upper - lower + 1
        part[j \in 0 .. m] ==
          IF j = 0 THEN lv_new(m)
          ELSE LET res == part[j - 1] IN set_bit(res, j - 1, get_bit(v, lower + j - 1))
    IN  part[m]

\* The limbs of b come last; those of a are shifted into the spare bits of the
\* first of them.  Limb j of the result lies t limbs after the first of b.
lv_concat_aligned(a, b) ==
    [width |-> a.width + b.width, bits |-> a.bits \o b.bits]
lv_concat(a, b) ==
    LET k == b.width % LimbBits
        n == LimbsFor(a.width + b.width)
        high(i) == IF i < 1 THEN 0 ELSE (a.bits[i] * 2 ^ k) % Base
        low(i)  == a.bits[i] \div 2 ^ (LimbBits - k)
        limb(t) == CASE t > 0 -> b.bits[t + 1]
                     [] t = 0 -> LimbOr(b.bits[1], high(NumLimbs(a)))
                     [] OTHER -> LimbOr(low(NumLimbs(a) + t + 1), high(NumLimbs(a) + t))
    IN  IF k = 0 THEN lv_concat_aligned(a, b)
        ELSE Build(a.width + b.width, LAMBDA j : limb(j - 1 - (n - NumLimbs(b))))

lv_sext(v, len) == lv_concat(IF SignOf(v) = 1 THEN lv_ones(len) ELSE lv_new(len), v)
lv_uext(v, len) ==
    LET more == LimbsFor(v.width + len) - NumLimbs(v)
    IN  Build(v.width + len, LAMBDA j : IF j <= more THEN 0 ELSE v.bits[j - more])

----------------------------------------------------------------------------
(* Shifts and rotations by a vector.                                       *)

get_num_leading_zeros(v) ==
    LET set == {i \in 0 .. v.width - 1 : get_bit(v, i) = 1}
    IN  IF set = {} THEN v.width ELSE v.width - 1 - Max(set)

\* The shift does not fit a uint64_t; otherwise, the shift.
TooFar(b) == b.width > DoubleBits /\ get_num_leading_zeros(b) < b.width - DoubleBits
Shift(b)  == IF b.width <= DoubleBits THEN Number(b)
             ELSE Number(lv_slice(b, DoubleBits - 1, 0))

lv_sll(a, b) == IF TooFar(b) THEN lv_new(a.width)
                ELSE sll_bv(a, Shift(b) % 2 ^ WordBits)

lv_srl_no_neighbour(a, b) ==
    LET k    == Shift(b) % LimbBits
        skip == Shift(b) \div LimbBits
        limb(j) == IF j <= skip THEN 0 ELSE a.bits[j - skip] \div 2 ^ k
    IN  IF TooFar(b) \/ Shift(b) >= a.width THEN lv_new(a.width)
        ELSE Build(a.width, limb)
lv_srl(a, b) ==
    LET k    == Shift(b) % LimbBits
        skip == Shift(b) \div LimbBits
        low(i)  == a.bits[i] \div 2 ^ k
        high(i) == IF k = 0 \/ i < 1 THEN 0 ELSE (a.bits[i] * 2 ^ (LimbBits - k)) % Base
        limb(j) == IF j <= skip THEN 0 ELSE LimbOr(low(j - skip), high(j - skip - 1))
    IN  IF TooFar(b) \/ Shift(b) >= a.width THEN lv_new(a.width)
        ELSE Build(a.width, limb)

lv_sra(a, b) ==
    set_rem_bits_to_zero(IF is_true(lv_slice(a, a.width - 1, a.width - 1))
                         THEN lv_not(lv_srl(lv_not(a), b)) ELSE lv_srl(a, b))

WidthMinus(a, b) == lv_sub(uint64_to_bv(a.width, a.width), b)
lv_rol(a, b) == lv_or(lv_sll(a, b), lv_srl(a, WidthMinus(a, b)))
lv_ror(a, b) == lv_or(lv_srl(a, b), lv_sll(a, WidthMinus(a, b)))

----------------------------------------------------------------------------
(* The rest of the interface, which btorsim itself does not call.          *)

\* btorsim_bv_int64_to_bv: the limbs above the two last ones by the sign
int64_to_bv(n, w) ==
    WithLowLimbs(IF n < 0 /\ w > DoubleBits THEN lv_ones(w) ELSE lv_new(w), n)

\* btorsim_bv_is_ones: the results it may have.  Where all bits of several limbs
\* are used it shifts by the whole width of a limb, which is undefined.
is_ones(v) ==
    LET n == LimbBits - (v.width % LimbBits)
        rest == \A i \in 2 .. NumLimbs(v) : v.bits[i] = Base - 1
    IN  CASE ~rest -> {FALSE}
          [] rest /\ v.width = LimbBits -> {v.bits[1] = Base - 1}
          [] rest /\ v.width # LimbBits /\ n = LimbBits -> BOOLEAN
          [] OTHER -> {v.bits[1] = (Base - 1) \div 2 ^ n}

is_one(v) == v.bits[NumLimbs(v)] = 1 /\ \A i \in 1 .. NumLimbs(v) - 1 : v.bits[i] = 0

power_of_two(v) ==
    LET set == {i \in 0 .. v.width - 1 : get_bit(v, i) = 1}
    IN  CASE Cardinality(set) > 1 -> -1
          [] Cardinality(set) = 1 -> Min(set)
          [] OTHER -> 0

\* The last limb, read as an int32_t, if the others are zero.
small_positive_int(v) ==
    LET x == v.bits[NumLimbs(v)]
    IN  IF (\E i \in 1 .. NumLimbs(v) - 1 : v.bits[i] # 0) \/ x >= Base \div 2 THEN -1 ELSE x

get_num_trailing_zeros(v) ==
    LET set == {i \in 0 .. v.width - 1 : get_bit(v, i) = 1}
    IN  IF set = {} THEN v.width ELSE Min(set)

\* btorsim_bv_is_umulo: the upper half of the product in twice the width
is_umulo(a, b) ==
    LET mul == lv_mul(lv_uext(a, a.width), lv_uext(b, b.width))
    IN  a.width > 1 /\ ~is_zero(lv_slice(mul, mul.width - 1, a.width))

=============================================================================
